------------------------ MODULE ConversationsProofs ------------------------
(***************************************************************************)
(* What Conversations guarantees for every number of requests,             *)
(* conversations, projects and sockets, every length of the history and    *)
(* every setting of the memory.                                            *)
(***************************************************************************)
EXTENDS Conversations, FiniteSetTheorems, TLAPS

Adding(r)    == pc[r] \in {"insert", "touch", "think", "commit"}
Opening(r)   == job[r].kind \in {"start", "create"}
Chatting(r)  == job[r].kind \in {"chat", "start"}
Question(r)  == {m \in Message : m.by = r /\ m.role = "user"}
Answer(r)    == {m \in Message : m.by = r /\ m.role = "assistant"}

Place == {"idle", "load", "create", "insert", "touch", "think", "commit", "write", "unlink"}
         \cup Answers

TypeOK ==
    /\ socket \in Wirings
    /\ projects \subseteq Project
    /\ exists \in [Conv -> {"free", "reserved", "live", "gone"}]
    /\ row \in [Conv -> Row]
    /\ msgs \in [Conv -> SUBSET Message]
    /\ clock \in Nat
    /\ pc \in [Req -> Place]
    /\ job \in [Req -> Job \cup {None}]
    /\ base \in [Req -> Row]
    /\ own \in [Req -> SUBSET Message]
    /\ tied \in [Req -> SUBSET Conv]
    /\ seen \in [Req -> SUBSET Message]
    /\ ahead \in [Req -> SUBSET Req]

\* What a request does is what it asked for, in the conversation it named or opened.
JobFits(r) ==
    /\ pc[r] # "idle" => r \in DOMAIN socket /\ job[r] \in Job
    /\ pc[r] = "load" =>
         /\ job[r].conv = None <=> job[r].kind \in {"start", "create", "unlink"}
         /\ job[r].kind = "unlink" => job[r].project # None
    /\ pc[r] = "create" => Opening(r) /\ job[r].conv = None
    /\ Adding(r) => job[r].conv \in Conv /\ (Chatting(r) \/ (pc[r] = "commit" /\ Opening(r)))
    /\ pc[r] = "write" =>
         \/ job[r].kind \in {"rename", "delete"} /\ job[r].conv \in Conv
         \/ job[r].kind = "unlink" /\ job[r].project \in Project /\ job[r].conv = None
    /\ pc[r] = "unlink" => job[r].kind = "unlink" /\ job[r].project \in Project
    /\ pc[r] \notin {"idle"} \cup Answers /\ ~Opening(r) /\ job[r].conv # None =>
         exists[job[r].conv] \in {"live", "gone"}

\* A conversation is reserved by the one request that opens it ...
Reserves(r) ==
    Adding(r) /\ Opening(r) =>
      LET c == job[r].conv IN
      /\ exists[c] = "reserved"
      /\ base[r].project = job[r].project /\ job[r].project \in projects \cup {None}
      /\ \A q \in Req \ {r} : Adding(q) => job[q].conv # c

\* ... and written by one request at a time, which keeps it from being deleted.
Holds(r) ==
    /\ pc[r] \in {"touch", "think", "commit"} => exists[job[r].conv] \in {"live", "reserved"}
    /\ \A q \in Req \ {r} : pc[r] \in {"think", "commit"} /\ pc[q] \in {"think", "commit"}
                            => job[q].conv # job[r].conv

\* No stamp is later than the clock.
Clocked == /\ \A r \in Req : \A m \in own[r] : m.at <= clock
           /\ \A c \in Conv : \A m \in msgs[c] : m.at <= clock

\* The messages a request has added: its question, and before the commit the answer.
Exchange(r) ==
    /\ pc[r] \in {"insert", "touch", "think"} =>
         \E q \in Question(r) : own[r] = {q}
    /\ pc[r] = "commit" /\ Chatting(r) =>
         \E q \in Question(r), a \in Answer(r) : q.at < a.at /\ own[r] = {q, a}
    /\ ~(Adding(r) /\ Chatting(r)) => own[r] = {}

\* Only a conversation that is there has messages, in pairs, and a project.
Rooted(c) ==
    /\ exists[c] # "live" => msgs[c] = {}
    /\ exists[c] = "live" => row[c].project \in projects \cup {None}
    /\ \A m \in msgs[c] : m.by # None => \E n \in msgs[c] : n.by = m.by /\ n.role # m.role

\* The history a request was given is still the conversation's.
Current(r) ==
    pc[r] \in {"think", "commit"} /\ Chatting(r) =>
      seen[r] = History(msgs[job[r].conv] \cup {m \in own[r] : m.role = "user"})

Inv ==
    /\ TypeOK
    /\ Clocked
    /\ \A r \in Req : JobFits(r) /\ Reserves(r) /\ Holds(r) /\ Exchange(r) /\ Current(r)
    /\ \A c \in Conv : Rooted(c)

\* A project is deleted by one request at a time, which keeps its conversations and
\* to which none can be added meanwhile.
Ties(r) ==
    /\ tied[r] # {} => pc[r] = "unlink"
    /\ \A c \in tied[r] : exists[c] = "live" /\ row[c].project = job[r].project
    /\ pc[r] = "unlink" =>
         /\ \A q \in Req : Adding(q) /\ exists[job[q].conv] = "reserved"
                              => job[q].project # job[r].project
         /\ \A q \in Req \ {r} : pc[q] = "unlink" => job[q].project # job[r].project

Tied == \A r \in Req : Ties(r)

-----------------------------------------------------------------------------
(* Types *)

LEMMA WindowsAreSubsets ==
    /\ \A S, n : LastN(S, n) \subseteq S
    /\ \A S : History(S) \subseteq S /\ Context(S) \subseteq S
    /\ \A S, p : Summarize(S, p) \subseteq S \cup p
BY DEF LastN, History, Context, Summarize

LEMMA SocketsFit == socket \in Wirings =>
    \A r \in DOMAIN socket : r \in Req /\ socket[r] \in Socket \cup {None}
BY NamesAssumption DEF Range

\* A message is stamped with the next reading of the clock.
LEMMA AddIs ==
    ASSUME TypeOK, NEW r \in Req, NEW role \in {"user", "assistant"}, Add(r, role)
    PROVE  /\ clock' = clock + 1
           /\ \E m \in Message : /\ m.by = r /\ m.role = role /\ m.at = clock + 1
                                 /\ own' = [own EXCEPT ![r] = @ \cup {m}]
<1>1. PICK n \in Lengths[role] :
        own' = [own EXCEPT ![r] = @ \cup
                  {[by |-> r, role |-> role, at |-> clock + 1, chars |-> n]}]
  BY DEF Add
<1> DEFINE m == [by |-> r, role |-> role, at |-> clock + 1, chars |-> n]
<1>2. n \in Nat /\ clock + 1 \in Nat
  BY MemoryAssumption DEF TypeOK
<1>3. m \in Message /\ m.by = r /\ m.role = role /\ m.at = clock + 1
  BY <1>2 DEF Message
<1> QED
  BY <1>1, <1>3 DEF Add

LEMMA JobFields == \A j \in Job :
    /\ j.kind \in Kind /\ j.conv \in Conv \cup {None} /\ j.project \in Project \cup {None}
    /\ \A c \in Conv \cup {None} :
                       [j EXCEPT !.conv = c] \in Job /\ [j EXCEPT !.conv = c].conv = c
                       /\ [j EXCEPT !.conv = c].kind = j.kind
                       /\ [j EXCEPT !.conv = c].project = j.project
BY DEF Job

LEMMA RowFields == \A w \in Row :
    /\ w.project \in Project \cup {None} /\ w.provider \in Provider \cup {None}
    /\ w.summary \subseteq Message /\ w.title \in Req \cup {None}
BY DEF Row

LEMMA RowEdits == \A w \in Row :
    /\ \A r \in Req : /\ [w EXCEPT !.title = r] \in Row
                      /\ [w EXCEPT !.title = r].title = r
                      /\ [w EXCEPT !.title = r].project = w.project
                      /\ [w EXCEPT !.title = r].summary = w.summary
    /\ [w EXCEPT !.project = None] \in Row
    /\ [w EXCEPT !.project = None].project = None
    /\ [w EXCEPT !.project = None].title = w.title
    /\ [w EXCEPT !.project = None].summary = w.summary
BY DEF Row

\* An UPDATE names some columns and leaves the others.
LEMMA WrittenFields ==
    ASSUME NEW r \in Req, NEW c \in Conv, NEW v, NEW s, row[c] \in Row, base[r] \in Row
    PROVE  /\ v \in Provider \cup {None} /\ s \subseteq Message => Written(r, c, v, s) \in Row
           /\ Written(r, c, v, s).title = (IF exists[c] = "live" THEN row[c] ELSE base[r]).title
           /\ Written(r, c, v, s).project =
                (IF exists[c] = "live" THEN row[c] ELSE base[r]).project
           /\ Written(r, c, v, s).summary =
                IF exists[c] = "live" /\ s = base[r].summary THEN row[c].summary ELSE s
<1>1. CASE exists[c] = "live"
  <2> DEFINE p == IF v = base[r].provider THEN row[c].provider ELSE v
             t == IF s = base[r].summary THEN row[c].summary ELSE s
  <2>1. Written(r, c, v, s) = [row[c] EXCEPT !.provider = p, !.summary = t]
    BY <1>1 DEF Written, Row
  <2>2. v \in Provider \cup {None} => p \in Provider \cup {None}
    BY RowFields
  <2>3. s \subseteq Message => t \subseteq Message
    BY RowFields
  <2>4. t = IF exists[c] = "live" /\ s = base[r].summary THEN row[c].summary ELSE s
    BY <1>1
  <2> HIDE DEF p, t
  <2> QED
    BY ZenonT(40), <1>1, <2>1, <2>2, <2>3, <2>4 DEF Row
<1>2. CASE exists[c] # "live"
  <2>1. Written(r, c, v, s) = [base[r] EXCEPT !.provider = v, !.summary = s]
    BY <1>2 DEF Written
  <2> QED
    BY <1>2, <2>1 DEF Row
<1> QED
  BY <1>1, <1>2

LEMMA TypeStep == Inv /\ [Next]_vars => TypeOK'
<1> SUFFICES ASSUME Inv, [Next]_vars PROVE TypeOK'
  OBVIOUS
<1> USE DEF TypeOK, tables, locals, Goto, Place, Answers
<1>t. TypeOK
  BY DEF Inv
<1>a. ASSUME NEW r \in Req, NEW role \in {"user", "assistant"}, Add(r, role)
      PROVE  clock' \in Nat /\ own' \in [Req -> SUBSET Message]
  BY <1>t, <1>a, AddIs
<1>d. ASSUME NEW r \in Req, NEW l \in Answers, Drop(r, l) PROVE TypeOK'
  BY <1>t, <1>d DEF Drop
<1>1. ASSUME NEW r \in Req, Receive(r) PROVE TypeOK'
  <2>1. \A k \in Kinds[socket[r]] : k \in Kind
    BY <1>t, <1>1, SocketsFit, NamesAssumption DEF Receive
  <2>2. job' \in [Req -> Job \cup {None}]
    BY <1>t, <1>1, <2>1 DEF Receive, Job
  <2> QED
    BY <1>t, <1>1, <2>2 DEF Receive
<1>2. ASSUME NEW r \in Req, ChatLoad(r) PROVE TypeOK'
  <2>1. job[r] \in Job /\ (job[r].conv # None => row[job[r].conv] \in Row)
    BY <1>t, <1>2, JobFields DEF ChatLoad, Inv, JobFits
  <2>2. clock' \in Nat /\ own' \in [Req -> SUBSET Message]
    BY <1>t, <1>2, <1>a DEF ChatLoad
  <2>3. base' \in [Req -> Row] /\ pc' \in [Req -> Place]
    BY <1>t, <1>2, <2>1 DEF ChatLoad
  <2> QED
    BY <1>t, <1>2, <2>2, <2>3 DEF ChatLoad
<1>3. ASSUME NEW r \in Req, Create(r) PROVE TypeOK'
  <2>1. job[r] \in Job
    BY Zenon, <1>3 DEF Create, Inv, JobFits
  <2>2. CASE Drop(r, "failed")
    BY <2>2, <1>d
  <2>3. CASE ~Drop(r, "failed")
    <3>1. PICK c \in Conv, v \in Provider \cup {None} :
            /\ exists' = [exists EXCEPT ![c] = "reserved"]
            /\ job' = [job EXCEPT ![r].conv = c]
            /\ base' = [base EXCEPT ![r] =
                          [Blank EXCEPT !.project = job[r].project, !.provider = v]]
      BY Zenon, <1>3, <2>3 DEF Create
    <3>2. [Blank EXCEPT !.project = job[r].project, !.provider = v] \in Row
      BY <2>1, JobFields DEF Blank, Row
    <3>3. job' \in [Req -> Job \cup {None}]
      BY <1>t, <2>1, <3>1, JobFields
    <3>4. clock' \in Nat /\ own' \in [Req -> SUBSET Message]
      BY Zenon, <1>t, <1>3, <2>3, <1>a DEF Create
    <3>5. exists' \in [Conv -> {"free", "reserved", "live", "gone"}]
      BY <1>t, <3>1
    <3>6. base' \in [Req -> Row]
      BY <1>t, <3>1, <3>2
    <3>7. pc' \in [Req -> Place] /\ UNCHANGED <<socket, projects, row, msgs, tied, seen, ahead>>
      BY ZenonT(90), <1>t, <1>3, <2>3 DEF Create
    <3> QED
      BY <1>t, <3>3, <3>4, <3>5, <3>6, <3>7
  <2> QED
    BY <2>2, <2>3
<1>4. ASSUME NEW r \in Req, Insert(r) PROVE TypeOK'
  BY <1>t, <1>4, <1>d DEF Insert
<1>5. ASSUME NEW r \in Req, Touch(r) PROVE TypeOK'
  <2>1. job[r].conv \in Conv
    BY <1>5 DEF Touch, Inv, JobFits, Adding
  <2>2. History(msgs[job[r].conv] \cup own[r]) \subseteq Message
    BY <1>t, <2>1, WindowsAreSubsets
  <2> QED
    BY <1>t, <1>5, <2>2 DEF Touch, ReadHistory
<1>6. ASSUME NEW r \in Req, Reply(r) PROVE TypeOK'
  BY <1>t, <1>6, <1>a DEF Reply
<1>7. ASSUME NEW r \in Req, Commit(r) PROVE TypeOK'
  <2> DEFINE c == job[r].conv
             s == Summarize(seen[r] \cup {m \in own[r] : m.role = "assistant"},
                            base[r].summary)
  <2>1. job[r] \in Job /\ c \in Conv
    BY <1>7 DEF Commit, Inv, JobFits, Adding
  <2>2. s \subseteq Message
    BY <1>t, RowFields, WindowsAreSubsets
  <2> HIDE DEF c, s
  <2>3. ASSUME NEW v \in Provider \cup {None} PROVE Written(r, c, v, s) \in Row
    BY <1>t, <2>1, <2>2, WrittenFields
  <2>4. PICK v \in Provider \cup {None} : row' = [row EXCEPT ![c] = Written(r, c, v, s)]
    BY <1>t, <1>7, RowFields DEF Commit, c, s
  <2>5. row' \in [Conv -> Row]
    BY <1>t, <2>3, <2>4
  <2>6. ahead' \in [Req -> SUBSET Req]
    BY <1>t, <1>7 DEF Commit
  <2> QED
    BY <1>t, <1>7, <2>1, <2>5, <2>6 DEF Commit, c
<1>8. ASSUME NEW r \in Req, RowLoad(r) PROVE TypeOK'
  BY <1>t, <1>8 DEF RowLoad
<1>9. ASSUME NEW r \in Req, Rename(r) PROVE TypeOK'
  <2>1. ASSUME NEW c \in Conv PROVE [row[c] EXCEPT !.title = r] \in Row
    BY <1>t, RowEdits
  <2>2. CASE Drop(r, "failed")
    BY <2>2, <1>d
  <2>3. CASE ~Drop(r, "failed")
    <3>1. row' = [row EXCEPT ![job[r].conv].title = r]
      BY <1>9, <2>3 DEF Rename
    <3>2. row' \in [Conv -> Row]
      BY <1>t, <2>1, <3>1
    <3> QED
      BY <1>t, <1>9, <2>3, <3>2 DEF Rename
  <2> QED
    BY <2>2, <2>3
<1>10. ASSUME NEW r \in Req, Delete(r) PROVE TypeOK'
  BY <1>t, <1>10 DEF Delete
<1>11. ASSUME NEW r \in Req, Unlink(r) PROVE TypeOK'
  BY <1>t, <1>11 DEF Unlink
<1>14. ASSUME NEW r \in Req, Reach(r) PROVE TypeOK'
  <2>1. job[r] \in Job
    BY <1>14 DEF Reach, Inv, JobFits
  <2>2. PICK c \in Conv : job' = [job EXCEPT ![r].conv = c]
    BY <1>14 DEF Reach, Linked
  <2>3. job' \in [Req -> Job \cup {None}]
    BY <1>t, <2>1, <2>2, JobFields
  <2> QED
    BY <1>t, <1>14, <2>3 DEF Reach
<1>15. ASSUME NEW r \in Req, Tie(r) PROVE TypeOK'
  <2>1. job[r] \in Job
    BY <1>15 DEF Tie, Inv, JobFits
  <2>2. job' \in [Req -> Job \cup {None}]
    BY <1>t, <1>15, <2>1, JobFields DEF Tie
  <2>3. tied' \in [Req -> SUBSET Conv]
    BY <1>t, <1>15 DEF Tie, Linked
  <2> QED
    BY <1>t, <1>15, <2>2, <2>3 DEF Tie
<1>16. ASSUME NEW r \in Req, Unlinked(r) PROVE TypeOK'
  <2>1. ASSUME NEW c \in Conv PROVE [row[c] EXCEPT !.project = None] \in Row
    BY <1>t, RowEdits
  <2>2. row' \in [Conv -> Row]
    BY <1>t, <1>16, <2>1 DEF Unlinked
  <2> QED
    BY <1>t, <1>16, <2>2 DEF Unlinked
<1>12. ASSUME NEW r \in Req, Abort(r) PROVE TypeOK'
  BY <1>12, <1>d DEF Abort
<1>13. CASE UNCHANGED vars
  BY <1>t, <1>13 DEF vars
<1> QED
  BY <1>1, <1>2, <1>3, <1>4, <1>5, <1>6, <1>7, <1>8, <1>9, <1>10, <1>11, <1>12,
     <1>13, <1>14, <1>15, <1>16 DEF Next, Step, AllFinished

-----------------------------------------------------------------------------
(* What every step keeps *)

\* Whoever is on the way to a reserved conversation opened it.
LEMMA Reserver ==
    ASSUME Inv, NEW r \in Req, pc[r] \notin {"idle", "load"} \cup Answers,
           job[r].conv \in Conv, exists[job[r].conv] = "reserved"
    PROVE  Adding(r) /\ Opening(r)
BY NamesAssumption DEF Inv, JobFits, Adding, TypeOK, Place, Opening

LEMMA DropKeeps ==
    ASSUME Inv, TypeOK', NEW r \in Req, NEW l \in Answers,
           pc[r] \notin {"idle", "load"} \cup Answers, Drop(r, l)
    PROVE  Inv'
<1> DEFINE d == job[r].conv
<1> USE DEF Goto, Answers, TypeOK, Inv
<1>0. /\ pc' = [pc EXCEPT ![r] = l] /\ own' = [own EXCEPT ![r] = {}]
      /\ UNCHANGED <<socket, projects, row, msgs, clock, job, base, seen>>
      /\ \A c \in Conv : IF c = d /\ exists[c] = "reserved"
                          THEN exists'[c] = "gone" ELSE exists'[c] = exists[c]
  BY DEF Drop
<1>1. \A q \in Req \ {r} : Adding(q) => (exists[d] = "reserved" /\ d \in Conv => job[q].conv # d)
  BY Reserver DEF Reserves
<1>2. ASSUME NEW q \in Req PROVE JobFits(q)'
  <2>1. CASE q = r
    BY <1>0, <2>1 DEF JobFits, Adding
  <2>2. CASE q # r
    BY <1>0, <2>2, JobFields DEF JobFits, Adding, Opening, Chatting
  <2> QED
    BY <2>1, <2>2
<1>3. ASSUME NEW q \in Req PROVE Reserves(q)'
  BY <1>0, <1>1 DEF Reserves, Adding, Opening, JobFits
<1>4. ASSUME NEW q \in Req PROVE Holds(q)'
  BY <1>0, <1>1 DEF Holds, Adding, JobFits
<1>5. ASSUME NEW q \in Req PROVE Exchange(q)'
  BY <1>0 DEF Exchange, Adding, Chatting
<1>6. ASSUME NEW q \in Req PROVE Current(q)'
  BY <1>0 DEF Current, Chatting, History, LastN
<1>7. ASSUME NEW c \in Conv PROVE Rooted(c)'
  BY <1>0 DEF Rooted
<1>8. Clocked'
  BY <1>0 DEF Clocked
<1> QED
  BY <1>2, <1>3, <1>4, <1>5, <1>6, <1>7, <1>8

LEMMA ExchangeFrame ==
    ASSUME NEW q \in Req, Exchange(q), own'[q] = own[q], job'[q].kind = job[q].kind,
           \/ pc'[q] = pc[q]
           \/ {pc[q], pc'[q]} \subseteq {"insert", "touch", "think"}
           \/ own[q] = {} /\ pc'[q] \notin {"insert", "touch", "think", "commit"}
    PROVE  Exchange(q)'
<1>1. CASE pc'[q] = pc[q]
  BY <1>1 DEF Exchange, Adding, Chatting
<1>2. CASE {pc[q], pc'[q]} \subseteq {"insert", "touch", "think"}
  BY <1>2 DEF Exchange, Adding, Chatting
<1>3. CASE own[q] = {} /\ pc'[q] \notin {"insert", "touch", "think", "commit"}
  BY <1>3 DEF Exchange, Adding, Chatting
<1> QED
  BY <1>1, <1>2, <1>3

LEMMA CurrentFrame ==
    ASSUME NEW q \in Req, Current(q), own'[q] = own[q], job'[q] = job[q],
           seen'[q] = seen[q], pc'[q] \in {"think", "commit"} => pc'[q] = pc[q],
           pc'[q] \in {"think", "commit"} => msgs'[job[q].conv] = msgs[job[q].conv]
    PROVE  Current(q)'
BY DEF Current, Chatting


LEMMA ReceiveKeeps == ASSUME Inv, TypeOK', NEW r \in Req, Receive(r) PROVE Inv'
<1> USE DEF Goto, Answers, TypeOK, Inv
<1>0. /\ pc[r] = "idle" /\ r \in DOMAIN socket /\ pc' = [pc EXCEPT ![r] = "load"]
      /\ UNCHANGED <<socket, projects, exists, row, msgs, clock, base, own, seen>>
      /\ \E k \in Kind, p \in Project \cup {None}, c \in Conv \cup {None} :
           /\ c = None <=> k \in {"start", "create", "unlink"}
           /\ c # None => exists[c] \in {"live", "gone"}
           /\ k = "unlink" => p # None
           /\ job' = [job EXCEPT ![r] = [kind |-> k, conv |-> c, project |-> p]]
  <2>1. Kinds[socket[r]] \subseteq Kind
    BY SocketsFit, NamesAssumption DEF Receive
  <2> QED
    BY <2>1 DEF Receive, tables, locals
<1>2. ASSUME NEW q \in Req PROVE JobFits(q)'
  <2>1. CASE q = r
    BY <1>0, <2>1, NamesAssumption DEF JobFits, Adding, Opening, Job
  <2>2. CASE q # r
    BY <1>0, <2>2 DEF JobFits, Adding, Opening, Chatting
  <2> QED
    BY <2>1, <2>2
<1>3. ASSUME NEW q \in Req PROVE Reserves(q)'
  BY <1>0 DEF Reserves, Adding, Opening, JobFits
<1>4. ASSUME NEW q \in Req PROVE Holds(q)'
  BY <1>0 DEF Holds, Adding, JobFits
<1>5. ASSUME NEW q \in Req PROVE Exchange(q)'
  BY SMTT(30), <1>0, ExchangeFrame DEF Exchange, Adding
<1>6. ASSUME NEW q \in Req PROVE Current(q)'
  BY <1>0 DEF Current, Chatting
<1>7. ASSUME NEW c \in Conv PROVE Rooted(c)'
  BY <1>0 DEF Rooted
<1>8. Clocked'
  BY <1>0 DEF Clocked
<1> QED
  BY <1>2, <1>3, <1>4, <1>5, <1>6, <1>7, <1>8

LEMMA InsertKeeps == ASSUME Inv, TypeOK', NEW r \in Req, Insert(r), ~Drop(r, "failed") PROVE Inv'
<1> USE DEF Goto, Answers, TypeOK, Inv
<1>0. /\ pc[r] = "insert" /\ pc' = [pc EXCEPT ![r] = "touch"]
      /\ exists[job[r].conv] \in {"live", "reserved"}
      /\ UNCHANGED <<socket, projects, exists, row, msgs, clock, job, base, own, seen>>
  BY DEF Insert, tables, locals
<1>2. ASSUME NEW q \in Req PROVE JobFits(q)'
  <2>1. CASE q = r
    BY <1>0, <2>1, JobFields DEF JobFits, Adding, Opening, Chatting
  <2>2. CASE q # r
    BY <1>0, <2>2, JobFields DEF JobFits, Adding, Opening, Chatting
  <2> QED
    BY <2>1, <2>2
<1>3. ASSUME NEW q \in Req PROVE Reserves(q)'
  BY <1>0 DEF Reserves, Adding, Opening, JobFits
<1>4. ASSUME NEW q \in Req PROVE Holds(q)'
  BY <1>0 DEF Holds, Adding, JobFits
<1>5. ASSUME NEW q \in Req PROVE Exchange(q)'
  BY <1>0, ExchangeFrame DEF Exchange, Adding
<1>6. ASSUME NEW q \in Req PROVE Current(q)'
  BY <1>0 DEF Current, Chatting
<1>7. ASSUME NEW c \in Conv PROVE Rooted(c)'
  BY <1>0 DEF Rooted
<1>8. Clocked'
  BY <1>0 DEF Clocked
<1> QED
  BY <1>2, <1>3, <1>4, <1>5, <1>6, <1>7, <1>8

LEMMA TouchKeeps == ASSUME Inv, TypeOK', NEW r \in Req, Touch(r) PROVE Inv'
<1> USE DEF Goto, Answers, TypeOK, Inv
<1>0. /\ pc[r] = "touch" /\ pc' = [pc EXCEPT ![r] = "think"]
      /\ seen' = [seen EXCEPT ![r] = History(msgs[job[r].conv] \cup own[r])]
      /\ \A q \in Req : pc[q] \in {"think", "commit"} => job[q].conv # job[r].conv
      /\ UNCHANGED <<socket, projects, exists, row, msgs, clock, job, base, own>>
  BY DEF Touch, ReadHistory, Writing, tables
<1>2. ASSUME NEW q \in Req PROVE JobFits(q)'
  <2>1. CASE q = r
    BY <1>0, <2>1, JobFields DEF JobFits, Adding, Opening, Chatting
  <2>2. CASE q # r
    BY <1>0, <2>2, JobFields DEF JobFits, Adding, Opening, Chatting
  <2> QED
    BY <2>1, <2>2
<1>3. ASSUME NEW q \in Req PROVE Reserves(q)'
  BY <1>0 DEF Reserves, Adding, Opening, JobFits
<1>4. ASSUME NEW q \in Req PROVE Holds(q)'
  BY <1>0 DEF Holds, Adding, JobFits
<1>5. ASSUME NEW q \in Req PROVE Exchange(q)'
  BY <1>0, ExchangeFrame DEF Exchange, Adding
<1>6. ASSUME NEW q \in Req PROVE Current(q)'
  <2>1. CASE q = r
    <3>1. {m \in own[r] : m.role = "user"} = own[r]
      BY <1>0 DEF Exchange, Question
    <3> QED
      BY <1>0, <2>1, <3>1 DEF Current, JobFits, Adding
  <2>2. CASE q # r
    BY <1>0, <2>2, CurrentFrame
  <2> QED
    BY <2>1, <2>2
<1>7. ASSUME NEW c \in Conv PROVE Rooted(c)'
  BY <1>0 DEF Rooted
<1>8. Clocked'
  BY <1>0 DEF Clocked
<1> QED
  BY <1>2, <1>3, <1>4, <1>5, <1>6, <1>7, <1>8

LEMMA ReplyKeeps == ASSUME Inv, TypeOK', NEW r \in Req, Reply(r) PROVE Inv'
<1> USE DEF Goto, Answers, TypeOK, Inv
<1>0. /\ pc[r] = "think" /\ pc' = [pc EXCEPT ![r] = "commit"]
      /\ clock' = clock + 1
      /\ UNCHANGED <<socket, projects, exists, row, msgs, job, base, seen>>
  BY DEF Reply, Add, tables
<1>1. PICK a \in Answer(r) :
        a.at = clock + 1 /\ own' = [own EXCEPT ![r] = own[r] \cup {a}]
  BY AddIs DEF Reply, Answer
<1>2. ASSUME NEW q \in Req PROVE JobFits(q)'
  <2>1. CASE q = r
    BY <1>0, <2>1, JobFields DEF JobFits, Adding, Opening, Chatting
  <2>2. CASE q # r
    BY <1>0, <2>2, JobFields DEF JobFits, Adding, Opening, Chatting
  <2> QED
    BY <2>1, <2>2
<1>3. ASSUME NEW q \in Req PROVE Reserves(q)'
  BY <1>0 DEF Reserves, Adding, Opening, JobFits
<1>4. ASSUME NEW q \in Req PROVE Holds(q)'
  BY <1>0 DEF Holds, Adding, JobFits
<1>5. ASSUME NEW q \in Req PROVE Exchange(q)'
  <2>1. CASE q = r
    <3>1. PICK x \in Question(r) : own[r] = {x}
      BY <1>0 DEF Exchange
    <3>2. x.at < a.at
      <4>1. x.at \in Nat /\ x.at <= clock
        BY <3>1 DEF Clocked, Question, Message
      <4> QED
        BY <1>1, <4>1
    <3>3. own'[r] = {x, a}
      BY <1>1, <3>1
    <3>4. Chatting(r) /\ Chatting(r)'
      BY <1>0 DEF JobFits, Adding, Chatting
    <3> QED
      BY <1>0, <2>1, <3>2, <3>3, <3>4 DEF Exchange, Adding
  <2>2. CASE q # r
    BY <1>0, <1>1, <2>2, ExchangeFrame
  <2> QED
    BY <2>1, <2>2
<1>6. ASSUME NEW q \in Req PROVE Current(q)'
  <2>1. CASE q = r
    <3>1. {m \in own'[r] : m.role = "user"} = {m \in own[r] : m.role = "user"}
      BY <1>1 DEF Answer
    <3> QED
      BY <1>0, <1>1, <2>1, <3>1 DEF Current, Chatting
  <2>2. CASE q # r
    BY <1>0, <1>1, <2>2, CurrentFrame
  <2> QED
    BY <2>1, <2>2
<1>7. ASSUME NEW c \in Conv PROVE Rooted(c)'
  BY <1>0 DEF Rooted
<1>8. Clocked'
  <2>1. clock + 1 \in Nat /\ clock \in Nat
    OBVIOUS
  <2>2. \A q \in Req : \A m \in own[q] : m.at \in Nat /\ m.at <= clock
    BY DEF Clocked, Message
  <2>3. \A c \in Conv : \A m \in msgs[c] : m.at \in Nat /\ m.at <= clock
    BY DEF Clocked, Message
  <2>4. clock <= clock' /\ clock' \in Nat
    BY <1>0, <2>1
  <2>5. \A q \in Req : \A m \in own'[q] : m.at \in Nat /\ m.at <= clock'
    BY <1>0, <1>1, <2>1, <2>2, <2>4
  <2> QED
    BY <1>0, <2>3, <2>4, <2>5 DEF Clocked
<1> QED
  BY <1>2, <1>3, <1>4, <1>5, <1>6, <1>7, <1>8

LEMMA CommitKeeps == ASSUME Inv, TypeOK', NEW r \in Req, Commit(r) PROVE Inv'
<1> USE DEF Goto, Answers, TypeOK, Inv
<1> DEFINE d == job[r].conv
<1>0. /\ pc[r] = "commit" /\ pc' = [pc EXCEPT ![r] = "done"]
      /\ exists' = [exists EXCEPT ![d] = "live"]
      /\ msgs' = [msgs EXCEPT ![d] = @ \cup own[r]]
      /\ own' = [own EXCEPT ![r] = {}]
      /\ UNCHANGED <<socket, projects, clock, job, base, seen>>
      /\ \A c \in Conv \ {d} : row'[c] = row[c]
      /\ row'[d].project = (IF exists[d] = "live" THEN row[d] ELSE base[r]).project
  BY WrittenFields DEF Commit, JobFits, Adding
<1>2. ASSUME NEW q \in Req PROVE JobFits(q)'
  <2>1. CASE q = r
    BY <1>0, <2>1, JobFields DEF JobFits, Adding, Opening, Chatting
  <2>2. CASE q # r
    BY <1>0, <2>2, JobFields DEF JobFits, Adding, Opening, Chatting
  <2> QED
    BY <2>1, <2>2
<1>3. ASSUME NEW q \in Req PROVE Reserves(q)'
  BY <1>0 DEF Reserves, Adding, Opening, JobFits
<1>4. ASSUME NEW q \in Req PROVE Holds(q)'
  BY <1>0 DEF Holds, Adding, JobFits
<1>5. ASSUME NEW q \in Req PROVE Exchange(q)'
  <2>1. CASE q = r
    BY <1>0, <2>1 DEF Exchange, Adding
  <2>2. CASE q # r
    BY <1>0, <2>2, ExchangeFrame
  <2> QED
    BY <2>1, <2>2
<1>6. ASSUME NEW q \in Req PROVE Current(q)'
  <2>1. CASE q = r
    BY <1>0, <2>1 DEF Current
  <2>2. CASE q # r /\ pc[q] \in {"think", "commit"}
    <3>1. job[q].conv # d
      BY <1>0, <2>2 DEF Holds
    <3>2. msgs'[job[q].conv] = msgs[job[q].conv]
      BY <1>0, <2>2, <3>1 DEF JobFits, Adding
    <3> QED
      BY <1>0, <2>2, <3>2, CurrentFrame
  <2>3. CASE q # r /\ pc[q] \notin {"think", "commit"}
    BY <1>0, <2>3, CurrentFrame
  <2> QED
    BY <2>1, <2>2, <2>3
<1>7. ASSUME NEW c \in Conv PROVE Rooted(c)'
  <2>1. CASE c # d
    BY <1>0, <2>1 DEF Rooted
  <2>2. CASE c = d
    <3>1. row'[d].project \in projects \cup {None}
      <4>1. CASE exists[d] = "live"
        BY <1>0, <2>2, <4>1 DEF Rooted
      <4>2. CASE exists[d] # "live"
        <5>1. exists[d] = "reserved" /\ d \in Conv
          BY <1>0, <4>2 DEF Holds, JobFits, Adding
        <5>2. Adding(r) /\ Opening(r)
          BY <1>0, <5>1, Reserver
        <5> QED
          BY <1>0, <4>2, <5>2 DEF Reserves
      <4> QED
        BY <4>1, <4>2
    <3>2. \A m \in own[r] : \E n \in own[r] : n.by = m.by /\ n.role # m.role
      <4>1. CASE Chatting(r)
        <5>1. PICK x \in Question(r), a \in Answer(r) : own[r] = {x, a}
          BY <1>0, <4>1 DEF Exchange
        <5> QED
          BY <5>1 DEF Question, Answer
      <4>2. CASE ~Chatting(r)
        BY <4>2 DEF Exchange
      <4> QED
        BY <4>1, <4>2
    <3> QED
      BY <1>0, <2>2, <3>1, <3>2 DEF Rooted
  <2> QED
    BY <2>1, <2>2
<1>8. Clocked'
  BY <1>0 DEF Clocked
<1> QED
  BY <1>2, <1>3, <1>4, <1>5, <1>6, <1>7, <1>8

LEMMA RowLoadKeeps == ASSUME Inv, TypeOK', NEW r \in Req, RowLoad(r) PROVE Inv'
<1> USE DEF Goto, Answers, TypeOK, Inv
<1>0. /\ pc[r] = "load" /\ job[r].kind \in {"rename", "delete", "unlink"}
      /\ \E l \in {"write", "denied"} : pc' = [pc EXCEPT ![r] = l]
      /\ UNCHANGED <<socket, projects, exists, row, msgs, clock, job, base, own, seen>>
  BY DEF RowLoad, tables, locals
<1>2. ASSUME NEW q \in Req PROVE JobFits(q)'
  <2>1. CASE q = r
    BY <1>0, <2>1, JobFields DEF JobFits, Adding, Opening, Chatting
  <2>2. CASE q # r
    BY <1>0, <2>2, JobFields DEF JobFits, Adding, Opening, Chatting
  <2> QED
    BY <2>1, <2>2
<1>3. ASSUME NEW q \in Req PROVE Reserves(q)'
  BY <1>0 DEF Reserves, Adding, Opening, JobFits
<1>4. ASSUME NEW q \in Req PROVE Holds(q)'
  BY <1>0 DEF Holds, Adding, JobFits
<1>5. ASSUME NEW q \in Req PROVE Exchange(q)'
  BY <1>0, ExchangeFrame DEF Exchange, Adding
<1>6. ASSUME NEW q \in Req PROVE Current(q)'
  BY <1>0 DEF Current, Chatting
<1>7. ASSUME NEW c \in Conv PROVE Rooted(c)'
  BY <1>0 DEF Rooted
<1>8. Clocked'
  BY <1>0 DEF Clocked
<1> QED
  BY <1>2, <1>3, <1>4, <1>5, <1>6, <1>7, <1>8

LEMMA RenameKeeps == ASSUME Inv, TypeOK', NEW r \in Req, Rename(r), ~Drop(r, "failed") PROVE Inv'
<1> USE DEF Goto, Answers, TypeOK, Inv
<1>0. /\ pc[r] = "write" /\ pc' = [pc EXCEPT ![r] = "done"]
      /\ \A c \in Conv : row'[c].project = row[c].project
      /\ UNCHANGED <<socket, projects, exists, msgs, clock, job, base, own, seen>>
  <2>1. \A c \in Conv : row[c] \in Row /\ row'[c] \in {row[c], [row[c] EXCEPT !.title = r]}
    BY DEF Rename
  <2>2. ASSUME NEW c \in Conv PROVE row'[c].project = row[c].project
    <3>1. row[c] \in Row /\ row'[c] \in {row[c], [row[c] EXCEPT !.title = r]}
      BY <2>1
    <3>2. [row[c] EXCEPT !.title = r].project = row[c].project
      BY Zenon, <3>1, RowEdits
    <3> QED
      BY <3>1, <3>2
  <2> QED
    BY <2>2 DEF Rename, locals
<1>2. ASSUME NEW q \in Req PROVE JobFits(q)'
  <2>1. CASE q = r
    BY <1>0, <2>1, JobFields DEF JobFits, Adding, Opening, Chatting
  <2>2. CASE q # r
    BY <1>0, <2>2, JobFields DEF JobFits, Adding, Opening, Chatting
  <2> QED
    BY <2>1, <2>2
<1>3. ASSUME NEW q \in Req PROVE Reserves(q)'
  BY <1>0 DEF Reserves, Adding, Opening, JobFits
<1>4. ASSUME NEW q \in Req PROVE Holds(q)'
  BY <1>0 DEF Holds, Adding, JobFits
<1>5. ASSUME NEW q \in Req PROVE Exchange(q)'
  BY <1>0, ExchangeFrame DEF Exchange, Adding
<1>6. ASSUME NEW q \in Req PROVE Current(q)'
  BY <1>0 DEF Current, Chatting
<1>7. ASSUME NEW c \in Conv PROVE Rooted(c)'
  BY <1>0 DEF Rooted
<1>8. Clocked'
  BY <1>0 DEF Clocked
<1> QED
  BY <1>2, <1>3, <1>4, <1>5, <1>6, <1>7, <1>8

LEMMA DeleteKeeps == ASSUME Inv, TypeOK', NEW r \in Req, Delete(r) PROVE Inv'
<1> USE DEF Goto, Answers, TypeOK, Inv
<1> DEFINE d == job[r].conv
<1>0. /\ pc[r] = "write" /\ job[r].kind = "delete" /\ pc' = [pc EXCEPT ![r] = "done"]
      /\ exists' = [exists EXCEPT ![d] = "gone"]
      /\ msgs' = [msgs EXCEPT ![d] = {}]
      /\ \A q \in Req : pc[q] \in {"touch", "think", "commit"} => job[q].conv # d
      /\ UNCHANGED <<socket, projects, row, clock, job, base, own, seen>>
  <2>1. Sharing(d) = {}
    BY DEF Delete
  <2> QED
    BY <2>1 DEF Delete, Sharing, Writing, locals
<1>2. ASSUME NEW q \in Req PROVE JobFits(q)'
  <2>1. CASE q = r
    BY <1>0, <2>1, JobFields DEF JobFits, Adding, Opening, Chatting
  <2>2. CASE q # r
    BY <1>0, <2>2, JobFields DEF JobFits, Adding, Opening, Chatting
  <2> QED
    BY <2>1, <2>2
<1>3. ASSUME NEW q \in Req PROVE Reserves(q)'
  <2>1. CASE Adding(q) /\ Opening(q)
    <3>1. exists[job[q].conv] = "reserved" /\ job[q].conv \in Conv
      BY <2>1 DEF Reserves, JobFits
    <3>2. job[q].conv # d
      BY SMTT(30), <1>0, <3>1, NamesAssumption DEF JobFits, Opening
    <3> QED
      BY <1>0, <2>1, <3>1, <3>2 DEF Reserves, Adding, Opening
  <2>2. CASE ~(Adding(q) /\ Opening(q))
    BY <1>0, <2>2 DEF Reserves, Adding, Opening
  <2> QED
    BY <2>1, <2>2
<1>4. ASSUME NEW q \in Req PROVE Holds(q)'
  BY <1>0 DEF Holds, Adding, JobFits
<1>5. ASSUME NEW q \in Req PROVE Exchange(q)'
  BY SMTT(30), <1>0, ExchangeFrame DEF Exchange, Adding
<1>6. ASSUME NEW q \in Req PROVE Current(q)'
  BY <1>0, CurrentFrame
<1>7. ASSUME NEW c \in Conv PROVE Rooted(c)'
  BY <1>0 DEF Rooted
<1>8. Clocked'
  BY <1>0 DEF Clocked
<1> QED
  BY <1>2, <1>3, <1>4, <1>5, <1>6, <1>7, <1>8

LEMMA UnlinkKeeps ==
    ASSUME Inv, TypeOK', NEW r \in Req, Unlink(r) \/ Reach(r) \/ Tie(r)
    PROVE  Inv'
<1> USE DEF Goto, Answers, TypeOK, Inv
<1>0. /\ pc[r] \in {"write", "unlink"} /\ pc' = [pc EXCEPT ![r] = "unlink"]
      /\ job[r] \in Job /\ job[r].kind = "unlink" /\ job[r].project \in Project
      /\ UNCHANGED <<socket, projects, exists, row, msgs, clock, base, own, seen>>
      /\ \A q \in Req \ {r} : job'[q] = job[q]
      /\ job'[r].kind = "unlink" /\ job'[r].project = job[r].project /\ job'[r] \in Job
      /\ job'[r].conv # None => exists[job'[r].conv] \in {"live", "gone"}
  <2>1. job[r] \in Job /\ job[r].kind = "unlink" /\ job[r].project \in Project
    BY DEF Unlink, Reach, Tie, JobFits
  <2>2. CASE Unlink(r)
    BY <2>1, <2>2 DEF Unlink, JobFits, tables, locals, Opening
  <2>3. CASE Reach(r)
    <3>1. PICK c \in Conv : exists[c] = "live" /\ job' = [job EXCEPT ![r].conv = c]
      BY <2>3 DEF Reach, Linked
    <3>2. /\ \A q \in Req \ {r} : job'[q] = job[q]
          /\ job'[r] = [job[r] EXCEPT !.conv = c]
      BY <3>1
    <3>3. pc[r] = "unlink" /\ pc' = pc
          /\ UNCHANGED <<socket, projects, exists, row, msgs, clock, base, own, seen>>
      BY <2>3 DEF Reach, tables, locals
    <3> QED
      BY <2>1, <3>1, <3>2, <3>3, JobFields
  <2>4. CASE Tie(r)
    <3>1. /\ \A q \in Req \ {r} : job'[q] = job[q]
          /\ job'[r] = [job[r] EXCEPT !.conv = None]
      BY <2>4 DEF Tie
    <3>3. /\ job'[r] \in Job /\ job'[r].kind = job[r].kind /\ job'[r].conv = None
          /\ job'[r].project = job[r].project
      <4>1. /\ [job[r] EXCEPT !.conv = None] \in Job
            /\ [job[r] EXCEPT !.conv = None].conv = None
            /\ [job[r] EXCEPT !.conv = None].kind = job[r].kind
            /\ [job[r] EXCEPT !.conv = None].project = job[r].project
        <5> HIDE DEF Goto, Answers, TypeOK, Inv
        <5> QED
          BY <2>1 DEF Job
      <4> QED
        BY <3>1, <4>1
    <3>2. pc[r] = "unlink" /\ pc' = pc
          /\ UNCHANGED <<socket, projects, exists, row, msgs, clock, base, own, seen>>
      BY <2>4 DEF Tie, tables
    <3> QED
      BY <2>1, <3>1, <3>2, <3>3
  <2> QED
    BY <2>2, <2>3, <2>4
<1>2. ASSUME NEW q \in Req PROVE JobFits(q)'
  <2>1. CASE q = r
    BY <1>0, <2>1 DEF JobFits, Adding, Opening, Chatting
  <2>2. CASE q # r
    BY <1>0, <2>2 DEF JobFits, Adding, Opening, Chatting
  <2> QED
    BY <2>1, <2>2
<1>3. ASSUME NEW q \in Req PROVE Reserves(q)'
  BY <1>0 DEF Reserves, Adding, Opening, JobFits
<1>4. ASSUME NEW q \in Req PROVE Holds(q)'
  BY <1>0 DEF Holds, Adding, JobFits
<1>5. ASSUME NEW q \in Req PROVE Exchange(q)'
  <2>1. own[r] = {}
    BY <1>0 DEF Exchange, Adding
  <2> QED
    BY <1>0, <2>1, ExchangeFrame
<1>6. ASSUME NEW q \in Req PROVE Current(q)'
  BY <1>0 DEF Current, Chatting
<1>7. ASSUME NEW c \in Conv PROVE Rooted(c)'
  BY <1>0 DEF Rooted
<1>8. Clocked'
  BY <1>0 DEF Clocked
<1> QED
  BY <1>2, <1>3, <1>4, <1>5, <1>6, <1>7, <1>8

LEMMA UnlinkedKeeps == ASSUME Inv, Tied, TypeOK', NEW r \in Req, Unlinked(r) PROVE Inv'
<1> USE DEF Goto, Answers, TypeOK, Inv
<1> DEFINE p == job[r].project
<1>0. /\ pc[r] = "unlink" /\ pc' = [pc EXCEPT ![r] = "done"]
      /\ projects' = projects \ {p}
      /\ \A q \in Req : Adding(q) /\ exists[job[q].conv] = "reserved" => job[q].project # p
      /\ \A c \in Conv : row'[c].project \in {None, row[c].project}
      /\ \A c \in Conv : exists[c] = "live" /\ row[c].project = p => row'[c].project = None
      /\ UNCHANGED <<socket, exists, msgs, clock, job, base, own, seen>>
  <2>1. \A c \in Conv : [row[c] EXCEPT !.project = None].project = None
    BY DEF Row
  <2> QED
    BY <2>1 DEF Unlinked, Linked, Tied, Ties
<1>2. ASSUME NEW q \in Req PROVE JobFits(q)'
  <2>1. CASE q = r
    BY <1>0, <2>1, JobFields DEF JobFits, Adding, Opening, Chatting
  <2>2. CASE q # r
    BY <1>0, <2>2, JobFields DEF JobFits, Adding, Opening, Chatting
  <2> QED
    BY <2>1, <2>2
<1>3. ASSUME NEW q \in Req PROVE Reserves(q)'
  <2>1. CASE Adding(q) /\ Opening(q)
    <3>1. job[q].project \in projects' \cup {None}
      BY <1>0, <2>1 DEF Reserves
    <3> QED
      BY <1>0, <2>1, <3>1 DEF Reserves, Adding, Opening
  <2>2. CASE ~(Adding(q) /\ Opening(q))
    BY <1>0, <2>2 DEF Reserves, Adding, Opening
  <2> QED
    BY <2>1, <2>2
<1>4. ASSUME NEW q \in Req PROVE Holds(q)'
  BY <1>0 DEF Holds, Adding, JobFits
<1>5. ASSUME NEW q \in Req PROVE Exchange(q)'
  BY <1>0, ExchangeFrame DEF Exchange, Adding
<1>6. ASSUME NEW q \in Req PROVE Current(q)'
  BY <1>0 DEF Current, Chatting
<1>7. ASSUME NEW c \in Conv PROVE Rooted(c)'
  BY <1>0 DEF Rooted
<1>8. Clocked'
  BY <1>0 DEF Clocked
<1> QED
  BY <1>2, <1>3, <1>4, <1>5, <1>6, <1>7, <1>8

\* A chat's id is not free.
LEMMA AddingTook ==
    ASSUME Inv, NEW q \in Req, Adding(q)
    PROVE  job[q].conv \in Conv /\ exists[job[q].conv] # "free"
<1>1. job[q].conv \in Conv /\ pc[q] \notin {"idle"} \cup Answers /\ JobFits(q)
  BY DEF Inv, JobFits, Adding, Answers
<1>2. CASE Opening(q)
  BY <1>1, <1>2 DEF Inv, Reserves
<1>3. CASE ~Opening(q)
  BY <1>1, <1>3, NamesAssumption DEF JobFits
<1> QED
  BY <1>1, <1>2, <1>3

LEMMA CreateKeeps == ASSUME Inv, TypeOK', NEW r \in Req, Create(r), ~Drop(r, "failed") PROVE Inv'
<1> USE DEF Goto, Answers, TypeOK, Inv
<1>0. /\ pc[r] = "create" /\ job[r].project \in projects \cup {None}
      /\ \E d \in Conv :
           /\ exists[d] = "free"
           /\ exists' = [exists EXCEPT ![d] = "reserved"]
           /\ job' = [job EXCEPT ![r].conv = d]
      /\ \A q \in Req \ {r} : base'[q] = base[q]
      /\ base'[r].project = job[r].project
      /\ \/ /\ job[r].kind = "start"
            /\ pc' = [pc EXCEPT ![r] = "insert"] /\ clock' = clock + 1
            /\ \E x \in Question(r) :
                 x.at = clock + 1 /\ own' = [own EXCEPT ![r] = own[r] \cup {x}]
         \/ /\ job[r].kind # "start"
            /\ pc' = [pc EXCEPT ![r] = "commit"]
            /\ UNCHANGED <<clock, own>>
      /\ UNCHANGED <<socket, projects, row, msgs, seen>>
  <2>1. PICK c \in Conv, v \in Provider \cup {None} :
          /\ exists[c] = "free"
          /\ exists' = [exists EXCEPT ![c] = "reserved"]
          /\ job' = [job EXCEPT ![r].conv = c]
          /\ base' = [base EXCEPT ![r] =
                        [Blank EXCEPT !.project = job[r].project, !.provider = v]]
    BY Zenon DEF Create
  <2>2. \A q \in Req \ {r} : base'[q] = base[q]
    BY <2>1
  <2>3. base'[r].project = job[r].project
    <3>1. base'[r] = [Blank EXCEPT !.project = job[r].project, !.provider = v]
      BY <2>1
    <3> QED
      BY <3>1 DEF Blank
  <2>4. Add(r, "user") => clock' = clock + 1 /\ \E x \in Question(r) :
          x.at = clock + 1 /\ own' = [own EXCEPT ![r] = own[r] \cup {x}]
    BY SMTT(30), AddIs DEF Question
  <2> QED
    BY Zenon, <2>1, <2>2, <2>3, <2>4 DEF Create
<1>1. /\ job[r] \in Job /\ job'[r] \in Job
      /\ job'[r].kind = job[r].kind /\ job'[r].project = job[r].project
      /\ \A q \in Req \ {r} : job'[q] = job[q]
      /\ job'[r].conv \in Conv /\ exists[job'[r].conv] = "free"
      /\ exists' = [exists EXCEPT ![job'[r].conv] = "reserved"]
      /\ \A q \in Req \ {r} : Adding(q) => job[q].conv # job'[r].conv
  <2>1. job[r] \in Job
    BY <1>0 DEF JobFits
  <2>2. /\ job'[r] \in Job
        /\ job'[r].kind = job[r].kind /\ job'[r].project = job[r].project
        /\ \A q \in Req \ {r} : job'[q] = job[q]
        /\ job'[r].conv \in Conv /\ exists[job'[r].conv] = "free"
        /\ exists' = [exists EXCEPT ![job'[r].conv] = "reserved"]
    BY <1>0, <2>1, JobFields
  <2>3. \A q \in Req \ {r} : Adding(q) => exists[job[q].conv] # "free"
    BY AddingTook
  <2> QED
    BY <2>1, <2>2, <2>3
<1>2. ASSUME NEW q \in Req PROVE JobFits(q)'
  <2>1. CASE q = r
    BY <1>0, <2>1, <1>1, JobFields DEF JobFits, Adding, Opening, Chatting
  <2>2. CASE q # r
    BY <1>0, <2>2, <1>1, JobFields DEF JobFits, Adding, Opening, Chatting
  <2> QED
    BY <2>1, <2>2
<1>3. ASSUME NEW q \in Req PROVE Reserves(q)'
  <2>1. CASE q = r
    BY <1>0, <2>1, <1>1, JobFields DEF Reserves, Adding, Opening, JobFits
  <2>2. CASE q # r
    BY <1>0, <2>2, <1>1, JobFields DEF Reserves, Adding, Opening, JobFits
  <2> QED
    BY <2>1, <2>2
<1>4. ASSUME NEW q \in Req PROVE Holds(q)'
  <2>1. CASE q = r
    BY <1>0, <2>1, <1>1 DEF Holds, Adding, JobFits
  <2>2. CASE q # r
    BY <1>0, <2>2, <1>1 DEF Holds, Adding, JobFits
  <2> QED
    BY <2>1, <2>2
<1>5. ASSUME NEW q \in Req PROVE Exchange(q)'
  <2>1. CASE q = r /\ pc'[r] = "insert"
    <3>0. own[r] = {} /\ r \in DOMAIN own
      BY <1>0 DEF Exchange, Adding
    <3>1. \E x \in Question(r) : own'[r] = {x}
      BY <1>0, <2>1, <3>0
    <3>2. Chatting(r)'
      BY <1>0, <1>1, <2>1 DEF Chatting
    <3> QED
      BY <2>1, <3>1, <3>2 DEF Exchange, Adding
  <2>3. CASE q = r /\ pc'[r] # "insert"
    <3>1. own'[r] = {} /\ (pc'[r] = "commit" => ~Chatting(r)')
      BY <1>0, <1>1, <2>3 DEF Exchange, Adding, Chatting, JobFits, Opening
    <3> QED
      BY <1>0, <2>3, <3>1 DEF Exchange, Adding
  <2>2. CASE q # r
    BY <1>0, <1>1, <2>2, ExchangeFrame
  <2> QED
    BY <2>1, <2>2, <2>3
<1>6. ASSUME NEW q \in Req PROVE Current(q)'
  <2>1. CASE q = r /\ job[r].kind = "start"
    BY <1>0, <2>1 DEF Current
  <2>2. CASE q = r /\ job[r].kind # "start"
    <3>1. job[r].kind = "create"
      BY <1>0, <2>2 DEF JobFits, Opening
    <3> QED
      BY <1>1, <2>2, <3>1 DEF Current, Chatting
  <2>3. CASE q # r
    BY <1>0, <1>1, <2>3, CurrentFrame
  <2> QED
    BY <2>1, <2>2, <2>3
<1>7. ASSUME NEW c \in Conv PROVE Rooted(c)'
  BY <1>0 DEF Rooted
<1>8. Clocked'
  <2>1. clock + 1 \in Nat /\ clock \in Nat
    OBVIOUS
  <2>2. \A q \in Req : \A m \in own[q] : m.at \in Nat /\ m.at <= clock
    BY DEF Clocked, Message
  <2>3. \A c \in Conv : \A m \in msgs[c] : m.at \in Nat /\ m.at <= clock
    BY DEF Clocked, Message
  <2>4. clock <= clock' /\ clock' \in Nat
    BY <1>0, <2>1
  <2>5. \A q \in Req : \A m \in own'[q] : m.at \in Nat /\ m.at <= clock'
    BY <1>0, <2>1, <2>2, <2>4
  <2> QED
    BY <1>0, <2>3, <2>4, <2>5 DEF Clocked
<1> QED
  BY <1>2, <1>3, <1>4, <1>5, <1>6, <1>7, <1>8

LEMMA ChatLoadKeeps == ASSUME Inv, TypeOK', NEW r \in Req, ChatLoad(r) PROVE Inv'
<1> USE DEF Goto, Answers, TypeOK, Inv
<1>0. /\ pc[r] = "load" /\ job[r].kind \in {"chat", "start", "create"}
      /\ \/ /\ \E l \in {"denied", "mismatch"} : pc' = [pc EXCEPT ![r] = l]
            /\ UNCHANGED <<clock, base, own>>
         \/ /\ job[r].conv = None
            /\ pc' = [pc EXCEPT ![r] = "create"]
            /\ UNCHANGED <<clock, base, own>>
         \/ /\ job[r].conv \in Conv /\ exists[job[r].conv] = "live"
            /\ job[r].kind = "chat"
            /\ pc' = [pc EXCEPT ![r] = "insert"] /\ clock' = clock + 1
            /\ \E x \in Question(r) :
                 x.at = clock + 1 /\ own' = [own EXCEPT ![r] = own[r] \cup {x}]
            /\ \A q \in Req \ {r} : base'[q] = base[q]
      /\ UNCHANGED <<socket, projects, exists, row, msgs, job, seen>>
  <2>1. Add(r, "user") => clock' = clock + 1 /\ \E x \in Question(r) :
          x.at = clock + 1 /\ own' = [own EXCEPT ![r] = own[r] \cup {x}]
    BY SMTT(30), AddIs DEF Question
  <2> QED
    BY SMTT(30), <2>1, JobFields DEF ChatLoad, tables, JobFits
<1>2. ASSUME NEW q \in Req PROVE JobFits(q)'
  <2>1. CASE q = r
    BY <1>0, <2>1, JobFields DEF JobFits, Adding, Opening, Chatting
  <2>2. CASE q # r
    BY <1>0, <2>2, JobFields DEF JobFits, Adding, Opening, Chatting
  <2> QED
    BY <2>1, <2>2
<1>3. ASSUME NEW q \in Req PROVE Reserves(q)'
  BY <1>0 DEF Reserves, Adding, Opening, JobFits
<1>4. ASSUME NEW q \in Req PROVE Holds(q)'
  BY <1>0 DEF Holds, Adding, JobFits
<1>5. ASSUME NEW q \in Req PROVE Exchange(q)'
  <2>1. CASE q = r /\ pc'[r] = "insert"
    <3>1. \E x \in Question(r) : own'[r] = {x}
      BY <1>0, <2>1 DEF Exchange, Adding
    <3>2. Chatting(r)'
      BY <1>0, <2>1 DEF Chatting
    <3> QED
      BY <2>1, <3>1, <3>2 DEF Exchange, Adding
  <2>3. CASE q = r /\ pc'[r] # "insert"
    <3>1. own'[r] = {} /\ (pc'[r] = "commit" => ~Chatting(r)')
      BY <1>0, <2>3 DEF Exchange, Adding, Chatting, JobFits, Opening
    <3> QED
      BY <1>0, <2>3, <3>1 DEF Exchange, Adding
  <2>2. CASE q # r
    BY <1>0, <2>2, ExchangeFrame
  <2> QED
    BY <2>1, <2>2, <2>3
<1>6. ASSUME NEW q \in Req PROVE Current(q)'
  BY <1>0 DEF Current, Chatting
<1>7. ASSUME NEW c \in Conv PROVE Rooted(c)'
  BY <1>0 DEF Rooted
<1>8. Clocked'
  <2>1. clock + 1 \in Nat /\ clock \in Nat
    OBVIOUS
  <2>2. \A q \in Req : \A m \in own[q] : m.at \in Nat /\ m.at <= clock
    BY DEF Clocked, Message
  <2>3. \A c \in Conv : \A m \in msgs[c] : m.at \in Nat /\ m.at <= clock
    BY DEF Clocked, Message
  <2>4. clock <= clock' /\ clock' \in Nat
    BY <1>0, <2>1
  <2>5. \A q \in Req : \A m \in own'[q] : m.at \in Nat /\ m.at <= clock'
    BY <1>0, <2>1, <2>2, <2>4
  <2> QED
    BY <1>0, <2>3, <2>4, <2>5 DEF Clocked
<1> QED
  BY <1>2, <1>3, <1>4, <1>5, <1>6, <1>7, <1>8

-----------------------------------------------------------------------------
(* The theorems about every instance *)

LEMMA PastFits == \A n \in Nat : \A m \in PastMessages(n) :
    m \in Message /\ m.by = None /\ m.at \in 1..n
BY DEF PastMessages, Message

LEMMA InvInit == Init => Inv
<1> SUFFICES ASSUME Init PROVE Inv
  OBVIOUS
<1>1. PICK n \in Pasts, p \in Project \cup {None} :
        /\ row = [c \in Conv |-> IF c # First THEN Blank ELSE
                    [Blank EXCEPT !.project = p, !.summary = Summarize(PastMessages(n), {})]]
        /\ msgs = [c \in Conv |-> IF c = First THEN PastMessages(n) ELSE {}]
        /\ clock = n
  BY Zenon DEF Init
<1>2. n \in Nat
  BY MemoryAssumption
<1>3. Blank \in Row /\ \A u : u \subseteq Message =>
        [Blank EXCEPT !.project = p, !.summary = u] \in Row
  BY Zenon DEF Blank, Row
<1>4. PastMessages(n) \subseteq Message /\ Summarize(PastMessages(n), {}) \subseteq Message
  BY <1>2, PastFits, WindowsAreSubsets
<1>5. row \in [Conv -> Row] /\ msgs \in [Conv -> SUBSET Message]
  BY Zenon, <1>1, <1>3, <1>4
<1>6. TypeOK
  BY Zenon, <1>1, <1>2, <1>3, <1>5, NamesAssumption DEF Init, TypeOK, Place
<1>7. Clocked
  BY <1>1, <1>2, PastFits DEF Init, Clocked
<1>8. ASSUME NEW r \in Req PROVE JobFits(r) /\ Reserves(r) /\ Holds(r) /\ Exchange(r) /\ Current(r)
  BY DEF Init, JobFits, Reserves, Holds, Exchange, Current, Adding
<1>9. ASSUME NEW c \in Conv PROVE Rooted(c)
  <2>1. row[c].project \in Project \cup {None} /\ projects = Project
    BY <1>5, RowFields DEF Init
  <2>2. \A m \in msgs[c] : m.by = None
    BY <1>1, <1>2, PastFits
  <2> QED
    BY <1>1, <2>1, <2>2 DEF Init, Rooted
<1> QED
  BY <1>6, <1>7, <1>8, <1>9 DEF Inv

LEMMA InvStep == Inv /\ Tied /\ [Next]_vars => Inv'
<1> SUFFICES ASSUME Inv, Tied, [Next]_vars PROVE Inv'
  OBVIOUS
<1>0. TypeOK /\ TypeOK'
  BY TypeStep DEF Inv
<1>d. ASSUME NEW r \in Req, Drop(r, "failed"),
             pc[r] \in {"create", "insert", "touch", "think", "commit", "write", "unlink"}
      PROVE  Inv'
  BY <1>0, <1>d, DropKeeps DEF Answers
<1>1. ASSUME NEW r \in Req, Receive(r) PROVE Inv'
  BY <1>0, <1>1, ReceiveKeeps
<1>2. ASSUME NEW r \in Req, ChatLoad(r) PROVE Inv'
  BY SMTT(30), <1>0, <1>2, ChatLoadKeeps
<1>3. ASSUME NEW r \in Req, Create(r) PROVE Inv'
  BY Zenon, <1>0, <1>3, <1>d, CreateKeeps DEF Create
<1>4. ASSUME NEW r \in Req, Insert(r) PROVE Inv'
  BY <1>0, <1>4, <1>d, InsertKeeps DEF Insert
<1>5. ASSUME NEW r \in Req, Touch(r) PROVE Inv'
  BY <1>0, <1>5, TouchKeeps
<1>6. ASSUME NEW r \in Req, Reply(r) PROVE Inv'
  BY <1>0, <1>6, ReplyKeeps
<1>7. ASSUME NEW r \in Req, Commit(r) PROVE Inv'
  BY <1>0, <1>7, CommitKeeps
<1>8. ASSUME NEW r \in Req, RowLoad(r) PROVE Inv'
  BY <1>0, <1>8, RowLoadKeeps
<1>9. ASSUME NEW r \in Req, Rename(r) PROVE Inv'
  BY <1>0, <1>9, <1>d, RenameKeeps DEF Rename
<1>10. ASSUME NEW r \in Req, Delete(r) PROVE Inv'
  BY <1>0, <1>10, DeleteKeeps
<1>11. ASSUME NEW r \in Req, Unlink(r) \/ Reach(r) \/ Tie(r) PROVE Inv'
  BY <1>0, <1>11, UnlinkKeeps
<1>14. ASSUME NEW r \in Req, Unlinked(r) PROVE Inv'
  BY <1>0, <1>14, UnlinkedKeeps
<1>12. ASSUME NEW r \in Req, Abort(r) PROVE Inv'
  BY <1>12, <1>d DEF Abort
<1>13. CASE UNCHANGED vars
  <2> USE <1>13 DEF vars, Inv
  <2>1. ASSUME NEW r \in Req PROVE JobFits(r)' /\ Reserves(r)' /\ Holds(r)'
    BY DEF JobFits, Reserves, Holds, Adding, Opening, Chatting
  <2>2. ASSUME NEW r \in Req PROVE Exchange(r)' /\ Current(r)'
    BY ExchangeFrame, CurrentFrame
  <2>3. ASSUME NEW c \in Conv PROVE Rooted(c)'
    BY DEF Rooted
  <2>4. Clocked'
    BY DEF Clocked
  <2> QED
    BY <1>0, <2>1, <2>2, <2>3, <2>4
<1> QED
  BY <1>1, <1>2, <1>3, <1>4, <1>5, <1>6, <1>7, <1>8, <1>9, <1>10, <1>11, <1>12,
     <1>13, <1>14 DEF Next, Step, AllFinished

\* What a step may do to a project without disturbing its deletion.
LEMMA TiesFrame ==
    ASSUME Tied, NEW r \in Req,
           \A q \in Req \ {r} : pc'[q] = pc[q] /\ job'[q] = job[q] /\ tied'[q] = tied[q],
           tied'[r] = {}, pc'[r] # "unlink",
           \A c \in Conv : Tying(c) # {} =>
             /\ exists[c] = "live" => exists'[c] = "live"
             /\ exists[c] = "live" => row'[c].project = row[c].project,
           \A q \in Req : Adding(q)' /\ exists'[job'[q].conv] = "reserved" =>
             \/ Adding(q) /\ exists[job[q].conv] = "reserved" /\ job'[q] = job[q]
             \/ Unlinking(job'[q].project) = {},
           TypeOK
    PROVE  Tied'
<1> SUFFICES ASSUME NEW q \in Req PROVE Ties(q)'
  BY DEF Tied
<1>1. CASE q = r
  BY <1>1 DEF Ties
<1>2. CASE q # r
  <2>1. Ties(q) /\ pc'[q] = pc[q] /\ job'[q] = job[q] /\ tied'[q] = tied[q]
    BY <1>2 DEF Tied
  <2>2. \A c \in tied[q] : c \in Conv /\ Tying(c) # {}
    BY DEF TypeOK, Tying
  <2>3. pc[q] = "unlink" => \A o \in Req : Adding(o)' /\ exists'[job'[o].conv] = "reserved"
                                             => job'[o].project # job[q].project
    BY <2>1 DEF Ties, Unlinking
  <2>4. pc[q] = "unlink" => \A o \in Req \ {q} : pc'[o] = "unlink"
                                             => job'[o].project # job[q].project
    BY <2>1 DEF Ties
  <2> QED
    BY <2>1, <2>2, <2>3, <2>4 DEF Ties
<1> QED
  BY <1>1, <1>2

LEMMA TiedStep == Inv /\ Tied /\ [Next]_vars => Tied'
<1> SUFFICES ASSUME Inv, Tied, [Next]_vars PROVE Tied'
  OBVIOUS
<1>0. TypeOK /\ TypeOK' /\ Inv'
  BY InvStep, TypeStep DEF Inv
<1>u. \A q \in Req : pc[q] # "unlink" => tied[q] = {}
  BY DEF Tied, Ties
<1> USE DEF Goto, TypeOK, tables, locals
<1>d. ASSUME NEW r \in Req, Drop(r, "failed") PROVE Tied'
  BY <1>0, <1>d, TiesFrame DEF Drop, Adding, Tied, Ties, Tying
<1>1. ASSUME NEW r \in Req, Receive(r) PROVE Tied'
  BY <1>0, <1>u, <1>1, TiesFrame DEF Receive, Adding
<1>2. ASSUME NEW r \in Req, ChatLoad(r) PROVE Tied'
  <2>1. Adding(r)' => exists[job[r].conv] = "live"
    BY <1>0, <1>2 DEF ChatLoad, Adding
  <2>2. /\ UNCHANGED <<exists, row, job, tied>>
        /\ \A q \in Req \ {r} : pc'[q] = pc[q]
        /\ pc[r] = "load" /\ pc'[r] # "unlink"
    BY <1>0, <1>2 DEF ChatLoad
  <2> QED
    BY <1>0, <1>u, <2>1, <2>2, TiesFrame DEF Adding
<1>3. ASSUME NEW r \in Req, Create(r), ~Drop(r, "failed") PROVE Tied'
  <2>1. PICK c \in Conv : /\ exists[c] = "free"
                          /\ exists' = [exists EXCEPT ![c] = "reserved"]
                          /\ job' = [job EXCEPT ![r].conv = c]
    BY Zenon, <1>3 DEF Create
  <2>2. /\ UNCHANGED <<row, tied>> /\ Unlinking(job[r].project) = {}
        /\ pc[r] = "create" /\ pc'[r] # "unlink"
        /\ \A q \in Req \ {r} : pc'[q] = pc[q]
    <3>1. Goto(r, "insert") \/ Goto(r, "commit")
      BY Zenon, <1>3 DEF Create
    <3> QED
      BY Zenon, <1>0, <1>3, <3>1 DEF Create
  <2>3. job[r] \in Job
    BY <2>2 DEF Inv, JobFits
  <2>4. job'[r].project = job[r].project /\ \A q \in Req \ {r} : job'[q] = job[q]
    BY <1>0, <2>1, <2>3, JobFields
  <2>5. \A q \in Req \ {r} : Adding(q) => job[q].conv # c
    BY <2>1, AddingTook
  <2>6. \A q \in Req \ {r} : Adding(q)' => Adding(q) /\ exists'[job[q].conv] = exists[job[q].conv]
    BY <1>0, <2>1, <2>2, <2>5, AddingTook DEF Adding
  <2>7. \A k \in Conv : exists[k] = "live" => exists'[k] = "live"
    BY <1>0, <2>1
  <2>8. \A q \in Req : Adding(q)' /\ exists'[job'[q].conv] = "reserved" =>
             \/ Adding(q) /\ exists[job[q].conv] = "reserved" /\ job'[q] = job[q]
             \/ Unlinking(job'[q].project) = {}
    BY <2>2, <2>4, <2>6
  <2>9. tied'[r] = {}
    BY <1>u, <2>2
  <2> QED
    BY <1>0, <2>2, <2>4, <2>7, <2>8, <2>9, TiesFrame
<1>4. ASSUME NEW r \in Req, Insert(r), ~Drop(r, "failed") PROVE Tied'
  BY <1>0, <1>u, <1>4, TiesFrame DEF Insert, Adding
<1>5. ASSUME NEW r \in Req, Touch(r) PROVE Tied'
  BY <1>0, <1>u, <1>5, TiesFrame DEF Touch, ReadHistory, Adding
<1>6. ASSUME NEW r \in Req, Reply(r) PROVE Tied'
  BY <1>0, <1>u, <1>6, TiesFrame DEF Reply, Adding
<1>7. ASSUME NEW r \in Req, Commit(r) PROVE Tied'
  <2>1. \A c \in Conv : exists[c] = "live" => row'[c].project = row[c].project
    BY <1>0, <1>7, WrittenFields DEF Commit
  <2>2. /\ pc[r] = "commit" /\ pc' = [pc EXCEPT ![r] = "done"] /\ UNCHANGED <<job, tied>>
        /\ exists' = [exists EXCEPT ![job[r].conv] = "live"]
    BY <1>7 DEF Commit
  <2> QED
    BY SMTT(30), <1>0, <1>u, <2>1, <2>2, TiesFrame DEF Adding
<1>8. ASSUME NEW r \in Req, RowLoad(r) PROVE Tied'
  BY <1>0, <1>u, <1>8, TiesFrame DEF RowLoad, Adding
<1>9. ASSUME NEW r \in Req, Rename(r), ~Drop(r, "failed") PROVE Tied'
  <2>1. \A c \in Conv : row'[c].project = row[c].project
    <3>1. row' = [row EXCEPT ![job[r].conv].title = r]
      BY <1>9 DEF Rename
    <3> SUFFICES ASSUME NEW c \in Conv PROVE row'[c].project = row[c].project
      OBVIOUS
    <3>2. row[c] \in Row /\ row'[c] \in {row[c], [row[c] EXCEPT !.title = r]}
      BY <1>0, <3>1
    <3>3. [row[c] EXCEPT !.title = r].project = row[c].project
      BY Zenon, <3>2, RowEdits
    <3> QED
      BY <3>2, <3>3
  <2>2. pc[r] = "write" /\ pc' = [pc EXCEPT ![r] = "done"] /\ UNCHANGED <<exists, job, tied>>
    BY <1>9 DEF Rename
  <2> QED
    BY <1>0, <1>u, <2>1, <2>2, TiesFrame DEF Adding
<1>10. ASSUME NEW r \in Req, Delete(r) PROVE Tied'
  <2>1. Tying(job[r].conv) = {} /\ exists' = [exists EXCEPT ![job[r].conv] = "gone"]
    BY <1>10 DEF Delete
  <2>2. pc[r] = "write" /\ pc' = [pc EXCEPT ![r] = "done"] /\ UNCHANGED <<row, job, tied>>
    BY <1>10 DEF Delete
  <2> QED
    BY <1>0, <1>u, <2>1, <2>2, TiesFrame DEF Adding
<1>11. ASSUME NEW r \in Req, Unlink(r) PROVE Tied'
  <2>1. /\ pc[r] = "write" /\ pc' = [pc EXCEPT ![r] = "unlink"]
        /\ UNCHANGED <<exists, row, job, tied>>
        /\ Linking(job[r].project) = {} /\ Unlinking(job[r].project) = {}
    BY <1>11 DEF Unlink
  <2>2. \A q \in Req : Adding(q) /\ exists[job[q].conv] = "reserved"
                           => job[q].project # job[r].project
    BY <2>1 DEF Linking, Adding
  <2>3. \A q \in Req : pc[q] = "unlink" => job[q].project # job[r].project
    BY <2>1 DEF Unlinking
  <2>4. \A q \in Req : Adding(q)' => Adding(q)
    BY <1>0, <2>1 DEF Adding
  <2> SUFFICES ASSUME NEW q \in Req PROVE Ties(q)'
    BY DEF Tied
  <2>5. CASE q = r
    BY <1>0, <1>u, <2>1, <2>2, <2>3, <2>4, <2>5 DEF Ties
  <2>6. CASE q # r
    BY <1>0, <2>1, <2>3, <2>4, <2>6 DEF Tied, Ties
  <2> QED
    BY <2>5, <2>6
<1>12. ASSUME NEW r \in Req, Reach(r) \/ Tie(r) PROVE Tied'
  <2>0. pc[r] = "unlink" /\ job[r] \in Job
    BY <1>12 DEF Reach, Tie, Inv, JobFits
  <2>1. /\ UNCHANGED <<exists, row, pc>>
        /\ \A q \in Req : job'[q].project = job[q].project
        /\ \A q \in Req \ {r} : job'[q] = job[q] /\ tied'[q] = tied[q]
        /\ tied'[r] \subseteq tied[r] \cup Linked(job[r].project)
    <3>1. CASE Reach(r)
      <4>1. PICK c \in Conv : job' = [job EXCEPT ![r].conv = c]
        BY <3>1 DEF Reach, Linked
      <4>2. job'[r].project = job[r].project /\ \A q \in Req \ {r} : job'[q] = job[q]
        BY <1>0, <2>0, <4>1, JobFields
      <4> QED
        BY <3>1, <4>2 DEF Reach
    <3>2. CASE Tie(r)
      <4>1. job' = [job EXCEPT ![r].conv = None]
        BY <3>2 DEF Tie
      <4>2. job'[r].project = job[r].project /\ \A q \in Req \ {r} : job'[q] = job[q]
        BY <1>0, <2>0, <4>1, JobFields
      <4> QED
        BY <1>0, <3>2, <4>2 DEF Tie
    <3> QED
      BY <1>12, <3>1, <3>2
  <2>2. \A q \in Req : Adding(q)' => Adding(q) /\ job'[q] = job[q]
    BY <2>0, <2>1 DEF Adding
  <2> SUFFICES ASSUME NEW q \in Req PROVE Ties(q)'
    BY DEF Tied
  <2>3. \A c \in tied'[q] : exists[c] = "live" /\ row[c].project = job[q].project
    BY <2>1 DEF Tied, Ties, Linked
  <2>4. tied'[q] # {} => pc'[q] = "unlink"
    BY <2>0, <2>1 DEF Tied, Ties
  <2> QED
    BY <2>1, <2>2, <2>3, <2>4 DEF Tied, Ties
<1>13. ASSUME NEW r \in Req, Unlinked(r) PROVE Tied'
  <2>1. /\ pc[r] = "unlink" /\ pc' = [pc EXCEPT ![r] = "done"] /\ UNCHANGED <<exists, job>>
        /\ tied' = [tied EXCEPT ![r] = {}]
        /\ \A c \in Conv \ tied[r] : row'[c] = row[c]
    BY <1>13 DEF Unlinked
  <2> SUFFICES ASSUME NEW q \in Req PROVE Ties(q)'
    BY DEF Tied
  <2>2. CASE q = r
    BY <1>0, <2>1, <2>2 DEF Ties
  <2>3. CASE q # r
    <3>1. \A c \in tied[q] : c \in Conv /\ c \notin tied[r]
      <4>1. Ties(q) /\ Ties(r) /\ tied[q] \subseteq Conv
        BY <1>0 DEF Tied
      <4> QED
        BY <2>1, <2>3, <4>1 DEF Ties
    <3> QED
      BY <1>0, <2>1, <2>3, <3>1 DEF Tied, Ties, Adding
  <2> QED
    BY <2>2, <2>3
<1>14. CASE UNCHANGED vars
  BY <1>14 DEF vars, Tied, Ties, Adding
<1> QED
  BY <1>1, <1>2, <1>3, <1>4, <1>5, <1>6, <1>7, <1>8, <1>9, <1>10, <1>11, <1>12,
     <1>13, <1>14, <1>d DEF Next, Step, Abort, AllFinished

LEMMA InvAlways == Spec => [](Inv /\ Tied)
<1>1. Init => Tied
  BY DEF Init, Tied, Ties
<1> QED
  BY <1>1, InvInit, InvStep, TiedStep, PTL DEF Spec

\* Every reachable state of any instance is well typed.
THEOREM TypeCorrect == Spec => []TypeOK
<1>1. Inv => TypeOK
  BY DEF Inv
<1> QED
  BY <1>1, InvAlways, PTL

\* chat and stream commit a question and its answer together or not at all: no
\* failure, cancellation or interleaving leaves one without the other.
THEOREM WholeExchanges == Spec => []ExchangesAreWhole
<1>1. Inv => ExchangesAreWhole
  BY DEF Inv, Rooted, ExchangesAreWhole, Committed
<1> QED
  BY <1>1, InvAlways, PTL

\* The foreign keys of messages and conversations hold whatever is deleted while
\* chats are writing.
THEOREM ResolvedReferences == Spec => []ReferencesResolve
<1>1. Inv /\ Tied => ReferencesResolve
  BY DEF Inv, TypeOK, Rooted, Holds, ReferencesResolve, Sharing, Writing, Tying, Tied, Ties
<1> QED
  BY <1>1, InvAlways, PTL

\* The history an answer is composed from is still the conversation's when the
\* answer is stored: the lock of the row serializes the chats of a conversation.
THEOREM CurrentHistory == Spec => []HistoryIsCurrent
<1>1. Inv => HistoryIsCurrent
  <2> SUFFICES ASSUME Inv, NEW c \in Conv, NEW r \in Writing(c), job[r].kind # "create"
               PROVE  seen[r] = History(msgs[c] \cup {m \in own[r] : m.role = "user"})
    BY DEF HistoryIsCurrent
  <2>1. r \in Req /\ pc[r] \in {"think", "commit"} /\ job[r].conv = c
    BY DEF Writing
  <2>2. Chatting(r)
    BY <2>1 DEF Inv, JobFits, Adding, Opening, Chatting
  <2> QED
    BY <2>1, <2>2 DEF Inv, Current
<1> QED
  BY <1>1, InvAlways, PTL

\* A chat that loaded the conversation before a rename, or before its project was
\* deleted, does not undo them when it commits.
THEOREM KeptUpdates == Spec => UpdatesAreKept
<1> DEFINE Kept == \A c \in Conv : exists[c] = "live" =>
         /\ row'[c].title # row[c].title =>
              \E r \in Req : /\ pc[r] = "write" /\ pc'[r] = "done"
                             /\ job[r].kind = "rename" /\ row'[c].title = r
         /\ row'[c].project # row[c].project =>
              row'[c].project = None /\ row[c].project \notin projects'
<1>1. Inv /\ Tied /\ [Next]_vars => [Kept]_vars
  <2> SUFFICES ASSUME Inv, Tied, Next, NEW c \in Conv, exists[c] = "live", row'[c] # row[c]
               PROVE  \/ /\ row'[c].title = row[c].title
                         /\ row'[c].project # row[c].project =>
                              row'[c].project = None /\ row[c].project \notin projects'
                      \/ /\ \E r \in Req : /\ pc[r] = "write" /\ pc'[r] = "done"
                                           /\ job[r].kind = "rename" /\ row'[c].title = r
                         /\ row'[c].project = row[c].project
    OBVIOUS
  <2>0. TypeOK
    BY DEF Inv
  <2>1. ASSUME NEW r \in Req, Commit(r)
        PROVE  row'[c].title = row[c].title /\ row'[c].project = row[c].project
    BY <2>0, <2>1, WrittenFields DEF Commit, TypeOK
  <2>2. ASSUME NEW r \in Req, Rename(r)
        PROVE  /\ pc[r] = "write" /\ pc'[r] = "done" /\ job[r].kind = "rename"
               /\ row'[c].title = r /\ row'[c].project = row[c].project
    <3>1. pc'[r] = "done" /\ row' = [row EXCEPT ![job[r].conv].title = r]
      BY <2>0, <2>2 DEF Rename, Drop, Goto, TypeOK
    <3>2. row'[c] = [row[c] EXCEPT !.title = r]
      BY SMTT(30), <2>0, <3>1 DEF TypeOK
    <3> QED
      BY <2>0, <2>2, <3>1, <3>2 DEF Rename, TypeOK, Row
  <2>3. ASSUME NEW r \in Req, Unlinked(r)
        PROVE  /\ row'[c].title = row[c].title /\ row'[c].project = None
               /\ row[c].project \notin projects'
    <3>1. c \in tied[r] /\ row'[c] = [row[c] EXCEPT !.project = None]
      BY <2>0, <2>3 DEF Unlinked, TypeOK
    <3>2. row[c].project = job[r].project /\ projects' = projects \ {job[r].project}
      BY SMTT(30), <2>3, <3>1 DEF Tied, Ties, Unlinked
    <3> QED
      BY <2>0, <3>1, <3>2, RowEdits DEF TypeOK
  <2>4. ASSUME NEW r \in Req,
               \/ Receive(r) \/ ChatLoad(r) \/ Create(r) \/ Insert(r) \/ Touch(r)
               \/ Reply(r) \/ RowLoad(r) \/ Delete(r) \/ Abort(r) \/ Unlink(r) \/ Reach(r)
               \/ Tie(r)
        PROVE  row' = row
    BY Zenon, <2>4 DEF Receive, ChatLoad, Create, Insert, Touch, ReadHistory, Reply,
                RowLoad, Delete, Abort, Unlink, Reach, Tie, Drop, tables
  <2> QED
    BY <2>1, <2>2, <2>3, <2>4 DEF Next, Step, AllFinished, vars
<1> QED
  BY <1>1, InvAlways, PTL DEF Spec, UpdatesAreKept

-----------------------------------------------------------------------------
(***************************************************************************)
(* The memory: what it keeps as long as few chats of a conversation get in *)
(* between another's load of it and its reading of the history (FewAhead).  *)
(***************************************************************************)

\* The messages of those that committed in between fit among the recent ones.
FewAhead == \A r \in Req : 2 * Cardinality(ahead[r]) < Recent

\* The code's limits (4..200 and 8..500) leave room for this unless the trigger is
\* set above 500 - context_message_limit.
WindowFits == Max({Trigger, Recent}) + Recent <= HistoryCap

Later(S, m)  == {x \in S : x.at > m.at}
ByRivals(r, c) == {x \in msgs[c] : x.by \in ahead[r]}
Within       == Max({Trigger, Recent})

\* Messages come from chats that are over, at most two from each.
Senders(c) ==
    /\ IsFiniteSet(msgs[c])
    /\ \A m \in msgs[c] : m.by # None => pc[m.by] = "done"
    /\ \A m, n \in msgs[c] : m.by = n.by /\ m.role = n.role /\ m.by # None => m = n

\* Only requests ahead can commit messages stamped after the question of a waiting
\* request; nobody can after its answer.
Stamped(r) ==
    /\ \A x \in own[r] : \A m \in msgs[job[r].conv] :
         m.by \notin ahead[r] => m.at < x.at
    /\ \A x \in own[r] : x.role = "assistant" =>
         \A m \in msgs[job[r].conv] : m.at < x.at

\* A request without a history yet has none.
Unread(r) == pc[r] \in {"idle", "load", "create", "insert", "touch"} \/ ~Chatting(r) =>
    seen[r] = {}

\* A summary folds messages of the conversation that are not recent, ...
Folded(S, s) ==
    /\ s \subseteq S
    /\ \A m \in s : Cardinality(Later(S, m)) >= Recent /\ Cardinality(S) > Trigger

\* ... and every one that is not, once there are enough of them.
Covered(c) == WindowFits /\ exists[c] = "live" =>
    /\ Folded(msgs[c], row[c].summary)
    /\ \A m \in msgs[c] \ row[c].summary :
         Cardinality(Later(msgs[c], m)) < Recent \/ Cardinality(msgs[c]) <= Trigger

\* What a request found folded when it loaded the conversation stays so, and but for
\* the messages of those ahead the rest is within the window it will read.
Loaded(r) == WindowFits /\ Adding(r) /\ exists[job[r].conv] \in {"live", "reserved"} =>
    LET c == job[r].conv IN
    /\ Folded(msgs[c], base[r].summary)
    /\ \A m \in msgs[c] \ base[r].summary :
         Cardinality(Later(msgs[c], m) \ ByRivals(r, c)) < Within

MInv ==
    /\ Inv
    /\ \A r \in Req : Stamped(r) /\ Unread(r) /\ Loaded(r) /\ IsFiniteSet(ahead[r])
    /\ \A c \in Conv : Senders(c) /\ Covered(c)

-----------------------------------------------------------------------------
(* Counting messages *)

LEMMA TwoRoles == IsFiniteSet({"user", "assistant"}) /\ Cardinality({"user", "assistant"}) = 2
<1>1. IsFiniteSet({"user"}) /\ Cardinality({"user"}) = 1
  BY FS_Singleton
<1>2. /\ IsFiniteSet({"user"} \cup {"assistant"})
      /\ Cardinality({"user"} \cup {"assistant"}) = 1 + 1
  BY <1>1, FS_AddElement
<1>3. {"user", "assistant"} = {"user"} \cup {"assistant"}
  OBVIOUS
<1> QED
  BY <1>2, <1>3

LEMMA Fewer ==
    ASSUME NEW S, NEW T, IsFiniteSet(T), S \subseteq T
    PROVE  /\ IsFiniteSet(S) /\ Cardinality(S) \in Nat /\ Cardinality(T) \in Nat
           /\ Cardinality(S) <= Cardinality(T)
BY FS_Subset, FS_CardinalityType

\* A message is not later than itself.
LEMMA LaterFewer ==
    ASSUME NEW S \in SUBSET Message, IsFiniteSet(S), NEW m \in S
    PROVE  /\ IsFiniteSet(Later(S, m)) /\ Cardinality(Later(S, m)) \in Nat
           /\ Cardinality(S) \in Nat /\ Cardinality(Later(S, m)) < Cardinality(S)
<1>1. Later(S, m) \subseteq S \ {m}
  BY DEF Later, Message
<1>2. IsFiniteSet(S \ {m}) /\ Cardinality(S \ {m}) = Cardinality(S) - 1
  BY FS_RemoveElement
<1> QED
  BY <1>1, <1>2, Fewer, FS_CardinalityType

LEMMA LaterMonotone ==
    ASSUME NEW S, NEW T, IsFiniteSet(T), S \subseteq T, NEW m
    PROVE  /\ IsFiniteSet(Later(S, m)) /\ IsFiniteSet(Later(T, m))
           /\ Cardinality(Later(S, m)) \in Nat /\ Cardinality(Later(T, m)) \in Nat
           /\ Cardinality(Later(S, m)) <= Cardinality(Later(T, m))
<1>1. Later(S, m) \subseteq Later(T, m) /\ Later(T, m) \subseteq T
  BY DEF Later
<1>2. IsFiniteSet(Later(T, m))
  BY <1>1, Fewer
<1> QED
  BY <1>1, <1>2, Fewer

LEMMA LastNIs == \A S, n : LastN(S, n) = {m \in S : Cardinality(Later(S, m)) < n}
BY DEF LastN, Later

\* Keeping the last n of more than n messages keeps at least n.
LEMMA LastNKeeps ==
    ASSUME NEW S \in SUBSET Message, IsFiniteSet(S), NEW n \in Nat, LastN(S, n) # S
    PROVE  Cardinality(LastN(S, n)) >= n
<1> DEFINE Dropped == S \ LastN(S, n)
           Above   == {Later(S, m) : m \in Dropped}
<1>1. \A m \in S : IsFiniteSet(Later(S, m)) /\ Later(S, m) \subseteq S
  BY Fewer DEF Later
<1>2. Above \subseteq FiniteSubsetsOf(S) /\ Above # {}
  BY <1>1 DEF FiniteSubsetsOf, LastN
<1>3. PICK U \in Above : \A V \in Above : ~ (<<V, U>> \in StrictSubsetOrdering(S))
  BY <1>2, FS_StrictSubsetOrderingWellFounded, WFMin
<1>4. PICK m \in Dropped : U = Later(S, m)
  OBVIOUS
<1>5. Cardinality(U) >= n
  BY <1>1, <1>4, LastNIs, FS_CardinalityType
<1>6. ASSUME NEW x \in U PROVE x \in LastN(S, n)
  <2>1. x \in S /\ x.at > m.at
    BY <1>4 DEF Later
  <2>2. Later(S, x) \subseteq U
    BY <1>4, <2>1 DEF Later, Message
  <2>3. x \notin Later(S, x)
    BY <2>1 DEF Later, Message
  <2>4. Later(S, x) # U
    BY <2>3
  <2>5. <<Later(S, x), U>> \in StrictSubsetOrdering(S)
    BY <1>1, <1>4, <2>1, <2>2, <2>4 DEF StrictSubsetOrdering
  <2>6. Later(S, x) \notin Above
    BY <1>3, <2>5
  <2> QED
    BY <2>1, <2>6
<1>7. LastN(S, n) \subseteq S /\ U \subseteq LastN(S, n)
  BY <1>6 DEF LastN
<1>8. IsFiniteSet(LastN(S, n))
  BY <1>7, Fewer
<1>9. Cardinality(U) <= Cardinality(LastN(S, n)) /\ Cardinality(U) \in Nat /\ Cardinality(LastN(S, n)) \in Nat
  BY <1>7, <1>8, Fewer
<1> QED
  BY <1>5, <1>9

LEMMA WithinIs == Within \in Nat \ {0} /\ Within >= Trigger /\ Within >= Recent
<1>1. Trigger \in Nat \ {0} /\ Recent \in Nat \ {0}
  BY MemoryAssumption
<1>2. \E x \in {Trigger, Recent} : \A y \in {Trigger, Recent} : x >= y
  BY <1>1
<1> QED
  BY <1>1, <1>2 DEF Within, Max

LEMMA HistoryLimitIs ==
    /\ HistoryLimit \in Nat
    /\ Recent <= HistoryCap => HistoryLimit >= Recent
    /\ WindowFits => HistoryLimit = Within + Recent
<1> DEFINE a == HistoryCap
           b == Within + Recent
<1>1. a \in Nat /\ b \in Nat /\ Recent \in Nat /\ b >= Recent
  BY WithinIs, MemoryAssumption
<1>2. HistoryLimit = Min({a, b})
  BY DEF HistoryLimit, Within
<1>3. WindowFits => b <= a
  BY DEF WindowFits, Within
<1> HIDE DEF a, b
<1>4. \E x \in {a, b} : \A y \in {a, b} : x <= y
  BY <1>1
<1>5. Min({a, b}) \in {a, b} /\ Min({a, b}) <= a /\ Min({a, b}) <= b
  BY <1>1, <1>4 DEF Min
<1> QED
  BY <1>1, <1>2, <1>3, <1>5 DEF a, b

\* Two messages of each request at most.
LEMMA RivalsSayLittle ==
    ASSUME FewAhead, TypeOK, NEW r \in Req, IsFiniteSet(ahead[r]), NEW c \in Conv, Senders(c)
    PROVE  /\ IsFiniteSet(ByRivals(r, c)) /\ Cardinality(ByRivals(r, c)) \in Nat
           /\ Cardinality(ByRivals(r, c)) < Recent
<1> DEFINE X == ByRivals(r, c)
           Y == ahead[r] \X {"user", "assistant"}
           f == [x \in X |-> <<x.by, x.role>>]
<1>1. IsFiniteSet(Y) /\ Cardinality(Y) = Cardinality(ahead[r]) * 2
  BY TwoRoles, FS_Product
<1>2. \A x \in X : x \in Message /\ x \in msgs[c] /\ x.by \in ahead[r]
  BY DEF ByRivals, TypeOK
<1>3. \A x \in X : x.by # None
  BY <1>2, NamesAssumption DEF TypeOK
<1>4. f \in [X -> Y]
  BY <1>2 DEF Message
<1>5. \A x, y \in X : f[x] = f[y] => x = y
  BY <1>2, <1>3 DEF Senders
<1>6. f \in Injection(X, Y)
  BY <1>4, <1>5 DEF Injection, IsInjective
<1>7. IsFiniteSet(X) /\ Cardinality(X) <= Cardinality(Y)
  BY <1>1, <1>6, FS_Injection
<1>8. Cardinality(X) \in Nat
  BY <1>7, FS_CardinalityType
<1> QED
  BY <1>1, <1>7, <1>8, FS_CardinalityType, MemoryAssumption DEF FewAhead

-----------------------------------------------------------------------------
(* Steps that commit nothing *)

Early(r) == pc[r] \in {"idle", "load", "create", "insert", "touch"}

\* A step of r that adds no message and reads no history.
Move(r) ==
    /\ UNCHANGED <<socket, msgs, base, seen>>
    /\ \A c \in Conv : /\ row'[c].summary = row[c].summary
                       /\ exists'[c] = "live" <=> exists[c] = "live"
                       /\ exists'[c] = "reserved" => exists[c] = "reserved"
    /\ \A q \in Req \ {r} : /\ pc'[q] = pc[q] /\ job'[q] = job[q] /\ own'[q] = own[q]
                           /\ ahead'[q] = ahead[q]
    /\ own'[r] \in {own[r], {}} /\ ahead'[r] \in {ahead[r], {}}
    /\ own'[r] # {} => job'[r] = job[r] /\ ahead'[r] = ahead[r]
    /\ Adding(r)' => Adding(r) /\ job'[r] = job[r] /\ ahead'[r] = ahead[r]
    /\ pc[r] # "done"
    /\ Early(r)' \/ ~Chatting(r)' => Early(r) \/ ~Chatting(r)

LEMMA SendersFrame ==
    ASSUME NEW c \in Conv, Senders(c), msgs'[c] = msgs[c], Inv,
           \A q \in Req : pc[q] = "done" => pc'[q] = "done"
    PROVE  Senders(c)'
<1>1. \A m \in msgs[c] : m.by \in Req \cup {None}
  BY DEF Inv, TypeOK, Message
<1> QED
  BY <1>1 DEF Senders

LEMMA CoveredFrame ==
    ASSUME NEW c \in Conv, Covered(c), msgs'[c] = msgs[c], row'[c].summary = row[c].summary,
           exists'[c] = "live" => exists[c] = "live"
    PROVE  Covered(c)'
BY DEF Covered, Folded, Later

LEMMA LoadedFrame ==
    ASSUME NEW q \in Req, Loaded(q), pc'[q] = pc[q] \/ (Adding(q)' => Adding(q)),
           job'[q] = job[q], ahead'[q] = ahead[q],
           base'[q] = base[q], msgs'[job[q].conv] = msgs[job[q].conv],
           exists'[job[q].conv] \in {"live", "reserved"} =>
             exists[job[q].conv] \in {"live", "reserved"}
    PROVE  Loaded(q)'
BY DEF Loaded, Folded, Adding, ByRivals, Later

LEMMA MoveKeeps == ASSUME MInv, Inv', NEW r \in Req, Move(r) PROVE MInv'
<1> USE DEF MInv, Move
<1>0. Inv /\ TypeOK /\ TypeOK' /\ DOMAIN socket \subseteq Req
  BY SocketsFit DEF Inv, TypeOK
<1>2. ASSUME NEW q \in Req PROVE Stamped(q)'
  <2>1. q \in Req /\ Stamped(q)
    BY <1>0
  <2>2. own'[q] = {} \/ (own'[q] = own[q] /\ job'[q] = job[q])
    BY <2>1
  <2> QED
    BY <2>1, <2>2 DEF Stamped
<1>3. ASSUME NEW q \in Req PROVE Unread(q)'
  BY <1>0 DEF Unread, Early, Chatting
<1>4. ASSUME NEW q \in Req PROVE Loaded(q)'
  <2>1. q \in Req /\ Loaded(q) /\ (Adding(q)' => Adding(q) /\ job'[q] = job[q])
    BY <1>0 DEF Adding
  <2>2. Adding(q)' => job[q].conv \in Conv
    BY <1>0, <2>1 DEF Inv, JobFits
  <2>3. CASE ~Adding(q)'
    BY <2>3 DEF Loaded
  <2>4. CASE Adding(q)'
    <3>1. job'[q] = job[q] /\ ahead'[q] = ahead[q] /\ base'[q] = base[q] /\ msgs' = msgs
      BY <2>1, <2>4
    <3>2. exists'[job[q].conv] \in {"live", "reserved"} =>
            exists[job[q].conv] \in {"live", "reserved"}
      BY <2>2, <2>4
    <3> QED
      BY <2>1, <3>1, <3>2, LoadedFrame
  <2> QED
    BY <2>3, <2>4
<1>5. ASSUME NEW c \in Conv PROVE Senders(c)' /\ Covered(c)'
  <2>1. \A q \in Req : pc[q] = "done" => pc'[q] = "done"
    OBVIOUS
  <2>2. Senders(c)'
    BY <1>0, <2>1, SendersFrame
  <2> QED
    BY <2>2 DEF Covered, Folded, Later
<1>6. ASSUME NEW q \in Req PROVE IsFiniteSet(ahead'[q])
  BY FS_EmptySet
<1> QED
  BY <1>2, <1>3, <1>4, <1>5, <1>6

LEMMA DropMoves ==
    ASSUME Inv, NEW r \in Req, NEW l \in Answers \ {"done"}, Drop(r, l),
           pc[r] \notin {"idle", "load"} \cup Answers
    PROVE  Move(r)
BY DEF Move, Drop, Goto, Inv, TypeOK, Adding, Early, Chatting, Answers

LEMMA ReceiveMoves == ASSUME Inv, NEW r \in Req, Receive(r) PROVE Move(r)
<1>1. own[r] = {}
  BY DEF Inv, Exchange, Adding, Receive
<1> QED
  BY <1>1 DEF Move, Receive, Goto, Inv, TypeOK, Adding, Early, Chatting, tables, locals

LEMMA PlainMoves ==
    ASSUME Inv, NEW r \in Req, ~Drop(r, "failed"),
           \/ Insert(r) \/ RowLoad(r) \/ Rename(r)
           \/ Unlink(r) \/ Reach(r) \/ Tie(r) \/ Unlinked(r)
           \/ ChatLoad(r) /\ pc'[r] # "insert"
    PROVE  Move(r)
<1> USE DEF Move, Goto, Inv, TypeOK, Adding, Early, Chatting, tables, locals
<1>1. CASE Insert(r)
  BY <1>1 DEF Insert
<1>2. CASE RowLoad(r)
  BY <1>2 DEF RowLoad
<1>3. CASE Rename(r)
  <2>1. /\ pc[r] = "write" /\ job[r].conv \in Conv /\ ~Chatting(r)
        /\ pc' = [pc EXCEPT ![r] = "done"] /\ row' = [row EXCEPT ![job[r].conv].title = r]
        /\ UNCHANGED <<socket, exists, msgs, job, base, own, seen, ahead>>
    BY <1>3 DEF Rename, JobFits
  <2>2. \A c \in Conv : row'[c].summary = row[c].summary
    <3>1. \A c \in Conv : row[c] \in Row
      BY DEF TypeOK
    <3> QED
      BY <2>1, <3>1, RowEdits
  <2> QED
    BY <2>1, <2>2
<1>4. CASE Unlink(r) \/ Reach(r) \/ Tie(r)
  <2>1. pc[r] \in {"write", "unlink"} /\ own[r] = {} /\ job[r] \in Job /\ ~Chatting(r)
    BY <1>4 DEF Unlink, Reach, Tie, JobFits, Exchange
  <2>2. job'[r].kind = job[r].kind /\ \A q \in Req \ {r} : job'[q] = job[q]
    <3>1. job' = job \/ \E c \in Conv \cup {None} : job' = [job EXCEPT ![r].conv = c]
      BY <1>4 DEF Unlink, Reach, Tie, Linked
    <3>2. ASSUME NEW c \in Conv \cup {None}, job' = [job EXCEPT ![r].conv = c]
          PROVE  job'[r].kind = job[r].kind /\ \A q \in Req \ {r} : job'[q] = job[q]
      <4>1. job'[r] = [job[r] EXCEPT !.conv = c] /\ \A q \in Req \ {r} : job'[q] = job[q]
        BY <3>2
      <4>2. [job[r] EXCEPT !.conv = c].kind = job[r].kind
        BY <2>1, JobFields
      <4> QED
        BY <4>1, <4>2
    <3>3. job' = job => job'[r].kind = job[r].kind /\ \A q \in Req \ {r} : job'[q] = job[q]
      OBVIOUS
    <3> QED
      BY <3>1, <3>2, <3>3
  <2> QED
    BY <1>4, <2>1, <2>2 DEF Unlink, Reach, Tie
<1>5. CASE ChatLoad(r) /\ pc'[r] # "insert"
  BY <1>5 DEF ChatLoad
<1>6. CASE Unlinked(r)
  <2>1. pc[r] = "unlink" /\ own[r] = {} /\ ~Chatting(r)
    BY <1>6 DEF Unlinked, JobFits, Exchange
  <2>2. \A c \in Conv : row'[c].summary = row[c].summary
    BY <1>6, RowEdits DEF Unlinked
  <2> QED
    BY <1>6, <2>1, <2>2 DEF Unlinked
<1> QED
  BY <1>1, <1>2, <1>3, <1>4, <1>5, <1>6

-----------------------------------------------------------------------------
(* Steps that add a message, read the history or delete it *)

\* A message stamped now is later than all there are.
LEMMA StampIsLatest ==
    ASSUME Inv, NEW x, x.at = clock + 1
    PROVE  \A c \in Conv : \A m \in msgs[c] : m.at < x.at
BY DEF Inv, TypeOK, Clocked, Message

\* What is covered when it is loaded is within the window.
LEMMA CoveredIsLoaded ==
    ASSUME MInv, WindowFits, NEW r \in Req, NEW c \in Conv, exists[c] = "live"
    PROVE  \A m \in msgs[c] \ row[c].summary :
             Cardinality(Later(msgs[c], m) \ ByRivals(r, c)) < Within
<1> SUFFICES ASSUME NEW m \in msgs[c] \ row[c].summary
             PROVE  Cardinality(Later(msgs[c], m) \ ByRivals(r, c)) < Within
  OBVIOUS
<1>1. IsFiniteSet(msgs[c]) /\ msgs[c] \in SUBSET Message
  BY DEF MInv, Inv, TypeOK, Senders
<1>2. /\ IsFiniteSet(Later(msgs[c], m)) /\ Cardinality(Later(msgs[c], m)) \in Nat
      /\ Cardinality(Later(msgs[c], m)) < Cardinality(msgs[c]) /\ Cardinality(msgs[c]) \in Nat
  BY <1>1, LaterFewer
<1>3. Cardinality(Later(msgs[c], m)) < Recent \/ Cardinality(msgs[c]) <= Trigger
  BY DEF MInv, Covered
<1>4. Cardinality(Later(msgs[c], m)) < Within
  BY <1>2, <1>3, WithinIs, MemoryAssumption
<1>5. /\ Cardinality(Later(msgs[c], m) \ ByRivals(r, c)) \in Nat
      /\ Cardinality(Later(msgs[c], m) \ ByRivals(r, c)) <= Cardinality(Later(msgs[c], m))
  BY <1>2, Fewer
<1> QED
  BY <1>2, <1>4, <1>5, WithinIs

LEMMA ChatLoadRemembers ==
    ASSUME MInv, Inv', NEW r \in Req, ChatLoad(r), pc'[r] = "insert"
    PROVE  MInv'
<1> DEFINE d == job[r].conv
<1>0. Inv /\ TypeOK /\ TypeOK' /\ DOMAIN socket \subseteq Req /\ own[r] = {}
  BY SocketsFit DEF MInv, Inv, TypeOK, Exchange, Adding, ChatLoad
<1>1. /\ UNCHANGED <<socket, projects, exists, row, msgs, job, seen, ahead>>
      /\ pc[r] = "load" /\ pc' = [pc EXCEPT ![r] = "insert"]
      /\ base' = [base EXCEPT ![r] = row[d]]
      /\ d \in Conv /\ exists[d] = "live" /\ r \in DOMAIN socket
      /\ Add(r, "user")
  BY <1>0, JobFields DEF ChatLoad, Goto, TypeOK, Inv, JobFits, tables
<1>2. PICK x \in Message : /\ x.role = "user" /\ x.at = clock + 1
                          /\ own' = [own EXCEPT ![r] = {x}]
  BY <1>0, <1>1, AddIs
<1>3. ASSUME NEW q \in Req PROVE Stamped(q)'
  <2>1. CASE q = r
    BY <1>0, <1>1, <1>2, <2>1, StampIsLatest DEF TypeOK, Stamped
  <2>2. CASE q # r
    BY <1>0, <1>1, <1>2, <2>2 DEF MInv, TypeOK, Stamped
  <2> QED
    BY <2>1, <2>2
<1>4. ASSUME NEW q \in Req PROVE Unread(q)'
  BY <1>0, <1>1 DEF MInv, TypeOK, Unread, Chatting
<1>5. ASSUME NEW q \in Req PROVE Loaded(q)'
  <2>1. CASE q = r
    <3>1. Covered(d) /\ base'[r].summary = row[d].summary
      BY <1>0, <1>1 DEF MInv, TypeOK
    <3>2. WindowFits => \A m \in msgs[d] \ row[d].summary :
            Cardinality(Later(msgs[d], m) \ ByRivals(r, d)) < Within
      BY <1>1, CoveredIsLoaded
    <3> QED
      BY <1>1, <2>1, <3>1, <3>2 DEF Covered, Loaded, Folded, ByRivals, Later
  <2>2. CASE q # r
    BY <1>0, <1>1, <2>2, LoadedFrame DEF MInv, TypeOK
  <2> QED
    BY <2>1, <2>2
<1>6. ASSUME NEW c \in Conv PROVE Senders(c)' /\ Covered(c)'
  BY <1>0, <1>1, SendersFrame, CoveredFrame DEF MInv, TypeOK
<1> QED
  BY <1>1, <1>3, <1>4, <1>5, <1>6 DEF MInv

LEMMA CreateRemembers ==
    ASSUME MInv, Inv', NEW r \in Req, Create(r), ~Drop(r, "failed")
    PROVE  MInv'
<1>0. Inv /\ TypeOK /\ TypeOK' /\ DOMAIN socket \subseteq Req /\ own[r] = {}
  BY Zenon, SocketsFit DEF MInv, Inv, TypeOK, Exchange, Adding, Create
<1>1. PICK d \in Conv, v \in Provider \cup {None} :
        /\ exists[d] = "free" /\ exists' = [exists EXCEPT ![d] = "reserved"]
        /\ job' = [job EXCEPT ![r].conv = d]
        /\ base' = [base EXCEPT ![r] =
                      [Blank EXCEPT !.project = job[r].project, !.provider = v]]
  BY Zenon DEF Create
<1>2. /\ UNCHANGED <<socket, projects, row, msgs, seen, ahead>>
      /\ pc[r] = "create" /\ r \in DOMAIN socket /\ job[r] \in Job
      /\ \A q \in Req \ {r} : pc'[q] = pc[q] /\ own'[q] = own[q]
      /\ pc'[r] = IF job[r].kind = "start" THEN "insert" ELSE "commit"
      /\ \A x \in own'[r] : x.role = "user" /\ x.at = clock + 1
  <2>1. pc[r] = "create" /\ r \in DOMAIN socket /\ job[r] \in Job
    BY Zenon, <1>0 DEF Create, Inv, JobFits
  <2>2. CASE job[r].kind = "start"
    <3>1. Goto(r, "insert") /\ Add(r, "user")
      BY Zenon, <2>2 DEF Create
    <3>2. UNCHANGED <<socket, projects, row, msgs, seen, ahead>>
      BY Zenon DEF Create
    <3>3. PICK x \in Message : /\ x.role = "user" /\ x.at = clock + 1
                              /\ own' = [own EXCEPT ![r] = {x}]
      BY <1>0, <3>1, AddIs
    <3> QED
      BY <1>0, <2>1, <2>2, <3>1, <3>2, <3>3 DEF Goto, TypeOK
  <2>3. CASE job[r].kind # "start"
    BY ZenonT(90), <1>0, <2>1, <2>3 DEF Create, Goto, TypeOK
  <2> QED
    BY <2>1, <2>2, <2>3
<1>3. job'[r].conv = d /\ job'[r].kind = job[r].kind /\ \A q \in Req \ {r} : job'[q] = job[q]
  BY <1>0, <1>1, <1>2, JobFields DEF TypeOK
<1>4. msgs[d] = {} /\ base'[r].summary = {} /\ \A q \in Req \ {r} : base'[q] = base[q]
  <2>1. base'[r] = [Blank EXCEPT !.project = job[r].project, !.provider = v]
    BY <1>0, <1>1 DEF TypeOK
  <2> QED
    BY <1>0, <1>1, <2>1 DEF Inv, TypeOK, Rooted, Blank
<1>5. \A q \in Req : Adding(q) => job[q].conv # d
  BY <1>0, <1>1, NamesAssumption DEF Inv, JobFits, Reserves, Adding, Answers
<1>7. ASSUME NEW q \in Req PROVE Stamped(q)'
  <2>1. CASE q = r
    <3>1. \A x \in own'[r] : \A c \in Conv : \A m \in msgs[c] : m.at < x.at
      BY <1>0, <1>2, StampIsLatest
    <3> QED
      BY <1>0, <1>1, <1>2, <1>3, <2>1, <3>1 DEF Stamped
  <2>2. CASE q # r
    BY <1>0, <1>2, <1>3, <2>2 DEF MInv, TypeOK, Stamped
  <2> QED
    BY <2>1, <2>2
<1>8. ASSUME NEW q \in Req PROVE Unread(q)'
  BY <1>0, <1>2, <1>3 DEF MInv, TypeOK, Unread, Chatting
<1>9. ASSUME NEW q \in Req PROVE Loaded(q)'
  <2>1. CASE q = r
    BY <1>2, <1>3, <1>4, <2>1 DEF Loaded, Folded
  <2>2. CASE q # r /\ Adding(q)
    BY <1>0, <1>1, <1>2, <1>3, <1>4, <1>5, <2>2, LoadedFrame DEF MInv, TypeOK
  <2>3. CASE q # r /\ ~Adding(q)
    BY <1>0, <1>2, <2>3 DEF TypeOK, Loaded, Adding
  <2> QED
    BY <2>1, <2>2, <2>3
<1>10. ASSUME NEW c \in Conv PROVE Senders(c)' /\ Covered(c)'
  BY <1>0, <1>1, <1>2, SendersFrame, CoveredFrame DEF MInv, TypeOK
<1> QED
  BY <1>0, <1>2, <1>7, <1>8, <1>9, <1>10 DEF MInv

LEMMA TouchRemembers == ASSUME MInv, Inv', NEW r \in Req, Touch(r) PROVE MInv'
<1>0. Inv /\ TypeOK /\ TypeOK' /\ DOMAIN socket \subseteq Req
  BY SocketsFit DEF MInv, Inv, TypeOK
<1>1. /\ UNCHANGED <<socket, projects, exists, row, msgs, job, base, own, ahead>>
      /\ pc[r] = "touch" /\ pc' = [pc EXCEPT ![r] = "think"] /\ Chatting(r)
      /\ \A q \in Req \ {r} : seen'[q] = seen[q]
  BY <1>0 DEF Touch, ReadHistory, Goto, TypeOK, Inv, JobFits, Adding, tables
<1>3. ASSUME NEW q \in Req PROVE Stamped(q)' /\ Unread(q)'
  BY <1>0, <1>1 DEF MInv, TypeOK, Stamped, Unread, Chatting
<1>4. ASSUME NEW q \in Req PROVE Loaded(q)'
  <2>1. Loaded(q) /\ (Adding(q)' => Adding(q))
    BY <1>0, <1>1 DEF MInv, TypeOK, Adding
  <2> QED
    BY <1>1, <2>1, LoadedFrame
<1>5. ASSUME NEW c \in Conv PROVE Senders(c)' /\ Covered(c)'
  BY <1>0, <1>1, SendersFrame DEF MInv, TypeOK, Covered, Folded, Later
<1> QED
  BY <1>1, <1>3, <1>4, <1>5 DEF MInv

LEMMA ReplyRemembers == ASSUME MInv, Inv', NEW r \in Req, Reply(r) PROVE MInv'
<1>0. Inv /\ TypeOK /\ TypeOK' /\ DOMAIN socket \subseteq Req
  BY SocketsFit DEF MInv, Inv, TypeOK
<1>1. /\ UNCHANGED <<socket, projects, exists, row, msgs, job, base, seen, ahead>>
      /\ pc[r] = "think" /\ pc' = [pc EXCEPT ![r] = "commit"]
      /\ job[r].conv \in Conv /\ Chatting(r) /\ Add(r, "assistant")
  BY <1>0 DEF Reply, Goto, TypeOK, Inv, JobFits, Adding, tables
<1>2. PICK x \in Message : x.at = clock + 1 /\ own' = [own EXCEPT ![r] = @ \cup {x}]
  BY <1>0, <1>1, AddIs
<1>3. ASSUME NEW q \in Req PROVE Stamped(q)'
  <2>1. CASE q = r
    <3>1. own'[r] = own[r] \cup {x} /\ Stamped(r)
      BY <1>0, <1>2, <2>1 DEF TypeOK, MInv
    <3> QED
      <4>1. \A m \in msgs[job[r].conv] : m.at < x.at
        BY <1>0, <1>1, <1>2, StampIsLatest
      <4> QED
        BY <1>0, <1>1, <2>1, <3>1, <4>1 DEF Stamped
  <2>2. CASE q # r
    BY <1>0, <1>1, <1>2, <2>2 DEF MInv, TypeOK, Stamped
  <2> QED
    BY <2>1, <2>2
<1>4. ASSUME NEW q \in Req PROVE Unread(q)'
  BY <1>0, <1>1 DEF MInv, TypeOK, Unread, Chatting
<1>5. ASSUME NEW q \in Req PROVE Loaded(q)'
  <2>1. Loaded(q) /\ (Adding(q)' => Adding(q))
    BY <1>0, <1>1 DEF MInv, TypeOK, Adding
  <2> QED
    BY <1>1, <2>1, LoadedFrame
<1>6. ASSUME NEW c \in Conv PROVE Senders(c)' /\ Covered(c)'
  BY <1>0, <1>1, SendersFrame DEF MInv, TypeOK, Covered, Folded, Later
<1> QED
  BY <1>1, <1>3, <1>4, <1>5, <1>6 DEF MInv

LEMMA DeleteRemembers == ASSUME MInv, Inv', NEW r \in Req, Delete(r) PROVE MInv'
<1> DEFINE d == job[r].conv
<1>0. Inv /\ TypeOK /\ TypeOK' /\ DOMAIN socket \subseteq Req
  BY SocketsFit DEF MInv, Inv, TypeOK
<1>1. /\ UNCHANGED <<socket, projects, row, clock, job, base, own, seen, ahead>>
      /\ pc[r] = "write" /\ pc' = [pc EXCEPT ![r] = "done"] /\ job[r].kind = "delete"
      /\ d \in Conv /\ exists' = [exists EXCEPT ![d] = "gone"]
      /\ msgs' = [msgs EXCEPT ![d] = {}]
  BY <1>0 DEF Delete, Goto, TypeOK, Inv, JobFits, locals
<1>3. ASSUME NEW q \in Req PROVE Stamped(q)'
  <2>1. /\ \A c \in Conv : msgs'[c] \subseteq msgs[c]
        /\ msgs'[job[q].conv] \subseteq msgs[job[q].conv] \/ own[q] = {}
    <3>1. own[q] = {} \/ job[q].conv \in Conv
      BY <1>0 DEF Inv, JobFits, Exchange
    <3> QED
      BY <1>0, <1>1, <3>1 DEF TypeOK
  <2> QED
    BY <1>1, <2>1 DEF MInv, Stamped
<1>4. ASSUME NEW q \in Req PROVE Unread(q)'
  BY <1>0, <1>1 DEF MInv, TypeOK, Unread, Chatting
<1>5. ASSUME NEW q \in Req PROVE Loaded(q)'
  <2>1. CASE Adding(q)' /\ job[q].conv # d
    BY <1>0, <1>1, <2>1, LoadedFrame DEF MInv, TypeOK, Adding, Inv, JobFits
  <2>2. CASE ~Adding(q)' \/ job[q].conv = d
    BY <1>0, <1>1, <2>2 DEF TypeOK, Loaded
  <2> QED
    BY <2>1, <2>2
<1>6. ASSUME NEW c \in Conv PROVE Senders(c)' /\ Covered(c)'
  <2>1. CASE c = d
    BY <1>0, <1>1, <2>1, FS_EmptySet DEF TypeOK, Senders, Covered
  <2>2. CASE c # d
    BY <1>0, <1>1, <2>2, SendersFrame, CoveredFrame DEF MInv, TypeOK
  <2> QED
    BY <2>1, <2>2
<1> QED
  BY <1>1, <1>3, <1>4, <1>5, <1>6 DEF MInv

-----------------------------------------------------------------------------
(* The commit *)

\* A request that loaded the summary b, asked q and got a, when the history was A:
\* its question is in, its answer is the last, and the rest fits the window.
Exchanged(A, b, q, a) ==
    /\ A \in SUBSET Message /\ IsFiniteSet(A) /\ b \in SUBSET A
    /\ q \in Message /\ a \in Message
    /\ \A m \in A \cup {q} : m.at < a.at
    /\ \A m \in (A \cup {q}) \ b : Cardinality(Later(A \cup {q}, m)) < Within + Recent

\* Then what it folds, of what it read, is everything that is not recent.
LEMMA SummaryCovers ==
    ASSUME NEW A, NEW b, NEW q, NEW a, Exchanged(A, b, q, a),
           NEW B, B = A \cup {q, a},
           NEW S, S = LastN(A \cup {q}, Within + Recent) \cup {a}
    PROVE  /\ Summarize(S, b) \subseteq B
           /\ \A m \in Summarize(S, b) \ b :
                Cardinality(Later(B, m)) >= Recent /\ Cardinality(B) > Trigger
           /\ \A m \in B \ Summarize(S, b) :
                Cardinality(Later(B, m)) < Recent \/ Cardinality(B) <= Trigger
<1> DEFINE D == A \cup {q}
           H == Within + Recent
           W == LastN(D, H)
<1>0. /\ A \in SUBSET Message /\ IsFiniteSet(A) /\ b \in SUBSET A
      /\ q \in Message /\ a \in Message
      /\ \A m \in D : m.at < a.at
      /\ \A m \in D \ b : Cardinality(Later(D, m)) < H
  BY DEF Exchanged
<1>1. /\ H \in Nat /\ H > Trigger /\ Recent \in Nat /\ Trigger \in Nat
      /\ IsFiniteSet(D) /\ D \in SUBSET Message /\ B = D \cup {a}
      /\ IsFiniteSet(B) /\ B \in SUBSET Message
  <2>1. IsFiniteSet(D)
    BY <1>0, FS_AddElement
  <2>2. IsFiniteSet(D \cup {a}) /\ B = D \cup {a}
    BY <2>1, FS_AddElement
  <2>3. Recent \in Nat \ {0} /\ Trigger \in Nat
    BY MemoryAssumption
  <2>4. H \in Nat /\ H > Trigger
    BY <2>3, WithinIs
  <2>5. D \in SUBSET Message /\ B \in SUBSET Message
    BY <1>0
  <2> QED
    BY <2>1, <2>2, <2>3, <2>4, <2>5
<1>2. W \subseteq D /\ D \ b \subseteq W
  BY <1>0, LastNIs, WindowsAreSubsets
<1>3. S = W \cup {a} /\ S \subseteq B
  BY <1>1, <1>2
<1>4. /\ IsFiniteSet(S) /\ IsFiniteSet(W)
      /\ Cardinality(S) \in Nat /\ Cardinality(B) \in Nat /\ Cardinality(W) \in Nat
      /\ Cardinality(S) <= Cardinality(B) /\ Cardinality(W) <= Cardinality(S)
  BY <1>1, <1>3, Fewer
<1>5. ASSUME NEW m \in S PROVE Later(B, m) = Later(S, m)
  <2> SUFFICES ASSUME NEW x \in B, x.at > m.at PROVE x \in S
    BY <1>3 DEF Later
  <2>1. CASE x = a
    BY <1>3, <2>1
  <2>2. CASE x # a
    <3>1. x \in D /\ m \in W
      <4>1. m # a
        BY <1>0, <1>1, <2>2 DEF Message
      <4> QED
        BY <1>1, <1>3, <2>2, <4>1
    <3>2. Later(D, x) \subseteq Later(D, m)
      <4>1. x.at \in Nat /\ m.at \in Nat /\ \A y \in D : y.at \in Nat
        BY <1>1, <1>2, <3>1 DEF Message
      <4>2. \A y \in D : y.at > x.at => y.at > m.at
        BY <4>1
      <4> QED
        BY <4>2 DEF Later
    <3>3. IsFiniteSet(Later(D, m))
      BY <1>1, LaterMonotone
    <3>4. /\ Cardinality(Later(D, x)) <= Cardinality(Later(D, m))
          /\ Cardinality(Later(D, x)) \in Nat /\ Cardinality(Later(D, m)) \in Nat
      BY <3>2, <3>3, Fewer
    <3>5. Cardinality(Later(D, m)) < H
      BY <3>1, LastNIs
    <3>6. x \in W
      BY <1>1, <3>1, <3>4, <3>5, LastNIs
    <3> QED
      BY <1>3, <3>6
  <2> QED
    BY <2>1, <2>2
<1>6. CASE Cardinality(S) <= Trigger
  <2>1. Summarize(S, b) = b
    BY <1>6 DEF Summarize
  <2>2. W = D
    BY <1>1, <1>4, <1>6, LastNKeeps
  <2>3. Cardinality(B) <= Trigger
    BY <1>1, <1>3, <1>6, <2>2
  <2> QED
    BY <1>0, <2>1, <2>3
<1>7. CASE ~(Cardinality(S) <= Trigger)
  <2>1. Summarize(S, b) = b \cup (S \ LastN(S, Recent))
    BY <1>7 DEF Summarize
  <2>2. \A m \in S : Cardinality(Later(S, m)) \in Nat /\ Later(B, m) = Later(S, m)
    BY <1>4, <1>5, LaterMonotone
  <2>3. \A m \in Summarize(S, b) \ b :
          Cardinality(Later(B, m)) >= Recent /\ Cardinality(B) > Trigger
    <3> SUFFICES ASSUME NEW m \in S \ LastN(S, Recent)
                 PROVE  Cardinality(Later(B, m)) >= Recent /\ Cardinality(B) > Trigger
      BY <2>1
    <3>1. ~(Cardinality(Later(S, m)) < Recent)
      BY LastNIs
    <3>2. Cardinality(B) > Trigger
      BY <1>1, <1>4, <1>7
    <3>3. Cardinality(Later(S, m)) \in Nat /\ Later(B, m) = Later(S, m) /\ Recent \in Nat
      BY <1>1, <2>2
    <3> HIDE DEF H, W, D
    <3>4. Cardinality(Later(S, m)) >= Recent
      BY <3>1, <3>3
    <3> QED
      BY <3>2, <3>3, <3>4
  <2>4. \A m \in B \ Summarize(S, b) : Cardinality(Later(B, m)) < Recent
    <3> SUFFICES ASSUME NEW m \in B, m \notin Summarize(S, b)
                 PROVE  Cardinality(Later(B, m)) < Recent
      OBVIOUS
    <3>1. m \in S
      BY <1>0, <1>1, <1>2, <1>3, <2>1
    <3>2. m \in LastN(S, Recent)
      BY <2>1, <3>1
    <3> QED
      BY <2>2, <3>1, <3>2, LastNIs
  <2> QED
    BY <1>0, <1>3, <2>1, <2>3, <2>4
<1> QED
  BY <1>6, <1>7

\* Messages added to a conversation keep what was folded folded.
LEMMA FoldedGrows ==
    ASSUME NEW S, NEW T, IsFiniteSet(T), S \subseteq T, NEW s, Folded(S, s)
    PROVE  Folded(T, s)
<1>1. Cardinality(S) \in Nat /\ Cardinality(T) \in Nat /\ Cardinality(S) <= Cardinality(T)
  BY Fewer
<1>2. ASSUME NEW m \in s
      PROVE  /\ Cardinality(Later(S, m)) \in Nat /\ Cardinality(Later(T, m)) \in Nat
             /\ Cardinality(Later(S, m)) <= Cardinality(Later(T, m))
  BY LaterMonotone
<1>3. Recent \in Nat /\ Trigger \in Nat
  BY MemoryAssumption
<1> QED
  BY <1>1, <1>2, <1>3 DEF Folded

\* What a chat commits.
CommitsExchange(r, q, a) ==
    LET d == job[r].conv IN
    /\ Chatting(r) /\ d \in Conv
    /\ q \in Message /\ q.by = r /\ q.role = "user"
    /\ a \in Message /\ a.by = r /\ a.role = "assistant" /\ q.at < a.at
    /\ own[r] = {q, a}
    /\ msgs' = [msgs EXCEPT ![d] = @ \cup {q, a}]
    /\ exists[d] \in {"live", "reserved"}
    /\ seen[r] = History(msgs[d] \cup {q})

LEMMA CommitIs ==
    ASSUME Inv, NEW r \in Req, Commit(r)
    PROVE  /\ UNCHANGED <<socket, projects, clock, job, base, seen>>
           /\ pc[r] = "commit" /\ pc' = [pc EXCEPT ![r] = "done"] /\ r \in DOMAIN socket
           /\ job[r].conv \in Conv /\ exists' = [exists EXCEPT ![job[r].conv] = "live"]
           /\ own' = [own EXCEPT ![r] = {}]
           /\ msgs' = [msgs EXCEPT ![job[r].conv] = @ \cup own[r]]
           /\ \A c \in Conv \ {job[r].conv} : row'[c] = row[c]
           /\ LET d == job[r].conv
                  s == Summarize(seen[r] \cup {m \in own[r] : m.role = "assistant"},
                                 base[r].summary) IN
              row'[d].summary = IF exists[d] = "live" /\ s = base[r].summary
                                  THEN row[d].summary ELSE s
<1> DEFINE d == job[r].conv
           s == Summarize(seen[r] \cup {m \in own[r] : m.role = "assistant"},
                          base[r].summary)
<1>1. TypeOK /\ JobFits(r) /\ pc[r] = "commit" /\ d \in Conv
  BY DEF Inv, JobFits, Adding, Commit
<1>2. PICK v : row' = [row EXCEPT ![d] = Written(r, d, v, s)]
  BY DEF Commit
<1>3. row[d] \in Row /\ base[r] \in Row
  BY <1>1 DEF TypeOK
<1> HIDE DEF s
<1>4. Written(r, d, v, s).summary =
        IF exists[d] = "live" /\ s = base[r].summary THEN row[d].summary ELSE s
  BY <1>1, <1>3, WrittenFields
<1>5. row'[d] = Written(r, d, v, s) /\ \A c \in Conv \ {d} : row'[c] = row[c]
  BY <1>1, <1>2 DEF TypeOK
<1> QED
  BY <1>1, <1>4, <1>5 DEF Commit, Goto, JobFits, s

\* It is counted by those that have yet to write the row, and by no other.
LEMMA CommitPasses ==
    ASSUME Inv, NEW r \in Req, Commit(r)
    PROVE  /\ ahead'[r] = {}
           /\ \A q \in Req \ {r} :
                \/ q \in Waiting(job[r].conv) /\ ahead'[q] = ahead[q] \cup {r}
                \/ q \notin Waiting(job[r].conv) /\ ahead'[q] = ahead[q]
<1> DEFINE d == job[r].conv
           grown == [q \in Req |-> ahead[q] \cup IF q \in Waiting(d) THEN {r} ELSE {}]
<1>1. ahead' = [grown EXCEPT ![r] = {}]
  BY DEF Commit
<1>2. \A q \in Req : /\ q \in Waiting(d) => grown[q] = ahead[q] \cup {r}
                     /\ q \notin Waiting(d) => grown[q] = ahead[q]
  OBVIOUS
<1>3. ahead'[r] = {} /\ \A q \in Req \ {r} : ahead'[q] = grown[q]
  BY <1>1
<1> HIDE DEF grown
<1> QED
  BY <1>2, <1>3

LEMMA ChatCommits ==
    ASSUME Inv, NEW r \in Req, Commit(r), Chatting(r)
    PROVE  \E q, a \in Message :
             /\ CommitsExchange(r, q, a)
             /\ {m \in own[r] : m.role = "assistant"} = {a}
<1>1. pc[r] = "commit" /\ Exchange(r) /\ Current(r) /\ Holds(r)
  BY DEF Inv, Commit
<1>2. PICK q \in Question(r), a \in Answer(r) : q.at < a.at /\ own[r] = {q, a}
  BY <1>1 DEF Exchange
<1>3. /\ q \in Message /\ q.by = r /\ q.role = "user"
      /\ a \in Message /\ a.by = r /\ a.role = "assistant"
  BY DEF Question, Answer
<1>4. {m \in own[r] : m.role = "user"} = {q} /\ {m \in own[r] : m.role = "assistant"} = {a}
  BY <1>2, <1>3
<1>5. CommitsExchange(r, q, a)
  <2> DEFINE d == job[r].conv
  <2>1. d \in Conv /\ msgs' = [msgs EXCEPT ![d] = @ \cup own[r]]
    BY CommitIs
  <2>2. msgs' = [msgs EXCEPT ![d] = @ \cup {q, a}]
    BY <1>2, <2>1
  <2>3. exists[d] \in {"live", "reserved"}
    BY <1>1 DEF Holds
  <2>4. seen[r] = History(msgs[d] \cup {q})
    BY <1>1, <1>4 DEF Current
  <2> QED
    BY <1>2, <1>3, <2>1, <2>2, <2>3, <2>4 DEF CommitsExchange
<1> QED
  BY <1>3, <1>4, <1>5

\* Another request that goes on in the conversation has yet to write its row, and
\* counts this one among those ahead of it.
LEMMA CommitIsAhead ==
    ASSUME Inv, NEW r \in Req, Commit(r), NEW q \in Req \ {r}, Adding(q),
           job[q].conv = job[r].conv
    PROVE  ahead'[q] = ahead[q] \cup {r} /\ pc[q] \in {"insert", "touch"}
<1>1. pc[r] = "commit" /\ pc[q] \in {"insert", "touch", "think", "commit"}
  BY DEF Commit, Adding
<1>2. pc[q] \in {"insert", "touch"}
  BY <1>1 DEF Inv, Holds
<1> QED
  BY <1>2, CommitPasses DEF Waiting

LEMMA CommitStamps == ASSUME MInv, Inv', NEW r \in Req, Commit(r), NEW q \in Req
                      PROVE  Stamped(q)'
<1> DEFINE d == job[r].conv
<1>0. Inv /\ TypeOK /\ TypeOK' /\ q \in Req /\ Stamped(q) /\ Exchange(q) /\ JobFits(q)
  BY SocketsFit DEF MInv, Inv, TypeOK
<1>c. /\ UNCHANGED <<socket, job>> /\ pc[r] = "commit" /\ r \in DOMAIN socket /\ d \in Conv
      /\ own' = [own EXCEPT ![r] = {}] /\ msgs' = [msgs EXCEPT ![d] = @ \cup own[r]]
  BY <1>0, CommitIs
<1>a. q # r => ahead[q] \subseteq ahead'[q]
  <2>1. q # r => ahead'[q] = ahead[q] \/ ahead'[q] = ahead[q] \cup {r}
    BY <1>0, CommitPasses
  <2> QED
    BY <2>1
<1>1. CASE own'[q] = {}
  BY <1>1 DEF Stamped
<1>2. CASE own'[q] # {}
  <2>1. q # r /\ own'[q] = own[q] /\ Adding(q) /\ job[q].conv \in Conv
    BY <1>0, <1>c, <1>2 DEF Exchange, TypeOK, JobFits
  <2>2. job[q].conv = d => r \in ahead'[q]
    BY <1>0, <2>1, CommitIsAhead
  <2>3. \A m \in own[r] : m.by = r
    <3>1. CASE Chatting(r)
      <4>1. PICK x, y \in Message : CommitsExchange(r, x, y)
        BY <1>0, <3>1, ChatCommits
      <4> QED
        BY <4>1 DEF CommitsExchange
    <3>2. CASE ~Chatting(r)
      BY <1>0, <3>2 DEF Inv, Exchange
    <3> QED
      BY <3>1, <3>2
  <2>4. \A c \in Conv : \A m \in msgs'[c] : m \in msgs[c] \/ m.by = r
    BY <1>0, <1>c, <2>3 DEF TypeOK
  <2>5. \A x \in own[q] : x.role = "assistant" => msgs'[job[q].conv] = msgs[job[q].conv]
    <3>1. \A x \in own[q] : x.role = "assistant" => pc[q] = "commit"
      BY <1>0, <2>1 DEF Exchange, Adding, Question
    <3>2. pc[q] = "commit" => job[q].conv # d
      BY <1>0, <1>c, <2>1 DEF Inv, Holds
    <3> QED
      BY <1>0, <1>c, <2>1, <3>1, <3>2 DEF TypeOK
  <2>6. \A x \in own[q] : \A m \in msgs'[job[q].conv] : m.by \notin ahead'[q] => m.at < x.at
    <3>1. CASE job[q].conv = d
      BY <1>0, <1>a, <2>1, <2>2, <2>4, <3>1 DEF Stamped
    <3>2. CASE job[q].conv # d
      BY <1>0, <1>a, <1>c, <2>1, <3>2 DEF Stamped, TypeOK
    <3> QED
      BY <3>1, <3>2
  <2>7. \A x \in own[q] : x.role = "assistant" => \A m \in msgs'[job[q].conv] : m.at < x.at
    BY <1>0, <2>5 DEF Stamped
  <2> QED
    BY <1>c, <2>1, <2>6, <2>7 DEF Stamped
<1> QED
  BY <1>1, <1>2

LEMMA CommitSends == ASSUME MInv, Inv', NEW r \in Req, Commit(r), NEW c \in Conv
                     PROVE  Senders(c)'
<1> DEFINE d == job[r].conv
<1>0. Inv /\ TypeOK /\ TypeOK' /\ Senders(c)
  BY DEF MInv, Inv
<1>c. /\ pc[r] = "commit" /\ pc' = [pc EXCEPT ![r] = "done"] /\ d \in Conv
      /\ msgs' = [msgs EXCEPT ![d] = @ \cup own[r]]
  BY <1>0, CommitIs
<1>1. \A q \in Req : pc[q] = "done" => pc'[q] = "done"
  BY <1>0, <1>c DEF TypeOK
<1>2. CASE c # d \/ own[r] = {}
  <2>1. msgs'[c] = msgs[c]
    BY <1>0, <1>c, <1>2 DEF TypeOK
  <2> QED
    BY <1>0, <1>1, <2>1, SendersFrame
<1>3. CASE c = d /\ own[r] # {}
  <2>1. PICK q, a \in Message : CommitsExchange(r, q, a)
    <3>1. Chatting(r)
      BY <1>0, <1>3 DEF Inv, Exchange
    <3> QED
      BY <1>0, <3>1, ChatCommits
  <2>2. msgs'[c] = msgs[c] \cup {q, a}
    BY <1>0, <1>c, <1>3, <2>1 DEF TypeOK, CommitsExchange
  <2>3. IsFiniteSet(msgs'[c])
    <3>1. msgs'[c] = (msgs[c] \cup {q}) \cup {a}
      BY <2>2
    <3>2. IsFiniteSet(msgs[c] \cup {q})
      BY <1>0, FS_AddElement DEF Senders
    <3> QED
      BY <3>1, <3>2, FS_AddElement
  <2>4. \A m \in msgs[c] : m.by \in Req \cup {None} /\ m.by # r
    BY <1>0, <1>c, NamesAssumption DEF TypeOK, Message, Senders
  <2>5. q.by = r /\ q.role = "user" /\ a.by = r /\ a.role = "assistant"
    BY <2>1 DEF CommitsExchange
  <2>6. \A m \in msgs'[c] : m.by # None => pc'[m.by] = "done"
    <3>1. \A m \in msgs[c] : m.by # None => pc'[m.by] = "done"
      BY <1>0, <1>1, <2>4 DEF Senders
    <3>2. pc'[r] = "done"
      BY <1>0, <1>c DEF TypeOK
    <3> QED
      BY <2>2, <2>5, <3>1, <3>2
  <2>7. \A m, n \in msgs'[c] : m.by = n.by /\ m.role = n.role /\ m.by # None => m = n
    BY <1>0, <2>2, <2>4, <2>5 DEF Senders
  <2> QED
    BY <2>3, <2>6, <2>7 DEF Senders
<1> QED
  BY <1>2, <1>3

\* Of what was not folded when the request loaded the conversation, nothing has left
\* the window it reads: those ahead add fewer than Recent messages meanwhile.
LEMMA ReadsAll ==
    ASSUME FewAhead, TypeOK, NEW r \in Req, IsFiniteSet(ahead[r]),
           NEW d \in Conv, d = job[r].conv, Senders(d),
           NEW b, Folded(msgs[d], b),
           \A m \in msgs[d] \ b : Cardinality(Later(msgs[d], m) \ ByRivals(r, d)) < Within,
           NEW q \in Message, q \in own[r], Stamped(r)
    PROVE  \A m \in (msgs[d] \cup {q}) \ b :
             Cardinality(Later(msgs[d] \cup {q}, m)) < Within + Recent
<1> DEFINE A == msgs[d]
           X == ByRivals(r, d)
<1>0. IsFiniteSet(A) /\ A \in SUBSET Message
  BY DEF Senders, TypeOK
<1>1. IsFiniteSet(X) /\ Cardinality(X) \in Nat /\ Cardinality(X) < Recent
  BY RivalsSayLittle
<1>2. Within \in Nat /\ Recent \in Nat /\ Within > 0
  BY WithinIs, MemoryAssumption
<1>3. ASSUME NEW m \in A \ b PROVE Cardinality(Later(A \cup {q}, m)) < Within + Recent
  <2> DEFINE L == Later(A, m)
  <2>1. IsFiniteSet(L) /\ IsFiniteSet(L \ X) /\ IsFiniteSet(L \cap X)
        /\ Cardinality(L) = Cardinality(L \ X) + Cardinality(L \cap X)
        /\ Cardinality(L) \in Nat /\ Cardinality(L \ X) \in Nat
        /\ Cardinality(L \cap X) <= Cardinality(X) /\ Cardinality(L \cap X) \in Nat
    <3>1. IsFiniteSet(L) /\ Cardinality(L) \in Nat
      BY <1>0, LaterMonotone
    <3>2. IsFiniteSet(L \ X) /\ Cardinality(L \ X) = Cardinality(L) - Cardinality(L \cap X)
      BY <3>1, FS_Difference
    <3>3. /\ IsFiniteSet(L \cap X) /\ Cardinality(L \cap X) \in Nat
          /\ Cardinality(L \cap X) <= Cardinality(X)
      BY <1>1, Fewer
    <3>4. Cardinality(L \ X) \in Nat
      BY <3>2, FS_CardinalityType
    <3> HIDE DEF L, X
    <3> QED
      BY <3>1, <3>2, <3>3, <3>4
  <2>2. Cardinality(L \ X) < Within
    BY <1>3
  <2>3. Later(A \cup {q}, m) \subseteq L \cup {q}
    BY DEF Later
  <2> HIDE DEF L
  <2>4. IsFiniteSet(L \cup {q}) /\ Cardinality(L \cup {q}) <= Cardinality(L) + 1
    <3>1. /\ IsFiniteSet(L \cup {q})
          /\ Cardinality(L \cup {q}) = IF q \in L THEN Cardinality(L) ELSE Cardinality(L) + 1
      BY <2>1, FS_AddElement
    <3>2. Cardinality(L) \in Nat
      BY <2>1
    <3> QED
      BY <3>1, <3>2
  <2>5. /\ Cardinality(Later(A \cup {q}, m)) <= Cardinality(L \cup {q})
        /\ Cardinality(Later(A \cup {q}, m)) \in Nat /\ Cardinality(L \cup {q}) \in Nat
    BY <2>3, <2>4, Fewer
  <2> HIDE DEF X, A
  <2> QED
    BY <1>1, <1>2, <2>1, <2>2, <2>4, <2>5
<1>4. Cardinality(Later(A \cup {q}, q)) < Within + Recent
  <2>1. Later(A \cup {q}, q) \subseteq X
    BY <1>0 DEF Later, Stamped, ByRivals, Message
  <2>2. Cardinality(Later(A \cup {q}, q)) \in Nat
        /\ Cardinality(Later(A \cup {q}, q)) <= Cardinality(X)
    BY <1>1, <2>1, Fewer
  <2> HIDE DEF X, A
  <2> QED
    BY <1>1, <1>2, <2>2
<1> QED
  BY <1>3, <1>4

LEMMA CommitCovers == ASSUME MInv, FewAhead, Inv', NEW r \in Req, Commit(r), NEW c \in Conv
                      PROVE  Covered(c)'
<1> DEFINE d == job[r].conv
           A == msgs[d]
           b == base[r].summary
           T == seen[r] \cup {m \in own[r] : m.role = "assistant"}
           s == Summarize(T, b)
<1>0. Inv /\ TypeOK /\ TypeOK' /\ Covered(c) /\ Senders(c)'
  BY CommitSends DEF MInv, Inv
<1>c. /\ UNCHANGED <<socket, projects, clock, job, base, seen>>
      /\ pc[r] = "commit" /\ r \in DOMAIN socket
      /\ d \in Conv /\ exists' = [exists EXCEPT ![d] = "live"]
      /\ msgs' = [msgs EXCEPT ![d] = @ \cup own[r]]
      /\ \A k \in Conv \ {d} : row'[k] = row[k]
      /\ row'[d].summary = IF exists[d] = "live" /\ s = b THEN row[d].summary ELSE s
  BY <1>0, CommitIs
<1>1. CASE c # d
  BY <1>0, <1>c, <1>1, CoveredFrame DEF TypeOK
<1>2. CASE c = d /\ ~WindowFits
  BY <1>2 DEF Covered
<1>3. CASE c = d /\ WindowFits
  <2>0. /\ IsFiniteSet(A) /\ A \in SUBSET Message /\ Senders(d) /\ Stamped(r) /\ Unread(r)
        /\ exists[d] \in {"live", "reserved"} /\ Adding(r) /\ msgs'[d] = A \cup own[r]
        /\ IsFiniteSet(msgs'[d])
    BY SMTT(30), <1>0, <1>c, <1>3 DEF MInv, Inv, Holds, Adding, TypeOK, Senders
  <2>1. /\ Folded(msgs[d], b)
        /\ \A m \in A \ b : Cardinality(Later(A, m) \ ByRivals(r, d)) < Within
    BY <1>c, <1>3, <2>0 DEF MInv, Loaded
  <2>2. /\ s \subseteq msgs'[d]
        /\ \A m \in s \ b : /\ Cardinality(Later(msgs'[d], m)) >= Recent
                            /\ Cardinality(msgs'[d]) > Trigger
        /\ \A m \in msgs'[d] \ s : \/ Cardinality(Later(msgs'[d], m)) < Recent
                                   \/ Cardinality(msgs'[d]) <= Trigger
    <3>1. CASE ~Chatting(r)
      <4>1. own[r] = {} /\ seen[r] = {} /\ exists[d] = "reserved"
        BY <1>0, <2>0, <3>1 DEF Inv, Exchange, Unread, JobFits, Reserves, Adding
      <4>2. A = {} /\ T = {}
        BY <1>0, <1>c, <4>1 DEF Inv, Rooted
      <4>3. s = b /\ b = {}
        BY <2>1, <4>2, FS_EmptySet, MemoryAssumption DEF Summarize, Folded
      <4> QED
        BY <2>0, <4>1, <4>2, <4>3
    <3>2. CASE Chatting(r)
      <4>1. PICK q, a \in Message :
              CommitsExchange(r, q, a) /\ {m \in own[r] : m.role = "assistant"} = {a}
        BY <1>0, <3>2, ChatCommits
      <4> DEFINE D == A \cup {q}
      <4>2. /\ q \in Message /\ a \in Message /\ q.at < a.at /\ own[r] = {q, a}
            /\ q.role = "user" /\ a.role = "assistant" /\ seen[r] = History(D)
        BY <4>1 DEF CommitsExchange
      <4>3. \A m \in D : m.at < a.at
        BY <2>0, <4>2 DEF Stamped
      <4>4. HistoryLimit = Within + Recent
        BY <1>3, HistoryLimitIs
      <4>5. msgs'[d] = A \cup {q, a} /\ T = LastN(D, Within + Recent) \cup {a}
        BY <2>0, <4>1, <4>2, <4>4 DEF History
      <4>6. \A m \in D \ b : Cardinality(Later(D, m)) < Within + Recent
        BY <1>0, <1>c, <1>3, <2>0, <2>1, <4>2, ReadsAll DEF MInv
      <4>7. b \in SUBSET A
        BY <2>1 DEF Folded
      <4> HIDE DEF A, b, T
      <4> QED
        <5> DEFINE B == msgs'[d]
        <5>1. B = A \cup {q, a} /\ T = LastN(D, Within + Recent) \cup {a}
          BY <4>5
        <5> HIDE DEF B
        <5>2. /\ Summarize(T, b) \subseteq B
              /\ \A m \in Summarize(T, b) \ b :
                   Cardinality(Later(B, m)) >= Recent /\ Cardinality(B) > Trigger
              /\ \A m \in B \ Summarize(T, b) :
                   Cardinality(Later(B, m)) < Recent \/ Cardinality(B) <= Trigger
          <6>1. Exchanged(A, b, q, a)
            BY <2>0, <4>2, <4>3, <4>6, <4>7 DEF Exchanged
          <6> HIDE DEF D
          <6> QED
            BY <5>1, <6>1, SummaryCovers DEF D
        <5> QED
          BY <5>2 DEF B
    <3> QED
      BY <3>1, <3>2
  <2>3. Folded(msgs'[d], s)
    <3>1. Folded(msgs'[d], b)
      BY <2>0, <2>1, FoldedGrows
    <3> QED
      BY <2>2, <3>1 DEF Folded
  <2> HIDE DEF s, T, b
  <2>4. CASE row'[d].summary = s
    BY <1>3, <2>2, <2>3, <2>4 DEF Covered
  <2>5. CASE row'[d].summary # s
    <3>1. exists[d] = "live" /\ s = b /\ row'[d].summary = row[d].summary
      BY <1>c, <2>5
    <3>2. Folded(msgs[d], row[d].summary)
      BY <1>0, <1>3, <3>1 DEF Covered
    <3>3. b \cap A \subseteq row[d].summary
      <4>1. ASSUME NEW m \in b PROVE m \in row[d].summary
        <5>1. m \in A /\ Cardinality(Later(A, m)) >= Recent /\ Cardinality(A) > Trigger
          BY <2>1 DEF Folded
        <5>2. Cardinality(Later(A, m)) \in Nat /\ Cardinality(A) \in Nat
          BY <2>0, <5>1, LaterFewer
        <5>3. m \notin row[d].summary =>
                Cardinality(Later(A, m)) < Recent \/ Cardinality(A) <= Trigger
          BY <1>0, <1>3, <3>1, <5>1 DEF Covered
        <5> QED
          BY <5>1, <5>2, <5>3, MemoryAssumption
      <4> QED
        BY <4>1
    <3>4. s \subseteq row[d].summary
      BY <2>1, <3>1, <3>3 DEF Folded
    <3>5. Folded(msgs'[d], row[d].summary)
      BY <2>0, <3>2, FoldedGrows
    <3> QED
      BY <1>3, <2>2, <3>1, <3>4, <3>5 DEF Covered
  <2> QED
    BY <2>4, <2>5
<1> QED
  BY <1>1, <1>2, <1>3

LEMMA CommitLoads == ASSUME MInv, FewAhead, Inv', NEW r \in Req, Commit(r), NEW q \in Req
                     PROVE  Loaded(q)'
<1> DEFINE d == job[r].conv
           A == msgs[d]
           b == base[q].summary
<1>0. /\ Inv /\ TypeOK /\ TypeOK' /\ q \in Req /\ Loaded(q) /\ JobFits(q) /\ Stamped(r)
      /\ Senders(d) /\ Senders(d)'
  BY SocketsFit, CommitSends, CommitIs DEF MInv, Inv, TypeOK
<1>c. /\ UNCHANGED <<socket, job, base>> /\ pc[r] = "commit" /\ pc' = [pc EXCEPT ![r] = "done"]
      /\ r \in DOMAIN socket /\ d \in Conv /\ exists' = [exists EXCEPT ![d] = "live"]
      /\ msgs' = [msgs EXCEPT ![d] = @ \cup own[r]]
  BY <1>0, CommitIs
<1>a. q # r /\ job[q].conv # d => ahead'[q] = ahead[q]
  BY <1>0, CommitPasses DEF Waiting
<1>1. CASE q = r \/ ~Adding(q) \/ ~WindowFits
  BY <1>0, <1>c, <1>1 DEF Loaded, Adding, TypeOK
<1>2. CASE q # r /\ Adding(q) /\ job[q].conv # d
  BY <1>0, <1>a, <1>c, <1>2, LoadedFrame DEF TypeOK, Adding, JobFits
<1>3. CASE q # r /\ Adding(q) /\ WindowFits /\ job[q].conv = d
  <2> DEFINE N == {x \in msgs'[d] : x.by \in ahead'[q]}
  <2>0. /\ A \in SUBSET Message /\ IsFiniteSet(A) /\ IsFiniteSet(msgs'[d])
        /\ msgs'[d] = A \cup own[r] /\ exists[d] \in {"live", "reserved"}
    BY <1>0, <1>c DEF TypeOK, Senders, Inv, Holds
  <2>1. /\ Folded(A, b)
        /\ \A m \in A \ b : Cardinality(Later(A, m) \ ByRivals(q, d)) < Within
    BY <1>0, <1>3, <2>0 DEF Loaded
  <2>2. ahead'[q] = ahead[q] \cup {r}
    BY <1>0, <1>3, CommitIsAhead
  <2>3. Folded(msgs'[d], b)
    BY <2>0, <2>1, FoldedGrows
  <2>4. \A m \in msgs'[d] \ b : Cardinality(Later(msgs'[d], m) \ N) < Within
    <3>1. CASE own[r] = {}
      <4>1. msgs'[d] = A
        BY <2>0, <3>1
      <4> SUFFICES ASSUME NEW m \in A \ b
                   PROVE  Cardinality(Later(A, m) \ N) < Within
        BY <4>1
      <4>2. Later(A, m) \ N \subseteq Later(A, m) \ ByRivals(q, d)
        BY <2>2, <4>1 DEF ByRivals, Later
      <4>3. IsFiniteSet(Later(A, m) \ ByRivals(q, d))
        BY <2>0, LaterMonotone, Fewer
      <4>4. /\ Cardinality(Later(A, m) \ N) \in Nat
            /\ Cardinality(Later(A, m) \ ByRivals(q, d)) \in Nat
            /\ Cardinality(Later(A, m) \ N) <= Cardinality(Later(A, m) \ ByRivals(q, d))
        BY <4>2, <4>3, Fewer
      <4>5. Cardinality(Later(A, m) \ ByRivals(q, d)) < Within
        BY <2>1
      <4> QED
        BY <4>4, <4>5, WithinIs
    <3>2. CASE own[r] # {}
      <4>1. Chatting(r)
        BY <1>0, <3>2 DEF Inv, Exchange
      <4>2. PICK x, y \in Message : CommitsExchange(r, x, y)
        BY <1>0, <4>1, ChatCommits
      <4>3. /\ x \in Message /\ y \in Message /\ own[r] = {x, y} /\ x.by = r /\ y.by = r
            /\ x.at < y.at /\ y.role = "assistant"
        BY <4>2 DEF CommitsExchange
      <4>4. \A m \in A : Later(msgs'[d], m) \ N \subseteq Later(A, m) \ ByRivals(q, d)
        BY <2>0, <2>2, <4>3 DEF Later, ByRivals
      <4>5. \A m \in A \ b : Cardinality(Later(msgs'[d], m) \ N) < Within
        <5> SUFFICES ASSUME NEW m \in A \ b
                     PROVE  Cardinality(Later(msgs'[d], m) \ N) < Within
          OBVIOUS
        <5>1. IsFiniteSet(Later(A, m))
          BY <2>0, LaterMonotone
        <5>2. IsFiniteSet(Later(A, m) \ ByRivals(q, d))
          BY <5>1, Fewer
        <5>3. /\ Cardinality(Later(msgs'[d], m) \ N) \in Nat
              /\ Cardinality(Later(A, m) \ ByRivals(q, d)) \in Nat
              /\ Cardinality(Later(msgs'[d], m) \ N)
                   <= Cardinality(Later(A, m) \ ByRivals(q, d))
          BY <4>4, <5>2, Fewer
        <5>4. Cardinality(Later(A, m) \ ByRivals(q, d)) < Within
          BY <2>1
        <5> QED
          BY <5>3, <5>4, WithinIs
      <4>6. ASSUME NEW m \in own[r]
            PROVE  Cardinality(Later(msgs'[d], m) \ N) < Within
        <5>1. Later(msgs'[d], m) \ N \subseteq ByRivals(r, d)
          <6> SUFFICES ASSUME NEW z \in msgs'[d], z.at > m.at, z.by \notin ahead'[q]
                       PROVE  z \in ByRivals(r, d)
            BY <2>2 DEF Later, ByRivals
          <6>1. z \in A
            BY <2>0, <2>2, <4>3
          <6>2. z.at \in Nat /\ m.at \in Nat
            BY <2>0, <4>3, <6>1 DEF Message
          <6>3. z.by \in ahead[r]
            BY <1>0, <1>c, <6>1, <6>2 DEF Stamped
          <6> QED
            BY <6>1, <6>3 DEF ByRivals
        <5>2. /\ IsFiniteSet(ByRivals(r, d)) /\ Cardinality(ByRivals(r, d)) \in Nat
              /\ Cardinality(ByRivals(r, d)) < Recent
          BY <1>0, <1>c, <1>3, RivalsSayLittle DEF MInv
        <5>3. /\ Cardinality(Later(msgs'[d], m) \ N) \in Nat
              /\ Cardinality(Later(msgs'[d], m) \ N) <= Cardinality(ByRivals(r, d))
          BY <5>1, <5>2, Fewer
        <5> QED
          BY <5>2, <5>3, WithinIs, MemoryAssumption
      <4> QED
        BY <2>0, <4>5, <4>6
    <3> QED
      BY <3>1, <3>2
  <2> QED
    <3>1. base'[q] = base[q] /\ job'[q].conv = d
      BY <1>c, <1>3
    <3>2. ByRivals(q, job[q].conv)' = N
      BY <1>c, <1>3, <2>2 DEF ByRivals
    <3>3. \A m \in msgs'[d] \ b : Cardinality(Later(msgs'[d], m) \ ByRivals(q, job[q].conv)') < Within
      BY <2>4, <3>2
    <3> HIDE DEF N
    <3> QED
      BY <1>0, <1>c, <1>3, <2>3, <3>1, <3>3 DEF Loaded
<1> QED
  BY <1>1, <1>2, <1>3

LEMMA CommitRemembers == ASSUME MInv, FewAhead, Inv', NEW r \in Req, Commit(r) PROVE MInv'
<1>0. Inv /\ TypeOK /\ UNCHANGED socket
  BY CommitIs DEF MInv, Inv
<1>1. ASSUME NEW q \in Req PROVE IsFiniteSet(ahead'[q])
  <2>1. \/ ahead'[q] = {}
        \/ ahead'[q] = ahead[q]
        \/ ahead'[q] = ahead[q] \cup {r}
    BY <1>0, CommitPasses
  <2>2. IsFiniteSet(ahead[q] \cup {r}) /\ IsFiniteSet(ahead[q])
    BY FS_AddElement DEF MInv
  <2> QED
    BY <2>1, <2>2, FS_EmptySet
<1>2. ASSUME NEW q \in Req PROVE Unread(q)'
  <2>1. /\ pc[r] = "commit" /\ pc' = [pc EXCEPT ![r] = "done"] /\ UNCHANGED <<job, seen>>
        /\ Unread(q) /\ q \in Req
    BY <1>0, CommitIs, SocketsFit DEF MInv, TypeOK
  <2> QED
    BY <1>0, <2>1 DEF Unread, Chatting, TypeOK
<1> QED
  BY <1>0, <1>1, <1>2, CommitStamps, CommitSends, CommitCovers, CommitLoads DEF MInv

-----------------------------------------------------------------------------
(* The theorems *)

LEMMA PastIsFinite == \A n \in Nat : IsFiniteSet(PastMessages(n))
<1> SUFFICES ASSUME NEW n \in Nat PROVE IsFiniteSet(PastMessages(n))
  OBVIOUS
<1> DEFINE Past(i) == [by |-> None, at |-> i, chars |-> 1,
                     role |-> IF i % 2 = 1 THEN "user" ELSE "assistant"]
           f == [i \in 1..n |-> Past(i)]
<1>1. PastMessages(n) = {Past(i) : i \in 1..n}
  BY DEF PastMessages
<1> HIDE DEF Past
<1>2. f \in Surjection(1..n, PastMessages(n))
  BY <1>1 DEF Surjection, Range
<1>3. IsFiniteSet(1..n)
  BY FS_Interval
<1> QED
  BY <1>2, <1>3, FS_Surjection

LEMMA MInvInit == Init => MInv
<1> SUFFICES ASSUME Init PROVE MInv
  OBVIOUS
<1>0. Inv /\ TypeOK /\ DOMAIN socket \subseteq Req
  BY InvInit, SocketsFit DEF Inv, TypeOK
<1>1. PICK n \in Pasts, p \in Project \cup {None} :
        /\ row = [c \in Conv |-> IF c # First THEN Blank ELSE
                    [Blank EXCEPT !.project = p, !.summary = Summarize(PastMessages(n), {})]]
        /\ msgs = [c \in Conv |-> IF c = First THEN PastMessages(n) ELSE {}]
  BY Zenon DEF Init
<1> DEFINE P == PastMessages(n)
<1>2. n \in Nat /\ IsFiniteSet(P) /\ P \in SUBSET Message /\ \A m \in P : m.by = None
  BY MemoryAssumption, PastIsFinite, PastFits
<1>3. ASSUME NEW c \in Conv PROVE Senders(c)
  BY <1>1, <1>2, FS_EmptySet DEF Senders
<1>4. ASSUME NEW c \in Conv PROVE Covered(c)
  <2>1. CASE c # First
    BY <2>1 DEF Init, Covered
  <2>2. CASE c = First
    <3>1. msgs[c] = P /\ row[c].summary = Summarize(P, {})
      BY <1>1, <2>2 DEF Blank
    <3>2. \A m \in P : Cardinality(Later(P, m)) \in Nat
      BY <1>2, LaterFewer
    <3>3. Cardinality(P) \in Nat /\ Recent \in Nat /\ Trigger \in Nat
      BY <1>2, FS_CardinalityType, MemoryAssumption
    <3> HIDE DEF P
    <3>4. CASE Cardinality(P) <= Trigger
      BY <3>1, <3>3, <3>4 DEF Covered, Folded, Summarize
    <3>5. CASE ~(Cardinality(P) <= Trigger)
      <4>1. Summarize(P, {}) = P \ LastN(P, Recent)
        BY <3>5 DEF Summarize
      <4>2. Folded(P, P \ LastN(P, Recent))
        BY <3>2, <3>3, <3>5, LastNIs DEF Folded
      <4>3. \A m \in P \ (P \ LastN(P, Recent)) : Cardinality(Later(P, m)) < Recent
        BY LastNIs
      <4> QED
        BY <3>1, <4>1, <4>2, <4>3 DEF Covered
    <3> QED
      BY <3>4, <3>5
  <2> QED
    BY <2>1, <2>2
<1>5. \A r \in Req : Stamped(r) /\ Unread(r) /\ Loaded(r) /\ IsFiniteSet(ahead[r])
  BY <1>0, FS_EmptySet DEF Init, Stamped, Unread, Loaded, Adding
<1> QED
  BY <1>0, <1>3, <1>4, <1>5 DEF MInv

LEMMA MInvStep == MInv /\ FewAhead /\ Inv' /\ [Next]_vars => MInv'
<1> SUFFICES ASSUME MInv, FewAhead, Inv', [Next]_vars PROVE MInv'
  OBVIOUS
<1>0. Inv /\ Inv'
  BY DEF MInv
<1>d. ASSUME NEW r \in Req, Drop(r, "failed"),
             pc[r] \in {"create", "insert", "touch", "think", "commit", "write", "unlink"}
      PROVE  MInv'
  BY <1>0, <1>d, DropMoves, MoveKeeps DEF Answers
<1>p. ASSUME NEW r \in Req,
             \/ Insert(r) \/ RowLoad(r) \/ Rename(r)
             \/ Unlink(r) \/ Reach(r) \/ Tie(r) \/ Unlinked(r)
             \/ ChatLoad(r) /\ pc'[r] # "insert"
      PROVE  MInv' \/ Drop(r, "failed")
  BY <1>0, <1>p, PlainMoves, MoveKeeps
<1>1. ASSUME NEW r \in Req, Receive(r) PROVE MInv'
  BY <1>0, <1>1, ReceiveMoves, MoveKeeps
<1>2. ASSUME NEW r \in Req, ChatLoad(r) PROVE MInv'
  <2>1. ~Drop(r, "failed")
    BY SMTT(30), <1>0, <1>2 DEF Inv, TypeOK, ChatLoad, Drop, Goto
  <2> QED
    BY <1>0, <1>2, <1>p, <2>1, ChatLoadRemembers
<1>3. ASSUME NEW r \in Req, Create(r) PROVE MInv'
  BY Zenon, <1>0, <1>3, <1>d, CreateRemembers DEF Create
<1>4. ASSUME NEW r \in Req, Insert(r) PROVE MInv'
  BY <1>4, <1>d, <1>p DEF Insert
<1>5. ASSUME NEW r \in Req, Touch(r) PROVE MInv'
  BY <1>0, <1>5, TouchRemembers
<1>6. ASSUME NEW r \in Req, Reply(r) PROVE MInv'
  BY <1>0, <1>6, ReplyRemembers
<1>7. ASSUME NEW r \in Req, Commit(r) PROVE MInv'
  BY <1>0, <1>7, CommitRemembers
<1>8. ASSUME NEW r \in Req, RowLoad(r) PROVE MInv'
  <2>1. ~Drop(r, "failed")
    BY <1>0, <1>8 DEF Inv, TypeOK, RowLoad, Drop, Goto
  <2> QED
    BY <1>8, <1>p, <2>1
<1>9. ASSUME NEW r \in Req, Rename(r) PROVE MInv'
  BY <1>9, <1>d, <1>p DEF Rename
<1>10. ASSUME NEW r \in Req, Delete(r) PROVE MInv'
  BY <1>0, <1>10, DeleteRemembers
<1>11. ASSUME NEW r \in Req, Unlink(r) \/ Reach(r) \/ Tie(r) \/ Unlinked(r) PROVE MInv'
  <2>1. ~Drop(r, "failed")
    BY <1>0, <1>11 DEF Inv, TypeOK, Unlink, Reach, Tie, Unlinked, Drop, Goto
  <2> QED
    BY <1>11, <1>p, <2>1
<1>12. ASSUME NEW r \in Req, Abort(r) PROVE MInv'
  BY <1>12, <1>d DEF Abort
<1>13. CASE UNCHANGED vars
  <2> USE <1>13 DEF vars, MInv
  <2>1. \A r \in Req : IsFiniteSet(ahead'[r])
    OBVIOUS
  <2>2. ASSUME NEW r \in Req PROVE Stamped(r)' /\ Unread(r)' /\ Loaded(r)'
    BY DEF Stamped, Unread, Chatting, Loaded, Folded, Adding, ByRivals, Later
  <2>3. ASSUME NEW c \in Conv PROVE Senders(c)' /\ Covered(c)'
    BY DEF Senders, Covered, Folded, Later
  <2> QED
    BY <1>0, <2>1, <2>2, <2>3
<1> QED
  BY <1>1, <1>2, <1>3, <1>4, <1>5, <1>6, <1>7, <1>8, <1>9, <1>10, <1>11, <1>12,
     <1>13 DEF Next, Step, AllFinished

LEMMA MInvAlways == Spec /\ []FewAhead => []MInv
BY MInvInit, MInvStep, InvAlways, PTL DEF Spec

\* A request that had to wait for the row still asks its own question: it is among
\* the messages the provider is sent, unless what other chats said after it fills the
\* characters, as long as fewer than half of the recent messages' number of chats
\* commit between its load of the conversation and its reading of the history.
THEOREM AskedInContext ==
    ASSUME Recent <= HistoryCap
    PROVE  Spec /\ []FewAhead => []QuestionInContext
<1>1. MInv /\ FewAhead => QuestionInContext
  <2> SUFFICES ASSUME MInv, FewAhead, NEW r \in Req, pc[r] = "think", NEW m \in own[r]
               PROVE  m \in Context(seen[r]) \/ Full(seen[r] \ own[r], m)
    BY DEF QuestionInContext
  <2> DEFINE d == job[r].conv
             A == msgs[d]
  <2>1. /\ Inv /\ TypeOK /\ d \in Conv /\ Chatting(r) /\ Senders(d)
        /\ Stamped(r) /\ IsFiniteSet(A) /\ IsFiniteSet(ahead[r])
    BY DEF MInv, Inv, JobFits, Adding, Senders
  <2>2. PICK q \in Question(r) : own[r] = {q}
    BY <2>1 DEF Inv, Exchange
  <2>3. /\ q \in Message /\ q.role = "user" /\ q \in own[r] /\ m = q
        /\ A \in SUBSET Message
    BY <2>1, <2>2 DEF Question, TypeOK
  <2>4. {x \in own[r] : x.role = "user"} = {q}
    BY <2>2, <2>3
  <2>5. seen[r] = LastN(A \cup {q}, HistoryLimit)
    BY <2>1, <2>4 DEF Inv, Current, History
  <2>6. Later(A \cup {q}, q) \subseteq ByRivals(r, d)
    BY <2>1, <2>3 DEF Later, Stamped, ByRivals, Message
  <2>7. /\ Cardinality(Later(A \cup {q}, q)) \in Nat /\ IsFiniteSet(Later(A \cup {q}, q))
        /\ Cardinality(Later(A \cup {q}, q)) < Recent
    <3>1. /\ IsFiniteSet(ByRivals(r, d)) /\ Cardinality(ByRivals(r, d)) \in Nat
          /\ Cardinality(ByRivals(r, d)) < Recent
      BY <2>1, RivalsSayLittle
    <3>2. /\ Cardinality(Later(A \cup {q}, q)) \in Nat /\ IsFiniteSet(Later(A \cup {q}, q))
          /\ Cardinality(Later(A \cup {q}, q)) <= Cardinality(ByRivals(r, d))
      BY <2>6, <3>1, Fewer
    <3> QED
      BY <3>1, <3>2, MemoryAssumption
  <2>8. q \in seen[r]
    BY <2>5, <2>7, LastNIs, HistoryLimitIs, MemoryAssumption
  <2>9. Later(seen[r], q) \subseteq Later(A \cup {q}, q)
    BY <2>5, WindowsAreSubsets DEF Later
  <2>10. /\ Cardinality(Later(seen[r], q)) \in Nat
         /\ Cardinality(Later(seen[r], q)) <= Cardinality(Later(A \cup {q}, q))
    BY <2>7, <2>9, Fewer
  <2>11. q \in LastN(seen[r], Recent)
    BY <2>7, <2>8, <2>10, LastNIs, MemoryAssumption
  <2>12. {x \in seen[r] : x.at > q.at} = {x \in seen[r] \ own[r] : x.at > q.at}
    BY <2>2, <2>3 DEF Message
  <2>13. Full(seen[r], q) <=> Full(seen[r] \ own[r], q)
    BY <2>12 DEF Full
  <2> QED
    BY <2>3, <2>11, <2>13 DEF Context
<1> QED
  BY <1>1, MInvAlways, PTL

\* A message too old for list_messages to return is in the rolling summary, although
\* chats that waited for one another overwrite it with what they loaded before: as
\* long as few chats commit while one is between its load of the conversation and its
\* reading of the history, and the window is not cut at 500.
THEOREM NothingIsForgotten ==
    ASSUME WindowFits
    PROVE  Spec /\ []FewAhead => []NothingForgotten
<1>1. MInv => NothingForgotten
  <2> SUFFICES ASSUME MInv, NEW c \in Conv, exists[c] = "live",
                      NEW m \in msgs[c], m \notin History(msgs[c])
               PROVE  m \in row[c].summary
    BY DEF NothingForgotten
  <2>1. IsFiniteSet(msgs[c]) /\ msgs[c] \in SUBSET Message
    BY DEF MInv, Inv, TypeOK, Senders
  <2>2. /\ Cardinality(Later(msgs[c], m)) \in Nat /\ Cardinality(msgs[c]) \in Nat
        /\ Cardinality(Later(msgs[c], m)) < Cardinality(msgs[c])
    BY <2>1, LaterFewer
  <2>3. ~(Cardinality(Later(msgs[c], m)) < Within + Recent)
    BY LastNIs, HistoryLimitIs DEF History
  <2>4. Cardinality(Later(msgs[c], m)) >= Recent /\ Cardinality(msgs[c]) > Trigger
    BY <2>2, <2>3, WithinIs, MemoryAssumption
  <2>5. m \notin row[c].summary =>
          Cardinality(Later(msgs[c], m)) < Recent \/ Cardinality(msgs[c]) <= Trigger
    BY DEF MInv, Covered
  <2> QED
    BY <2>2, <2>4, <2>5, MemoryAssumption
<1> QED
  BY <1>1, MInvAlways, PTL

-----------------------------------------------------------------------------
(* Deadlock.  A chat that has written its row waits for nobody, and a deletion of *)
(* a project that has the project's row only for such a chat, whatever rows of    *)
(* conversations it has; a chat that has inserted its question waits for one of   *)
(* these, and so does one that opens a conversation; a rename or a deletion that  *)
(* has nothing yet waits for any of them.  The order in which rows are taken has  *)
(* no circle.  What is left is that no request runs out of ids.                   *)

Pending(r) == pc[r] # "idle" /\ ~Finished(r)

\* The guards of Step(r).
CanGoOn(r) ==
    LET j == job[r] IN
    \/ pc[r] \in {"load", "insert", "think"}
    \/ pc[r] = "create" /\ (\/ j.project \notin projects \cup {None}
                            \/ (\E c \in Conv : exists[c] = "free") /\ Unlinking(j.project) = {})
    \/ pc[r] = "touch" /\ Writing(j.conv) \cup Tying(j.conv) = {}
    \/ pc[r] = "commit" /\ (j.kind = "create" \/ Provider # {})
    \/ /\ pc[r] = "write"
       /\ \/ j.kind = "rename" /\ Writing(j.conv) \cup Tying(j.conv) = {}
          \/ j.kind = "delete" /\ Sharing(j.conv) \cup Tying(j.conv) = {}
          \/ j.kind = "unlink" /\ Linking(j.project) \cup Unlinking(j.project) = {}
    \/ pc[r] = "unlink" /\ (j.conv = None \/ Writing(j.conv) = {})

SomeoneGoesOn == (\E r \in Req : Pending(r)) => \E r \in Req : Pending(r) /\ CanGoOn(r)

\* Ids are uuids: there is one for each request that asks for one.
EnoughIds == IsFiniteSet(Req) /\ (IsFiniteSet(Conv) => Cardinality(Req) < Cardinality(Conv))

\* An id that is taken was taken by a request, which keeps naming it.
Names(r, c) == pc[r] # "idle" /\ job[r].conv = c /\ job[r].kind # "unlink"
Taken == \A c \in Conv \ {First} :
            exists[c] # "free" => \E r \in Req : Names(r, c)

\* A request in "create" finds a free id: the others have taken one each at most.
LEMMA FreeIds ==
    ASSUME Inv, Taken, EnoughIds, NEW r \in Req, pc[r] = "create"
    PROVE  \E c \in Conv : exists[c] = "free"
<1> SUFFICES ASSUME \A c \in Conv : exists[c] # "free"  PROVE FALSE
  OBVIOUS
<1> DEFINE Others == Req \ {r}
           News == Conv \ {First}
           f == [c \in News |-> CHOOSE q \in Others : job[q].conv = c]
<1>1. job[r].conv \notin Conv
  BY NamesAssumption DEF Inv, JobFits
<1>2. ASSUME NEW c \in News PROVE f[c] \in Others /\ job[f[c]].conv = c
  <2>1. PICK q \in Req : job[q].conv = c
    BY <1>2 DEF Taken, Names
  <2> QED
    BY <1>1, <1>2, <2>1
<1>3. f \in Injection(News, Others)
  <2>1. f \in [News -> Others]
    BY <1>2
  <2>2. \A c, d \in News : f[c] = f[d] => c = d
    BY <1>2
  <2> HIDE DEF f
  <2> QED
    BY <2>1, <2>2 DEF Injection, IsInjective
<1>4. IsFiniteSet(Others) /\ Cardinality(Others) = Cardinality(Req) - 1
  BY FS_RemoveElement DEF EnoughIds
<1>5. IsFiniteSet(News) /\ Cardinality(News) <= Cardinality(Others)
  BY <1>3, <1>4, FS_Injection
<1>6. News \cup {First} = Conv /\ First \notin News
  BY NamesAssumption
<1>7. IsFiniteSet(Conv) /\ Cardinality(Conv) = Cardinality(News) + 1
  BY <1>5, <1>6, FS_AddElement
<1> HIDE DEF News, Others
<1> QED
  BY <1>4, <1>5, <1>7, FS_CardinalityType DEF EnoughIds

\* A step takes no id but for a request that goes on with it.
LEMMA TakenStep == Inv /\ Inv' /\ Taken /\ [Next]_vars => Taken'
<1> SUFFICES ASSUME Inv, Inv', Taken, [Next]_vars, NEW c \in Conv \ {First},
                    exists'[c] # "free"
             PROVE  \E r \in Req : Names(r, c)'
  BY DEF Taken
<1>0. TypeOK
  BY DEF Inv
<1>1. ASSUME NEW r \in Req, Names(r, c) PROVE Names(r, c)'
  <2>0. pc[r] # "idle" /\ job[r].conv = c /\ job[r].kind # "unlink"
    BY <1>1 DEF Names
  <2>1. pc[r] \notin {"create", "unlink"}
    BY <2>0, NamesAssumption DEF Inv, JobFits
  <2>2. ASSUME NEW q \in Req, Receive(q) PROVE pc'[r] = pc[r] /\ job'[r] = job[r]
    <3>1. q # r
      BY <2>0, <2>2 DEF Receive
    <3> QED
      BY <1>0, <2>2, <3>1 DEF Receive, Goto, TypeOK
  <2>3. ASSUME NEW q \in Req, Create(q), ~Drop(q, "failed")
        PROVE  pc'[r] = pc[r] /\ job'[r] = job[r]
    <3>1. q # r
      BY Zenon, <2>1, <2>3 DEF Create
    <3>2. \E l : pc' = [pc EXCEPT ![q] = l]
      BY Zenon, <2>3 DEF Create, Goto
    <3>3. \E d : job' = [job EXCEPT ![q].conv = d]
      BY Zenon, <2>3 DEF Create
    <3> QED
      BY <1>0, <3>1, <3>2, <3>3 DEF TypeOK
  <2>4. ASSUME NEW q \in Req, \E l \in Place \ {"idle"} : Goto(q, l), job' = job
        PROVE  pc'[r] # "idle" /\ job'[r] = job[r]
    BY SMTT(30), <1>0, <2>0, <2>4 DEF Goto, TypeOK
  <2>5. ASSUME NEW q \in Req, Step(q) \/ Abort(q), ~Create(q) \/ Drop(q, "failed"),
               ~Reach(q), ~Tie(q)
        PROVE  (\E l \in Place \ {"idle"} : Goto(q, l)) /\ job' = job
    BY <2>5 DEF Step, ChatLoad, Insert, Touch, ReadHistory, Reply, Commit, RowLoad, Rename,
       Delete, Unlink, Unlinked, Abort, Drop, Place, Answers
  <2>6. ASSUME NEW q \in Req, Reach(q) \/ Tie(q) PROVE pc'[r] = pc[r] /\ job'[r] = job[r]
    <3>1. q # r /\ pc' = pc /\ \E d : job' = [job EXCEPT ![q].conv = d]
      BY <2>1, <2>6 DEF Reach, Tie
    <3> QED
      BY <1>0, <3>1 DEF TypeOK
  <2>7. CASE UNCHANGED vars
    BY <2>0, <2>7 DEF vars, Names
  <2>8. CASE ~(UNCHANGED vars)
    <3>1. pc'[r] # "idle" /\ job'[r] = job[r]
      BY <2>0, <2>2, <2>3, <2>4, <2>5, <2>6, <2>8 DEF Next, AllFinished, Step
    <3> QED
      BY <2>0, <3>1 DEF Names
  <2> QED
    BY <2>7, <2>8
<1>2. CASE exists[c] # "free"
  BY <1>1, <1>2 DEF Taken
<1>3. CASE exists[c] = "free"
  <2>1. PICK r \in Req : Create(r) \/ Commit(r) \/ Delete(r) \/ Drop(r, "failed")
    BY <1>3 DEF Next, Receive, Step, ChatLoad, Insert, Touch, ReadHistory, Reply, RowLoad,
       Rename, Unlink, Reach, Tie, Unlinked, Abort, AllFinished, tables, vars
  <2>2. CASE Drop(r, "failed")
    BY <1>0, <1>3, <2>2 DEF Drop, TypeOK
  <2>3. CASE Create(r) /\ ~Drop(r, "failed")
    <3>1. PICK d \in Conv : /\ exists' = [exists EXCEPT ![d] = "reserved"]
                            /\ job' = [job EXCEPT ![r].conv = d]
      BY Zenon, <2>3 DEF Create
    <3>2. d = c
      BY SMTT(30), <1>0, <1>3, <3>1 DEF TypeOK
    <3>3. job[r] \in Job /\ job[r].kind # "unlink"
      BY Zenon, <2>3 DEF Create, Inv, JobFits, Opening
    <3>4. job'[r].conv = c /\ job'[r].kind = job[r].kind
      BY <1>0, <3>1, <3>2, <3>3, JobFields DEF TypeOK
    <3>5. pc'[r] # "idle"
      BY Zenon, <1>0, <2>3 DEF Create, Goto, TypeOK
    <3> QED
      BY <3>3, <3>4, <3>5 DEF Names
  <2>4. CASE Commit(r) \/ Delete(r)
    <3>1. pc[r] # "idle" /\ job[r].conv = c
      BY <1>0, <1>3, <2>4 DEF Commit, Delete, TypeOK
    <3>2. job[r].kind # "unlink"
      BY <2>4 DEF Commit, Delete, Inv, JobFits, Adding, Chatting, Opening
    <3> QED
      BY <1>1, <3>1, <3>2 DEF Names
  <2> QED
    BY SMTT(30), <2>1, <2>2, <2>3, <2>4
<1> QED
  BY <1>2, <1>3

\* Some request that is not answered finds the guards of its next step open.
LEMMA NoCircle ==
    ASSUME Inv, Tied, Taken, EnoughIds, Provider # {}, NEW r \in Req, Pending(r)
    PROVE  \E q \in Req : Pending(q) /\ CanGoOn(q)
<1> DEFINE OneGoesOn == \E q \in Req : Pending(q) /\ CanGoOn(q)
<1>1. ASSUME NEW q \in Req, pc[q] \in {"load", "insert", "think", "commit"}
      PROVE  OneGoesOn
  BY <1>1 DEF Pending, Finished, Answers, CanGoOn
<1>2. ASSUME NEW c, Writing(c) # {} PROVE OneGoesOn
  BY <1>1, <1>2 DEF Writing
<1>3. ASSUME NEW q \in Req, pc[q] = "unlink" PROVE OneGoesOn
  <2>1. CASE Writing(job[q].conv) = {}
    BY <1>3, <2>1 DEF Pending, Finished, Answers, CanGoOn
  <2> QED
    BY <1>2, <2>1
<1>4. ASSUME NEW c, Tying(c) # {} PROVE OneGoesOn
  BY <1>3, <1>4 DEF Tying, Tied, Ties
<1>5. ASSUME NEW p, Unlinking(p) # {} PROVE OneGoesOn
  BY <1>3, <1>5 DEF Unlinking
<1>6. ASSUME NEW q \in Req, pc[q] = "touch" PROVE OneGoesOn
  <2>1. CASE Writing(job[q].conv) \cup Tying(job[q].conv) = {}
    BY <1>6, <2>1 DEF Pending, Finished, Answers, CanGoOn
  <2>2. CASE Writing(job[q].conv) # {} \/ Tying(job[q].conv) # {}
    BY <1>2, <1>4, <2>2
  <2> QED
    BY <2>1, <2>2
<1>7. CASE pc[r] = "create"
  <2>1. \E c \in Conv : exists[c] = "free"
    BY <1>7, FreeIds
  <2>2. CASE Unlinking(job[r].project) = {}
    BY <1>7, <2>1, <2>2 DEF Pending, CanGoOn
  <2> QED
    BY <1>5, <2>2
<1>8. CASE pc[r] = "write"
  <2>1. job[r].kind \in {"rename", "delete", "unlink"}
    BY <1>8 DEF Inv, JobFits
  <2>2. CASE CanGoOn(r)
    BY <2>2
  <2>3. CASE ~CanGoOn(r)
    <3>1. \/ \E c : Writing(c) # {} \/ Sharing(c) # {} \/ Tying(c) # {}
          \/ \E p : Linking(p) # {} \/ Unlinking(p) # {}
      BY <1>8, <2>1, <2>3 DEF CanGoOn
    <3>2. ASSUME NEW c, Sharing(c) # {} PROVE OneGoesOn
      BY <1>1, <1>6, <3>2 DEF Sharing, Writing
    <3>3. ASSUME NEW p, Linking(p) # {} PROVE OneGoesOn
      BY <1>1, <1>6, <3>3 DEF Linking
    <3>4. CASE \E c : Writing(c) # {} \/ Sharing(c) # {} \/ Tying(c) # {}
      BY <1>2, <1>4, <3>2, <3>4
    <3>5. CASE \E p : Linking(p) # {} \/ Unlinking(p) # {}
      BY <1>5, <3>3, <3>5
    <3> QED
      BY <3>1, <3>4, <3>5
  <2> QED
    BY <2>2, <2>3
<1>9. pc[r] \in {"load", "create", "insert", "touch", "think", "commit", "write", "unlink"}
  BY DEF Pending, Finished, Inv, TypeOK, Place
<1> QED
  BY <1>1, <1>3, <1>6, <1>7, <1>8, <1>9

\* Requests that wait for one another's rows never wait in a circle, and none runs out
\* of ids: as long as one is unanswered, the guards of another's next step, or of its
\* own, are open.  NoDeadlock says the same with ENABLED.
THEOREM SomeoneAlwaysGoesOn ==
    ASSUME EnoughIds, Provider # {}
    PROVE  Spec => []SomeoneGoesOn
<1>1. Init => Taken
  BY DEF Init, Taken
<1>2. Taken /\ Inv /\ Inv' /\ [Next]_vars => Taken'
  BY TakenStep
<1>3. Inv /\ Tied /\ Taken => SomeoneGoesOn
  BY NoCircle DEF SomeoneGoesOn
<1> QED
  BY <1>1, <1>2, <1>3, InvAlways, PTL DEF Spec
=============================================================================

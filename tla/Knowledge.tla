------------------------------ MODULE Knowledge ------------------------------
(***************************************************************************)
(* The knowledge documents of the engine: how a document comes in (the     *)
(* request size middleware, then routes/knowledge.py), how it and its      *)
(* project are deleted, and what a chat finds in it (search_candidates,    *)
(* BM25Lite and _rank_documents of the chat service).                      *)
(*                                                                         *)
(* Each request is a transaction of its own; the locks are PostgreSQL's.   *)
(* A text is the number of times each term occurs in it.  Texts have no    *)
(* more than the 400 terms past which BM25Lite divides by the length.      *)
(***************************************************************************)
EXTENDS Naturals, Sequences, SequencesExt

CONSTANTS Req, User, Project,
          Owner,        \* of a project: the user it belongs to
          Library,      \* bound: the sets of documents there are at first
          Uploads,      \* bound: the requests with a body users send
          Pieces,       \* bound: how long the pieces of a body are
          Envelope,     \* bytes of a body around the file
          MaxBody,      \* MAX_REQUEST_BODY_BYTES
          FileLimit,    \* the 2_000_000 of KnowledgeCreate and upload_knowledge
          Word,         \* terms as they are typed
          Norm,         \* of a term: the one its Arabic letters are folded to
          Within,       \* <<v, w>>: v is a part of the letters of w
          MaxTerms,     \* the 12 terms a search looks for
          Newest,       \* max(20, 5 * knowledge_result_limit)
          Best,         \* knowledge_result_limit
          Queries,      \* bound: the messages searched for
          None

ASSUME KnowledgeAssumption ==
    /\ Owner \in [Project -> User] /\ Norm \in [Word -> Word]
    /\ \A w \in Word : Norm[Norm[w]] = Norm[w] /\ <<w, w>> \in Within
    /\ {Envelope, MaxBody, FileLimit} \subseteq Nat
    /\ Pieces \subseteq Nat \ {0}
    /\ {MaxTerms, Best, Newest} \subseteq Nat \ {0} /\ Newest >= Best
    /\ None \notin Project /\ IsFiniteSet(Word) /\ Queries \subseteq Seq(Word)

\* The files there are.
Texts == {d.file : d \in UNION Library} \cup {s.file : s \in Uploads}

\* Requests as they arrive, and documents that requests like them have left.
ASSUME InputsAssumption ==
    /\ Uploads \subseteq [kind: {"create", "upload"}, user: User, project: Project \cup {None},
                          size: Nat, file: Texts, at: {0}]
    /\ \A s \in Uploads : s.size = s.file.size
    /\ \A f \in Texts : {f.title, f.text} \subseteq [Word -> Nat]
    /\ \A L \in Library :
         /\ IsFiniteSet(L)
         /\ L \subseteq [at: Nat, user: User, project: Project \cup {None}, took: Nat,
                         file: Texts]
         /\ \A d, e \in L : d.at = e.at => d = e
         /\ \A d \in L : /\ d.took = d.file.size /\ d.took <= FileLimit
                         /\ d.took + Envelope <= MaxBody
                         /\ d.project # None => Owner[d.project] = d.user

VARIABLES
    projects, \* committed rows of projects
    docs,     \* committed rows of knowledge_documents; at, the time the
              \* transaction began, stands for the id
    clock,    \* now() of the database
    pc,       \* where each request is, or how it was answered
    job,      \* what each request asks for
    got       \* bytes of its body the middleware has buffered

vars == <<projects, docs, clock, pc, job, got>>

Answers == {"done", "denied", "invalid", "too_large", "failed", "gone"}
Goto(r, l) == pc' = [pc EXCEPT ![r] = l]

Init ==
    /\ projects = Project
    /\ docs \in Library
    /\ clock = Max({0} \cup {d.at : d \in docs})
    /\ pc = [r \in Req |-> "idle"]
    /\ job = [r \in Req |-> None]
    /\ got = [r \in Req |-> 0]

-----------------------------------------------------------------------------
\* RequestSizeMiddleware: the whole body is read before the application runs.

\* A request with a body arrives.  It may declare a length, which is then the body's:
\* the HTTP server sees to that.
Arrive(r) ==
    /\ pc[r] = "idle"
    /\ \E s \in Uploads, declared \in BOOLEAN :
         /\ job' = [job EXCEPT ![r] = s]
         /\ Goto(r, IF declared /\ s.size + Envelope > MaxBody THEN "too_large" ELSE "reading")
    /\ UNCHANGED <<projects, docs, clock, got>>

\* A length that is no number, or a negative one.
BadLength(r) ==
    /\ pc[r] = "idle"
    /\ Goto(r, "invalid")
    /\ UNCHANGED <<projects, docs, clock, job, got>>

\* The next piece of the body.
Piece(r) ==
    /\ pc[r] = "reading"
    /\ \E k \in Pieces : LET n == Min({k, job[r].size + Envelope - got[r]}) IN
         /\ got' = [got EXCEPT ![r] = @ + n]
         /\ Goto(r, IF got'[r] > MaxBody THEN "too_large"
                    ELSE IF got'[r] = job[r].size + Envelope THEN "begin" ELSE "reading")
    /\ UNCHANGED <<projects, docs, clock, job>>

\* Fault: what came before the client left is taken for the body.
MutDisconnect(r) ==
    /\ pc[r] = "reading" /\ got[r] >= Envelope
    /\ Goto(r, "begin")
    /\ job' = [job EXCEPT ![r].size = got[r] - Envelope]
    /\ UNCHANGED <<projects, docs, clock, got>>

\* The client leaves.  The application gets the pieces and then http.disconnect,
\* at which the framework gives up before the handler runs.
Disconnect(r) ==
    /\ pc[r] = "reading"
    /\ Goto(r, "gone")
    /\ UNCHANGED <<projects, docs, clock, job, got>>

-----------------------------------------------------------------------------
\* create_knowledge and upload_knowledge.

\* get_for_user of ProjectRepository, as _validate_project and the routes use it.
Mine(u, p) == p \in projects /\ Owner[p] = u

\* The transaction begins with the user's row, then the project's is looked up.  A
\* JSON body is checked first, a file when it is read.
Begin(r) ==
    /\ pc[r] = "begin"
    /\ LET j == job[r] IN
       \/ /\ j.kind = "create" /\ j.size > FileLimit
          /\ Goto(r, "invalid")
          /\ UNCHANGED <<clock, job>>
       \/ /\ j.kind = "upload" \/ j.size <= FileLimit
          /\ clock' = clock + 1
          /\ job' = [job EXCEPT ![r].at = clock + 1]
          /\ Goto(r, IF j.project # None /\ ~Mine(j.user, j.project) THEN "denied"
                     ELSE IF j.kind = "upload" THEN "upload" ELSE "insert")
    /\ UNCHANGED <<projects, docs, got>>

\* Fault: as much is read as is allowed, and no more.
MutRead(n) == Min({n, FileLimit})
\* file.read(2_000_001) of a file of n bytes.
Read(n) == Min({n, FileLimit + 1})

\* The file is read and parsed.
ReadFile(r) ==
    /\ pc[r] = "upload"
    /\ LET n == Read(job[r].size) IN
       IF n > FileLimit \/ ~job[r].file.readable
       THEN Goto(r, "invalid") /\ job' = job
       ELSE Goto(r, "insert") /\ job' = [job EXCEPT ![r].size = n]
    /\ UNCHANGED <<projects, docs, clock, got>>

\* Fault: the foreign key is not enforced.
MutInsert(r) ==
    /\ pc[r] = "insert"
    /\ Goto(r, "commit")
    /\ UNCHANGED <<projects, docs, clock, job, got>>

\* The INSERT, which the foreign key refuses when the project has gone since, and
\* otherwise keeps the project's row until the end of the transaction.
Insert(r) ==
    /\ pc[r] = "insert"
    /\ Goto(r, IF job[r].project \in projects \cup {None} THEN "commit" ELSE "failed")
    /\ UNCHANGED <<projects, docs, clock, job, got>>

Commit(r) ==
    /\ pc[r] = "commit"
    /\ LET j == job[r] IN
       docs' = docs \cup {[at |-> j.at, user |-> j.user, project |-> j.project,
                           took |-> j.size, file |-> j.file]}
    /\ Goto(r, "done")
    /\ UNCHANGED <<projects, clock, job, got>>

-----------------------------------------------------------------------------
\* delete_knowledge and delete_project: the row is looked up, then deleted.

Find(r) ==
    /\ pc[r] = "idle"
    /\ \E u \in User :
       \/ \E i \in 1..clock :
            /\ job' = [job EXCEPT ![r] = [kind |-> "forget", user |-> u, at |-> i]]
            /\ Goto(r, IF \E d \in docs : d.at = i /\ d.user = u THEN "delete" ELSE "denied")
       \/ \E p \in Project :
            /\ job' = [job EXCEPT ![r] = [kind |-> "drop", user |-> u, project |-> p]]
            /\ Goto(r, IF Mine(u, p) THEN "delete" ELSE "denied")
    /\ UNCHANGED <<projects, docs, clock, got>>

Forget(r) ==
    /\ pc[r] = "delete" /\ job[r].kind = "forget"
    /\ docs' = {d \in docs : d.at # job[r].at}
    /\ Goto(r, "done")
    /\ UNCHANGED <<projects, clock, job, got>>

\* Fault: ON DELETE CASCADE.
MutUnlinked(p) == {d \in docs : d.project # p}
\* ON DELETE SET NULL.
Unlinked(p) == {IF d.project = p THEN [d EXCEPT !.project = None] ELSE d : d \in docs}

\* The DELETE waits for the transactions that have inserted a document of the project.
DropProject(r) ==
    /\ pc[r] = "delete" /\ job[r].kind = "drop"
    /\ \A q \in Req : pc[q] = "commit" => job[q].project # job[r].project
    /\ projects' = projects \ {job[r].project}
    /\ docs' = Unlinked(job[r].project)
    /\ Goto(r, "done")
    /\ UNCHANGED <<clock, job, got>>

AllAnswered == (\A r \in Req : pc[r] \in Answers) /\ UNCHANGED vars

Next == \/ \E r \in Req :
             \/ Arrive(r) \/ BadLength(r) \/ Piece(r) \/ Disconnect(r)
             \/ Begin(r) \/ ReadFile(r) \/ Insert(r) \/ Commit(r)
             \/ Find(r) \/ Forget(r) \/ DropProject(r)
        \/ AllAnswered

Spec == Init /\ [][Next]_vars

-----------------------------------------------------------------------------
\* The search of a chat with the message q, a sequence of terms.  It only reads, and
\* in one query: it finds what it would find in any committed state.

\* candidate_terms and its use: the terms as typed, then folded, each once.
Searched(q) ==
    LET both == q \o [i \in DOMAIN q |-> Norm[q[i]]]
        once == FoldLeft(LAMBDA s, w : IF Contains(s, w) THEN s ELSE Append(s, w), <<>>, both)
    IN ToSet(SubSeq(once, 1, Min({MaxTerms, Len(once)})))

InScope(d, u, p) == d.user = u /\ (p # None => d.project \in {p, None})

\* title.ilike(pattern) or content.ilike(pattern): the letters of a term anywhere.
Like == [f \in Texts |-> [q \in Queries |->
    q = <<>> \/ \E v \in Searched(q), w \in Word :
                  <<v, w>> \in Within /\ f.title[w] + f.text[w] > 0]]

\* Fault: the newest documents are taken before they are compared with the terms.
MutCandidates(q, u, p) ==
    LET scope == {d \in docs : InScope(d, u, p)} IN
    {d \in scope : Like[d.file][q] /\ Cardinality({e \in scope : e.at > d.at}) < Newest}
\* search_candidates
Candidates(q, u, p) ==
    LET found == {d \in docs : InScope(d, u, p) /\ Like[d.file][q]} IN
    {d \in found : Cardinality({e \in found : e.at > d.at}) < Newest}

\* BM25Lite.score, times the number of different terms of the query: how often each
\* occurs, folded, in the text and in the title.
Score == [f \in Texts |-> [q \in Queries |->
    LET Q == {Norm[q[i]] : i \in DOMAIN q}
        Count(text, t) == SumFunctionOnSet(text, {w \in Word : Norm[w] = t})
        worth == [t \in Q |-> Min({Count(f.text, t), 4}) + 2 * Min({Count(f.title, t), 2})]
    IN IF \A w \in Word : f.text[w] = 0 THEN 0
       ELSE Cardinality(Q) * SumFunction(worth) + 4 * Cardinality({t \in Q : worth[t] > 0})]]

\* _rank_documents: the sort keeps the newest first among equals.
Relevant(q, u, p) ==
    LET S == Candidates(q, u, p)
        score(d) == Score[d.file][q]
        Ahead(e, d) == score(e) > score(d) \/ (score(e) = score(d) /\ e.at > d.at)
    IN {d \in S : score(d) > 0 /\ Cardinality({e \in S : Ahead(e, d)}) < Best}

-----------------------------------------------------------------------------
\* A document is the whole of what its user sent, and no more than the engine takes:
\* it is never the part of a file that fits the limit, nor the part of a body that
\* came before the client left.
UploadsArriveWhole ==
    \A d \in docs :
      d.took = d.file.size /\ d.took <= FileLimit /\ d.took + Envelope <= MaxBody

\* Deleting a project deletes no document (test_project_delete_preserves_conversations_
\* and_knowledge): a document goes only in a request of its own user that named it, and
\* none changes but to lose its project with the project's row.  No document is left
\* with a project that is gone, or is of somebody else.
DocumentsOutliveProjects ==
    [][/\ \A d \in docs :
            \/ d \in docs'
            \/ /\ d.project # None /\ d.project \notin projects'
               /\ [d EXCEPT !.project = None] \in docs'
            \/ \E r \in Req : /\ pc[r] = "delete" /\ pc'[r] = "done"
                              /\ job[r].kind = "forget" /\ job[r].at = d.at
                              /\ job[r].user = d.user
       /\ \A d \in docs' :
            d.project # None => d.project \in projects' /\ Owner[d.project] = d.user]_vars

\* What the search leaves out it leaves out for a reason: none of the terms it looks for
\* is in the document, newer documents with them fill the candidates, the ranker gives it
\* nothing, or as many are at least as good.  It returns nothing of another user or of
\* another project.
FindsTheBest(q, u, p) ==
    LET found == Relevant(q, u, p)
        scope == {d \in docs : d.user = u /\ (p = None \/ d.project \in {p, None})}
        looked == Searched(q)
        has == [d \in scope |->
                  \E v \in looked, w \in Word :
                    <<v, w>> \in Within /\ d.file.title[w] + d.file.text[w] > 0]
    IN /\ found \subseteq scope /\ Cardinality(found) <= Best
       /\ \A d \in scope \ found :
            \/ ~has[d]
            \/ Cardinality({e \in scope : e.at > d.at /\ has[e]}) >= Newest
            \/ Score[d.file][q] = 0
            \/ /\ Cardinality(found) = Best
               /\ \A e \in found : Score[e.file][q] >= Score[d.file][q]

\* It does so for every message of every user, in a project of theirs or in none.
SearchFindsTheBest ==
    \A q \in Queries, u \in User, p \in Project \cup {None} :
      p = None \/ Owner[p] = u => FindsTheBest(q, u, p)
===============================================================================

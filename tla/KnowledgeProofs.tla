--------------------------- MODULE KnowledgeProofs ---------------------------
(***************************************************************************)
(* What Knowledge guarantees for every number of requests, users, projects *)
(* and documents, every limit and every way a body is cut into pieces.     *)
(***************************************************************************)
EXTENDS Knowledge, FiniteSetTheorems, WellFoundedInduction, TLAPS

-----------------------------------------------------------------------------
(* Least and greatest numbers *)

LEMMA LeastNumber ==
    ASSUME NEW T, T \subseteq Nat, T # {}
    PROVE  \E x \in T : \A y \in T : x <= y
<1>1. \A x, y \in Nat : y < x => <<y, x>> \in OpToRel(<, Nat)
  BY Zenon DEF OpToRel
<1>2. PICK x \in T : \A y \in T : ~ (<<y, x>> \in OpToRel(<, Nat))
  BY NatLessThanWellFounded, WFMin, Zenon
<1>3. \A y \in T : x <= y
  <2> SUFFICES ASSUME NEW y \in T PROVE x <= y
    OBVIOUS
  <2>1. x \in Nat /\ y \in Nat /\ ~ (y < x)
    BY <1>1, <1>2
  <2> QED
    BY <2>1
<1> QED
  BY <1>3

\* A finite set of numbers has a bound: one that leaves the fewest of them above it.
LEMMA FiniteIsBounded ==
    ASSUME NEW S, S \subseteq Nat, IsFiniteSet(S)
    PROVE  \E n \in Nat : \A x \in S : x <= n
<1> DEFINE Above(n) == {x \in S : x > n}
           Sizes == {Cardinality(Above(n)) : n \in Nat}
<1>1. \A n \in Nat : IsFiniteSet(Above(n)) /\ Cardinality(Above(n)) \in Nat
  BY FS_Subset, FS_CardinalityType
<1>2. PICK k \in Sizes : \A j \in Sizes : k <= j
  <2>1. Sizes \subseteq Nat
    BY <1>1
  <2>2. Sizes # {}
    OBVIOUS
  <2> HIDE DEF Sizes
  <2> QED
    BY <2>1, <2>2, LeastNumber
<1>3. PICK n \in Nat : k = Cardinality(Above(n))
  OBVIOUS
<1>4. \A x \in S : x <= n
  <2> SUFFICES ASSUME NEW x \in S, x > n PROVE FALSE
    OBVIOUS
  <2>1. Above(x) \subseteq Above(n) /\ x \in Above(n) /\ x \notin Above(x)
    <3>1. x \in Nat /\ \A y \in S : y \in Nat /\ (y > x => y > n) /\ ~(x > x)
      OBVIOUS
    <3> QED
      BY <3>1
  <2>2. Cardinality(Above(n)) <= Cardinality(Above(x))
    BY <1>2, <1>3
  <2>3. IsFiniteSet(Above(n)) /\ Cardinality(Above(n)) \in Nat
        /\ Cardinality(Above(x)) \in Nat
    BY <1>1
  <2> HIDE DEF Above
  <2>4. /\ Cardinality(Above(x)) <= Cardinality(Above(n))
        /\ Cardinality(Above(x)) = Cardinality(Above(n)) => Above(x) = Above(n)
    BY <2>1, <2>3, FS_Subset
  <2> QED
    BY <2>1, <2>2, <2>3, <2>4
<1> QED
  BY <1>4

LEMMA MaxBounds ==
    ASSUME NEW S, S \subseteq Nat, IsFiniteSet(S), S # {}
    PROVE  Max(S) \in S /\ \A x \in S : x <= Max(S)
<1> DEFINE Bounds == {n \in Nat : \A x \in S : x <= n}
<1>1. PICK n \in Bounds : \A m \in Bounds : n <= m
  <2>1. Bounds \subseteq Nat
    OBVIOUS
  <2>2. Bounds # {}
    BY FiniteIsBounded
  <2> HIDE DEF Bounds
  <2> QED
    BY <2>1, <2>2, LeastNumber
<1>2. n \in S
  <2> SUFFICES ASSUME n \notin S PROVE FALSE
    OBVIOUS
  <2>1. PICK x \in S : TRUE
    OBVIOUS
  <2>2. n \in Nat /\ n > 0
    BY <2>1
  <2>3. n - 1 \in Nat /\ \A y \in S : y <= n - 1
    BY <2>2
  <2>4. n - 1 \in Bounds
    BY <2>3
  <2> QED
    BY <1>1, <2>2, <2>4
<1>3. \E x \in S : \A y \in S : x >= y
  BY <1>2
<1> QED
  BY <1>3 DEF Max

LEMMA MinPair ==
    ASSUME NEW a \in Nat, NEW b \in Nat
    PROVE  Min({a, b}) = IF a <= b THEN a ELSE b
<1>1. PICK m \in {a, b} : \A y \in {a, b} : m =< y
  OBVIOUS
<1>2. Min({a, b}) \in {a, b} /\ \A y \in {a, b} : Min({a, b}) =< y
  BY <1>1 DEF Min
<1> QED
  BY <1>2

-----------------------------------------------------------------------------
(* The inductive invariant *)

\* Where a request has its body, and where it has a time for the document.
Sending == {"reading", "begin", "upload", "insert", "commit"}
Storing == {"upload", "insert", "commit"}

\* A row of knowledge_documents, and what the two kinds of request ask for.
Document == [at: Nat, user: User, project: Project \cup {None}, took: Nat, file: Texts]
Upload   == [kind: {"create", "upload"}, user: User, project: Project \cup {None},
             size: Nat, file: Texts, at: Nat]
Deletion == [kind: {"forget"}, user: User, at: Nat]
       \cup [kind: {"drop"}, user: User, project: Project]

\* Type correctness, the shape of what a request asks for at each of its steps included.
TypeOK ==
    /\ projects \subseteq Project /\ docs \subseteq Document /\ clock \in Nat
    /\ pc \in [Req -> {"idle", "delete"} \cup Sending \cup Answers]
    /\ DOMAIN job = Req /\ got \in [Req -> Nat]
    /\ \A r \in Req : /\ pc[r] \in Sending => job[r] \in Upload
                      /\ pc[r] = "delete" => job[r] \in Deletion

\* What a request stores is the whole of what was sent, and within the limits.
Whole ==
    \A r \in Req :
        /\ pc[r] \in Sending => job[r].size = job[r].file.size
        /\ pc[r] = "idle" => got[r] = 0
        /\ pc[r] = "reading" => got[r] <= job[r].size + Envelope
        /\ pc[r] \in Sending \ {"reading"} => job[r].size + Envelope <= MaxBody
        /\ pc[r] \in {"insert", "commit"} => job[r].size <= FileLimit

\* The documents have a time each, and a project that is there and is their user's.
Shelved ==
    /\ \A d, e \in docs : d.at = e.at => d = e
    /\ \A d \in docs : /\ d.at <= clock
                       /\ d.project # None =>
                            d.project \in projects /\ Owner[d.project] = d.user

\* A request that will store a document has a time that no document and no other such
\* request has; a project it names is its user's, and is there once the row is inserted.
Pending ==
    \A r \in Req : pc[r] \in Storing =>
        /\ job[r].at <= clock
        /\ \A d \in docs : d.at # job[r].at
        /\ \A q \in Req : pc[q] \in Storing /\ job[q].at = job[r].at => q = r
        /\ job[r].project # None => Owner[job[r].project] = job[r].user
        /\ pc[r] = "commit" => job[r].project \in projects \cup {None}

\* A request that will delete a document names one of its user's, or one that is gone
\* and whose time nobody has any more.
Named ==
    \A r \in Req : pc[r] = "delete" /\ job[r].kind = "forget" =>
        /\ job[r].at <= clock
        /\ \A d \in docs : d.at = job[r].at => d.user = job[r].user
        /\ \A q \in Req : pc[q] \in Storing => job[q].at # job[r].at

\* The inductive invariant.
Inv == /\ TypeOK /\ Whole /\ Shelved /\ Pending /\ Named
       /\ UploadsArriveWhole

LEMMA InvInit == Init => Inv
<1> SUFFICES ASSUME Init PROVE Inv
  OBVIOUS
<1>1. /\ IsFiniteSet(docs) /\ docs \subseteq Document
      /\ \A d, e \in docs : d.at = e.at => d = e
      /\ \A d \in docs : d.project # None => Owner[d.project] = d.user
  BY InputsAssumption DEF Init, Document
<1>2. clock \in Nat /\ \A d \in docs : d.at <= clock
  <2> DEFINE S == {0} \cup {d.at : d \in docs}
  <2>1. S \subseteq Nat /\ S # {}
    BY <1>1 DEF Document
  <2>2. IsFiniteSet(S)
    <3>1. [d \in docs |-> d.at] \in Surjection(docs, {d.at : d \in docs})
      BY DEF Surjection
    <3>2. IsFiniteSet({d.at : d \in docs})
      BY <1>1, <3>1, FS_Surjection
    <3> QED
      BY <3>2, FS_AddElement
  <2>3. clock = Max(S)
    BY DEF Init
  <2>4. \A d \in docs : d.at \in S
    OBVIOUS
  <2> HIDE DEF S
  <2> QED
    BY <2>1, <2>2, <2>3, <2>4, MaxBounds
<1>3. TypeOK
  BY <1>1, <1>2 DEF Init, TypeOK, Sending
<1>4. Shelved
  <2>1. \A d \in docs : d.project # None => d.project \in projects
    BY <1>1 DEF Init, Document
  <2>2. \A d, e \in docs : d.at = e.at => d = e
    BY <1>1
  <2>3. \A d \in docs : d.project # None => Owner[d.project] = d.user
    BY <1>1
  <2> QED
    BY <1>2, <2>1, <2>2, <2>3 DEF Shelved
<1>5. Whole /\ Pending /\ Named
  BY DEF Init, Whole, Pending, Named, Sending, Storing
<1>6. UploadsArriveWhole
  BY InputsAssumption DEF Init, UploadsArriveWhole
<1> QED
  BY <1>3, <1>4, <1>5, <1>6 DEF Inv

-----------------------------------------------------------------------------
(* Steps that change no row *)

\* What such a step of a request leaves the request with.
Local(r) ==
    /\ UNCHANGED <<projects, docs>> /\ clock' \in {clock, clock + 1}
    /\ \A q \in Req \ {r} : pc'[q] = pc[q] /\ job'[q] = job[q] /\ got'[q] = got[q]
    /\ pc'[r] \in Sending => job'[r].size = job'[r].file.size
    /\ pc'[r] = "idle" => got'[r] = 0
    /\ pc'[r] = "reading" => got'[r] <= job'[r].size + Envelope
    /\ pc'[r] \in Sending \ {"reading"} => job'[r].size + Envelope <= MaxBody
    /\ pc'[r] \in {"insert", "commit"} => job'[r].size <= FileLimit
    /\ pc'[r] \in Storing =>
         /\ \/ pc[r] \in Storing /\ job'[r].at = job[r].at
            \/ job'[r].at = clock + 1 /\ clock' = clock + 1
         /\ job'[r].project # None => Owner[job'[r].project] = job'[r].user
         /\ pc'[r] = "commit" => job'[r].project \in projects \cup {None}
    /\ pc'[r] = "delete" /\ job'[r].kind = "forget" =>
         \E d \in docs : d.at = job'[r].at /\ d.user = job'[r].user

LEMMA LocalStep ==
    ASSUME Inv, NEW r \in Req, Local(r), TypeOK'
    PROVE  Inv'
<1> USE DEF Inv
<1>1. clock \in Nat /\ clock <= clock'
  BY DEF TypeOK, Local
<1>2. Whole'
  BY DEF Whole, Local
<1>3. Shelved' /\ UploadsArriveWhole'
  <2>1. \A d \in docs : d.at \in Nat
    BY DEF TypeOK, Document
  <2> QED
    BY <1>1, <2>1 DEF Shelved, UploadsArriveWhole, Local, TypeOK
<1>4. \A q \in Req : pc[q] \in Storing => job[q].at \in Nat /\ job[q].at <= clock
  BY DEF TypeOK, Pending, Storing, Sending, Upload
<1>5. /\ \A d \in docs : d.at \in Nat /\ d.at <= clock
      /\ clock + 1 \in Nat /\ ~(clock + 1 <= clock)
  BY <1>1 DEF TypeOK, Document, Shelved
<1>6. Pending'
  <2>1. ASSUME NEW q \in Req, pc'[q] \in Storing, q # r
        PROVE  pc[q] \in Storing /\ job'[q] = job[q] /\ pc'[q] = pc[q]
    BY <2>1 DEF Local
  <2>2. ASSUME NEW q \in Req, pc'[q] \in Storing
        PROVE  /\ job'[q].at <= clock'
               /\ \A d \in docs : d.at # job'[q].at
    <3>1. CASE q # r
      BY <1>1, <1>4, <2>1, <2>2, <3>1 DEF Pending, Local, TypeOK
    <3>2. CASE q = r
      BY <1>1, <1>4, <1>5, <2>2, <3>2 DEF Pending, Local
    <3> QED
      BY <3>1, <3>2
  <2>3. ASSUME NEW q \in Req, NEW p \in Req, pc'[q] \in Storing, pc'[p] \in Storing,
               job'[q].at = job'[p].at
        PROVE  q = p
    <3>1. CASE q # r /\ p # r
      BY <2>1, <2>3, <3>1 DEF Pending
    <3>2. CASE q = r /\ p # r
      <4>1. pc[p] \in Storing /\ job'[p].at = job[p].at /\ job[p].at # clock + 1
        BY <1>4, <1>5, <2>1, <2>3, <3>2
      <4> QED
        BY <2>3, <3>2, <4>1 DEF Pending, Local
    <3>3. CASE q # r /\ p = r
      <4>1. pc[q] \in Storing /\ job'[q].at = job[q].at /\ job[q].at # clock + 1
        BY <1>4, <1>5, <2>1, <2>3, <3>3
      <4> QED
        BY <2>3, <3>3, <4>1 DEF Pending, Local
    <3> QED
      BY <3>1, <3>2, <3>3
  <2>4. ASSUME NEW q \in Req, pc'[q] \in Storing
        PROVE  /\ job'[q].project # None => Owner[job'[q].project] = job'[q].user
               /\ pc'[q] = "commit" => job'[q].project \in projects' \cup {None}
    <3>1. CASE q = r
      BY <2>4, <3>1 DEF Local
    <3>2. CASE q # r
      BY <2>1, <2>4, <3>2 DEF Pending, Local
    <3> QED
      BY <3>1, <3>2
  <2> QED
    BY <2>2, <2>3, <2>4 DEF Pending, Local
<1>7. Named'
  <2> SUFFICES ASSUME NEW q \in Req, pc'[q] = "delete", job'[q].kind = "forget"
               PROVE  /\ job'[q].at <= clock'
                      /\ \A d \in docs' : d.at = job'[q].at => d.user = job'[q].user
                      /\ \A p \in Req : pc'[p] \in Storing => job'[p].at # job'[q].at
    BY DEF Named
  <2>1. job'[q].at \in Nat
    BY DEF TypeOK, Deletion
  <2>2. /\ job'[q].at <= clock
        /\ \A d \in docs : d.at = job'[q].at => d.user = job'[q].user
        /\ \A p \in Req : pc[p] \in Storing => job[p].at # job'[q].at
    <3>1. CASE q # r
      BY <3>1 DEF Local, Named
    <3>2. CASE q = r
      <4>1. PICK d \in docs : d.at = job'[r].at /\ d.user = job'[r].user
        BY <3>2 DEF Local
      <4> QED
        BY <1>5, <3>2, <4>1 DEF Shelved, Pending
    <3> QED
      BY <3>1, <3>2
  <2>3. ASSUME NEW p \in Req, pc'[p] \in Storing PROVE job'[p].at # job'[q].at
    <3>1. CASE p # r
      BY <2>2, <2>3, <3>1 DEF Local
    <3>2. CASE p = r
      BY <1>5, <2>1, <2>2, <2>3, <3>2 DEF Local
    <3> QED
      BY <3>1, <3>2
  <2> QED
    BY <1>1, <2>1, <2>2, <2>3 DEF Local, TypeOK
<1> QED
  BY <1>2, <1>3, <1>6, <1>7

\* An answer, or the loss of the client: the request has nothing more to do.
LEMMA EndStep ==
    ASSUME Inv, NEW r \in Req, NEW l \in Answers, Goto(r, l),
           UNCHANGED <<projects, docs, clock>>,
           got' = got \/ \E n \in Nat : got' = [got EXCEPT ![r] = n],
           job' = job \/ \E j : job' = [job EXCEPT ![r] = j]
    PROVE  Inv'
<1>1. /\ pc' = [pc EXCEPT ![r] = l] /\ l \notin Sending /\ l # "delete" /\ l # "idle"
      /\ pc \in [Req -> {"idle", "delete"} \cup Sending \cup Answers]
      /\ DOMAIN job = Req /\ got \in [Req -> Nat]
  BY DEF Goto, Inv, TypeOK, Sending, Answers
<1>2. /\ DOMAIN job' = Req /\ got' \in [Req -> Nat]
      /\ \A q \in Req \ {r} : pc'[q] = pc[q] /\ job'[q] = job[q] /\ got'[q] = got[q]
      /\ pc'[r] = l /\ pc' \in [Req -> {"idle", "delete"} \cup Sending \cup Answers]
  BY <1>1
<1>3. TypeOK'
  BY <1>1, <1>2 DEF Inv, TypeOK
<1>4. Local(r)
  BY <1>1, <1>2 DEF Local, Storing, Sending
<1> QED
  BY <1>3, <1>4, LocalStep

-----------------------------------------------------------------------------
(* The steps of a request with a body *)

LEMMA ArriveStep ==
    ASSUME Inv, NEW r \in Req, Arrive(r)
    PROVE  Inv'
<1>1. PICK s \in Uploads, declared \in BOOLEAN :
        /\ job' = [job EXCEPT ![r] = s]
        /\ Goto(r, IF declared /\ s.size + Envelope > MaxBody THEN "too_large"
                   ELSE "reading")
  BY DEF Arrive
<1>2. UNCHANGED <<projects, docs, clock, got>> /\ got[r] = 0
  BY DEF Arrive, Inv, Whole
<1>3. s \in Upload /\ s.size = s.file.size /\ s.size \in Nat /\ Envelope \in Nat
  BY InputsAssumption, KnowledgeAssumption DEF Upload
<1>4. CASE Goto(r, "too_large")
  BY <1>1, <1>2, <1>4, EndStep DEF Answers
<1>5. CASE Goto(r, "reading")
  <2>1. /\ job'[r] = s /\ pc'[r] = "reading" /\ DOMAIN job' = Req
        /\ \A q \in Req \ {r} : pc'[q] = pc[q] /\ job'[q] = job[q]
    BY <1>1, <1>5 DEF Inv, TypeOK, Goto
  <2>2. TypeOK'
    BY <1>2, <1>3, <1>5, <2>1 DEF Inv, TypeOK, Sending, Goto
  <2>3. Local(r)
    BY <1>2, <1>3, <2>1 DEF Local, Storing
  <2> QED
    BY <2>2, <2>3, LocalStep
<1> QED
  BY <1>1, <1>4, <1>5

LEMMA PieceStep ==
    ASSUME Inv, NEW r \in Req, Piece(r)
    PROVE  Inv'
<1>1. /\ UNCHANGED <<projects, docs, clock, job>> /\ pc[r] = "reading"
      /\ job[r] \in Upload /\ job[r].size = job[r].file.size
      /\ job[r].size \in Nat /\ got[r] \in Nat /\ Envelope \in Nat /\ MaxBody \in Nat
      /\ got[r] <= job[r].size + Envelope
  BY KnowledgeAssumption DEF Piece, Inv, TypeOK, Whole, Sending, Upload
<1>2. PICK n \in Nat :
        /\ got[r] + n <= job[r].size + Envelope
        /\ got' = [got EXCEPT ![r] = @ + n]
        /\ Goto(r, IF got'[r] > MaxBody THEN "too_large"
                   ELSE IF got'[r] = job[r].size + Envelope THEN "begin" ELSE "reading")
  <2>1. PICK k \in Pieces : LET n == Min({k, job[r].size + Envelope - got[r]}) IN
          /\ got' = [got EXCEPT ![r] = @ + n]
          /\ Goto(r, IF got'[r] > MaxBody THEN "too_large"
                     ELSE IF got'[r] = job[r].size + Envelope THEN "begin" ELSE "reading")
    BY DEF Piece
  <2> DEFINE m == job[r].size + Envelope - got[r]
  <2>2. k \in Nat /\ m \in Nat
    <3>1. k \in Nat
      BY KnowledgeAssumption
    <3> QED
      BY <1>1, <3>1
  <2>3. Min({k, m}) \in Nat /\ Min({k, m}) <= m
    BY <2>2, MinPair
  <2>4. got[r] + Min({k, m}) <= job[r].size + Envelope
    BY <1>1, <2>2, <2>3
  <2> QED
    BY <2>1, <2>3, <2>4
<1>3. /\ got'[r] = got[r] + n /\ got'[r] \in Nat /\ got' = [got EXCEPT ![r] = got'[r]]
      /\ \A q \in Req \ {r} : got'[q] = got[q]
      /\ got' \in [Req -> Nat]
  BY <1>1, <1>2 DEF Inv, TypeOK
<1>4. CASE Goto(r, "too_large")
  BY <1>1, <1>3, <1>4, EndStep DEF Answers
<1>5. ASSUME NEW l, Goto(r, l), \/ l = "reading"
                                \/ l = "begin" /\ job[r].size + Envelope <= MaxBody
      PROVE  Inv'
  <2>1. pc'[r] = l /\ \A q \in Req \ {r} : pc'[q] = pc[q]
    BY <1>5 DEF Inv, TypeOK, Goto
  <2>2. TypeOK'
    BY <1>1, <1>3, <1>5, <2>1 DEF Inv, TypeOK, Sending, Goto
  <2>3. Local(r)
    BY <1>1, <1>2, <1>3, <1>5, <2>1 DEF Local, Storing
  <2> QED
    BY <2>2, <2>3, LocalStep
<1>6. CASE got'[r] > MaxBody
  BY <1>2, <1>4, <1>6
<1>7. CASE ~(got'[r] > MaxBody) /\ got'[r] = job[r].size + Envelope
  <2>1. Goto(r, "begin") /\ job[r].size + Envelope <= MaxBody
    BY <1>1, <1>2, <1>3, <1>7
  <2> QED
    BY <1>5, <2>1
<1>8. CASE ~(got'[r] > MaxBody) /\ got'[r] # job[r].size + Envelope
  <2>1. Goto(r, "reading")
    BY <1>2, <1>8
  <2> QED
    BY <1>5, <2>1
<1> QED
  BY <1>6, <1>7, <1>8

LEMMA BeginStep ==
    ASSUME Inv, NEW r \in Req, Begin(r)
    PROVE  Inv'
<1> DEFINE j == job[r]
<1>1. /\ UNCHANGED <<projects, docs, got>> /\ pc[r] = "begin"
      /\ j \in Upload /\ j.size = j.file.size /\ j.size + Envelope <= MaxBody
      /\ clock \in Nat /\ DOMAIN job = Req
  BY DEF Begin, Inv, TypeOK, Whole, Sending
<1>2. CASE /\ j.kind = "create" /\ j.size > FileLimit /\ Goto(r, "invalid")
           /\ UNCHANGED <<clock, job>>
  BY <1>1, <1>2, EndStep DEF Answers
<1>3. CASE /\ j.kind = "upload" \/ j.size <= FileLimit
           /\ clock' = clock + 1 /\ job' = [job EXCEPT ![r].at = clock + 1]
           /\ Goto(r, IF j.project # None /\ ~Mine(j.user, j.project) THEN "denied"
                      ELSE IF j.kind = "upload" THEN "upload" ELSE "insert")
  <2> DEFINE l == IF j.project # None /\ ~Mine(j.user, j.project) THEN "denied"
                  ELSE IF j.kind = "upload" THEN "upload" ELSE "insert"
  <2>0. Goto(r, l) /\ pc'[r] = l
    BY <1>3 DEF Goto, Inv, TypeOK
  <2>a. j.kind \in {"create", "upload"}
    BY <1>1 DEF Upload
  <2>b. /\ l \in {"denied", "upload", "insert"}
        /\ l # "denied" => j.project = None \/ Mine(j.user, j.project)
        /\ l = "insert" => j.kind = "create"
    BY <2>a
  <2> HIDE DEF l
  <2>1. /\ Goto(r, l) /\ pc'[r] = l /\ l \in {"denied", "upload", "insert"}
        /\ l # "denied" => j.project = None \/ Mine(j.user, j.project)
        /\ l = "insert" => j.kind = "create"
    BY <2>0, <2>b
  <2>2. /\ job'[r] = [j EXCEPT !.at = clock + 1] /\ DOMAIN job' = Req
        /\ \A q \in Req \ {r} : pc'[q] = pc[q] /\ job'[q] = job[q]
    BY <1>1, <1>3, <2>1 DEF Goto, Inv, TypeOK
  <2>3. /\ job'[r] \in Upload /\ job'[r].at = clock + 1
        /\ job'[r].size = j.size /\ job'[r].file = j.file
        /\ job'[r].project = j.project /\ job'[r].user = j.user
    BY <1>1, <2>2 DEF Upload
  <2> HIDE DEF j
  <2>4. TypeOK'
    <3>1. pc' \in [Req -> {"idle", "delete"} \cup Sending \cup Answers]
      BY <2>1 DEF Inv, TypeOK, Goto, Sending, Answers
    <3>2. \A q \in Req : /\ pc'[q] \in Sending => job'[q] \in Upload
                         /\ pc'[q] = "delete" => job'[q] \in Deletion
      BY <2>1, <2>2, <2>3 DEF Inv, TypeOK
    <3> QED
      BY <1>1, <1>3, <2>2, <3>1, <3>2 DEF Inv, TypeOK
  <2>5. Local(r)
    <3>1. l = "insert" => j.size <= FileLimit
      BY <1>3, <2>1 DEF j
    <3> QED
      BY <1>1, <1>3, <2>1, <2>2, <2>3, <3>1 DEF Local, Storing, Sending, Mine
  <2> QED
    BY <2>4, <2>5, LocalStep
<1> QED
  BY <1>2, <1>3 DEF Begin

LEMMA ReadFileStep ==
    ASSUME Inv, NEW r \in Req, ReadFile(r)
    PROVE  Inv'
<1> DEFINE n == Read(job[r].size)
<1>1. /\ UNCHANGED <<projects, docs, clock, got>> /\ pc[r] = "upload"
      /\ job[r] \in Upload /\ job[r].size = job[r].file.size /\ job[r].size \in Nat
      /\ job[r].size + Envelope <= MaxBody /\ DOMAIN job = Req
      /\ job[r].project # None => Owner[job[r].project] = job[r].user
  BY DEF ReadFile, Inv, TypeOK, Whole, Pending, Sending, Storing, Upload
<1> HIDE DEF n
<1>2. n \in Nat /\ (n <= FileLimit => n = job[r].size) /\ FileLimit \in Nat
  <2>1. FileLimit \in Nat
    BY KnowledgeAssumption
  <2> QED
    BY <1>1, <2>1, MinPair DEF Read, n
<1>3. CASE Goto(r, "invalid") /\ job' = job
  BY <1>1, <1>3, EndStep DEF Answers
<1>4. CASE n <= FileLimit /\ Goto(r, "insert") /\ job' = [job EXCEPT ![r].size = n]
  <2>1. /\ pc'[r] = "insert" /\ job'[r] = [job[r] EXCEPT !.size = n] /\ DOMAIN job' = Req
        /\ \A q \in Req \ {r} : pc'[q] = pc[q] /\ job'[q] = job[q]
    BY <1>1, <1>4 DEF Goto, Inv, TypeOK
  <2>2. job'[r] = job[r]
    BY <1>1, <1>2, <1>4, <2>1 DEF Upload
  <2>3. TypeOK'
    BY <1>1, <1>4, <2>1, <2>2 DEF Inv, TypeOK, Goto, Sending
  <2>4. Local(r)
    BY <1>1, <1>2, <1>4, <2>1, <2>2 DEF Local, Storing
  <2> QED
    BY <2>3, <2>4, LocalStep
<1>5. ReadFile(r) => IF n > FileLimit \/ ~job[r].file.readable
                     THEN Goto(r, "invalid") /\ job' = job
                     ELSE Goto(r, "insert") /\ job' = [job EXCEPT ![r].size = n]
  BY DEF ReadFile, n
<1>6. ~(n > FileLimit) => n <= FileLimit
  BY <1>2
<1> QED
  BY <1>3, <1>4, <1>5, <1>6

LEMMA InsertStep ==
    ASSUME Inv, NEW r \in Req, Insert(r)
    PROVE  Inv'
<1>1. /\ UNCHANGED <<projects, docs, clock, job, got>> /\ pc[r] = "insert"
      /\ job[r] \in Upload /\ job[r].size = job[r].file.size
      /\ job[r].size + Envelope <= MaxBody /\ job[r].size <= FileLimit
      /\ job[r].project # None => Owner[job[r].project] = job[r].user
  BY DEF Insert, Inv, TypeOK, Whole, Pending, Sending, Storing
<1>2. CASE Goto(r, "failed")
  BY <1>1, <1>2, EndStep DEF Answers
<1>3. CASE Goto(r, "commit") /\ job[r].project \in projects \cup {None}
  <2>1. pc'[r] = "commit" /\ \A q \in Req \ {r} : pc'[q] = pc[q]
    BY <1>3 DEF Goto, Inv, TypeOK
  <2>2. TypeOK'
    BY <1>1, <1>3, <2>1 DEF Inv, TypeOK, Goto, Sending
  <2>3. Local(r)
    BY <1>1, <1>3, <2>1 DEF Local, Storing
  <2> QED
    BY <2>2, <2>3, LocalStep
<1> QED
  BY <1>2, <1>3 DEF Insert

\* The commit: the document gets the time of the request, which is nobody else's.
LEMMA CommitStep ==
    ASSUME Inv, NEW r \in Req, Commit(r)
    PROVE  Inv'
<1> DEFINE j == job[r]
           d0 == [at |-> j.at, user |-> j.user, project |-> j.project,
                  took |-> j.size, file |-> j.file]
<1>1. /\ docs' = docs \cup {d0} /\ UNCHANGED <<projects, clock, job, got>>
      /\ pc[r] = "commit" /\ pc' = [pc EXCEPT ![r] = "done"]
  BY DEF Commit, Goto
<1>2. /\ j \in Upload /\ j.size = j.file.size /\ j.size + Envelope <= MaxBody
      /\ j.size <= FileLimit /\ j.at <= clock
      /\ j.project # None => Owner[j.project] = j.user /\ j.project \in projects
      /\ \A d \in docs : d.at # j.at
      /\ \A q \in Req : pc[q] \in Storing /\ job[q].at = j.at => q = r
      /\ \A q \in Req : pc[q] = "delete" /\ job[q].kind = "forget" => j.at # job[q].at
  BY <1>1 DEF Inv, TypeOK, Whole, Pending, Named, Sending, Storing
<1>3. /\ d0 \in Document /\ d0.at = j.at /\ d0.user = j.user /\ d0.project = j.project
      /\ d0.took = j.size /\ d0.file = j.file
  BY <1>2 DEF Upload, Document
<1>4. pc'[r] = "done" /\ \A q \in Req \ {r} : pc'[q] = pc[q]
  BY <1>1 DEF Inv, TypeOK
<1> HIDE DEF d0
<1>5. TypeOK'
  BY <1>1, <1>3, <1>4 DEF Inv, TypeOK, Sending, Answers
<1>6. Whole'
  BY <1>1, <1>4 DEF Inv, Whole, Sending
<1>7. Shelved'
  BY <1>1, <1>2, <1>3 DEF Inv, Shelved
<1>8. UploadsArriveWhole'
  BY <1>1, <1>2, <1>3 DEF Inv, UploadsArriveWhole
<1>9. Pending'
  BY <1>1, <1>2, <1>3, <1>4 DEF Inv, Pending, Storing
<1>10. Named'
  BY <1>1, <1>2, <1>3, <1>4 DEF Inv, Named, Storing
<1> QED
  BY <1>5, <1>6, <1>7, <1>8, <1>9, <1>10 DEF Inv

-----------------------------------------------------------------------------
(* The deletions *)

LEMMA FindStep ==
    ASSUME Inv, NEW r \in Req, Find(r)
    PROVE  Inv'
<1>1. UNCHANGED <<projects, docs, clock, got>> /\ pc[r] = "idle"
      /\ DOMAIN job = Req /\ clock \in Nat
  BY DEF Find, Inv, TypeOK
<1>2. ASSUME NEW j \in Deletion, job' = [job EXCEPT ![r] = j], Goto(r, "delete"),
             j.kind = "forget" => \E d \in docs : d.at = j.at /\ d.user = j.user
      PROVE  Inv'
  <2>1. /\ pc'[r] = "delete" /\ job'[r] = j /\ DOMAIN job' = Req
        /\ \A q \in Req \ {r} : pc'[q] = pc[q] /\ job'[q] = job[q]
    BY <1>1, <1>2 DEF Goto, Inv, TypeOK
  <2>2. TypeOK'
    BY <1>1, <1>2, <2>1 DEF Inv, TypeOK, Goto, Sending
  <2>3. Local(r)
    BY <1>1, <1>2, <2>1 DEF Local, Storing, Sending
  <2> QED
    BY <2>2, <2>3, LocalStep
<1>3. ASSUME Goto(r, "denied"), \E j : job' = [job EXCEPT ![r] = j]
      PROVE  Inv'
  BY <1>1, <1>3, EndStep DEF Answers
<1>4. ASSUME NEW u \in User, NEW i \in 1..clock,
             job' = [job EXCEPT ![r] = [kind |-> "forget", user |-> u, at |-> i]],
             Goto(r, IF \E d \in docs : d.at = i /\ d.user = u THEN "delete" ELSE "denied")
      PROVE  Inv'
  <2> DEFINE j == [kind |-> "forget", user |-> u, at |-> i]
  <2>1. j \in Deletion /\ j.at = i /\ j.user = u
    BY <1>1 DEF Deletion
  <2>2. job' = [job EXCEPT ![r] = j]
    BY <1>4
  <2> HIDE DEF j
  <2>3. CASE \E d \in docs : d.at = i /\ d.user = u
    BY <1>2, <1>4, <2>1, <2>2, <2>3
  <2>4. CASE ~(\E d \in docs : d.at = i /\ d.user = u)
    BY <1>3, <1>4, <2>2, <2>4
  <2> QED
    BY <2>3, <2>4
<1>5. ASSUME NEW u \in User, NEW p \in Project,
             job' = [job EXCEPT ![r] = [kind |-> "drop", user |-> u, project |-> p]],
             Goto(r, IF Mine(u, p) THEN "delete" ELSE "denied")
      PROVE  Inv'
  <2> DEFINE j == [kind |-> "drop", user |-> u, project |-> p]
  <2>1. j \in Deletion /\ j.kind = "drop"
    BY DEF Deletion
  <2>2. job' = [job EXCEPT ![r] = j]
    BY <1>5
  <2> HIDE DEF j
  <2>3. CASE Mine(u, p)
    BY <1>2, <1>5, <2>1, <2>2, <2>3
  <2>4. CASE ~Mine(u, p)
    BY <1>3, <1>5, <2>2, <2>4
  <2> QED
    BY <2>3, <2>4
<1> QED
  BY <1>4, <1>5 DEF Find

\* A step that deletes documents or takes their project from them.
LEMMA DeleteStep ==
    ASSUME Inv, NEW r \in Req, pc[r] = "delete", Goto(r, "done"),
           UNCHANGED <<clock, job, got>>, projects' \subseteq projects,
           docs' \subseteq Document,
           \A e \in docs' : \E d \in docs :
             /\ e.at = d.at /\ e.user = d.user /\ e.took = d.took /\ e.file = d.file
             /\ e.project # None => e.project = d.project /\ e.project \in projects',
           \A e, f \in docs' : e.at = f.at => e = f,
           \A q \in Req : pc[q] = "commit" => job[q].project \in projects' \cup {None}
    PROVE  Inv'
<1>1. /\ pc' = [pc EXCEPT ![r] = "done"] /\ pc'[r] = "done"
      /\ \A q \in Req \ {r} : pc'[q] = pc[q]
  BY DEF Goto, Inv, TypeOK
<1>2. TypeOK'
  BY <1>1 DEF Inv, TypeOK, Sending, Answers
<1>3. Whole'
  BY <1>1 DEF Inv, Whole, Sending
<1>4. Shelved'
  BY DEF Inv, Shelved
<1>5. UploadsArriveWhole'
  BY DEF Inv, UploadsArriveWhole
<1>6. Pending'
  <2>1. \A q \in Req : pc'[q] \in Storing => pc'[q] = pc[q]
    BY <1>1 DEF Storing
  <2>2. ASSUME NEW q \in Req, pc'[q] \in Storing, NEW e \in docs'
        PROVE  e.at # job[q].at
    BY <2>1, <2>2 DEF Inv, Pending
  <2> QED
    BY <2>1, <2>2 DEF Inv, Pending
<1>7. Named'
  <2>1. \A q \in Req : pc'[q] \in Storing \cup {"delete"} => pc'[q] = pc[q]
    BY <1>1 DEF Storing
  <2>2. ASSUME NEW q \in Req, pc'[q] = "delete", job[q].kind = "forget",
               NEW e \in docs', e.at = job[q].at
        PROVE  e.user = job[q].user
    BY <2>1, <2>2 DEF Inv, Named
  <2> QED
    BY <2>1, <2>2 DEF Inv, Named
<1> QED
  BY <1>2, <1>3, <1>4, <1>5, <1>6, <1>7 DEF Inv

LEMMA ForgetStep ==
    ASSUME Inv, NEW r \in Req, Forget(r)
    PROVE  Inv'
<1>1. /\ pc[r] = "delete" /\ Goto(r, "done") /\ UNCHANGED <<projects, clock, job, got>>
      /\ docs' \subseteq docs
  BY DEF Forget
<1>2. /\ docs' \subseteq Document
      /\ \A d \in docs : d.project = None \/ d.project \in projects
      /\ \A d, e \in docs : d.at = e.at => d = e
      /\ \A q \in Req : pc[q] = "commit" => job[q].project \in projects \cup {None}
  BY <1>1 DEF Inv, TypeOK, Shelved, Pending, Storing
<1>3. \A e \in docs' : \E d \in docs :
        /\ e.at = d.at /\ e.user = d.user /\ e.took = d.took /\ e.file = d.file
        /\ e.project # None => e.project = d.project /\ e.project \in projects'
  BY <1>1, <1>2
<1>4. /\ \A e, f \in docs' : e.at = f.at => e = f
      /\ \A q \in Req : pc[q] = "commit" => job[q].project \in projects' \cup {None}
  BY <1>1, <1>2
<1> QED
  BY <1>1, <1>2, <1>3, <1>4, DeleteStep

\* What is left of a document when its project goes.
LEMMA UnlinkedDocument ==
    ASSUME NEW d \in Document
    PROVE  /\ [d EXCEPT !.project = None] \in Document
           /\ [d EXCEPT !.project = None].project = None
           /\ [d EXCEPT !.project = None].at = d.at
           /\ [d EXCEPT !.project = None].user = d.user
           /\ [d EXCEPT !.project = None].took = d.took
           /\ [d EXCEPT !.project = None].file = d.file
BY DEF Document

LEMMA DropStep ==
    ASSUME Inv, NEW r \in Req, DropProject(r)
    PROVE  Inv'
<1> DEFINE p == job[r].project
<1>1. /\ pc[r] = "delete" /\ Goto(r, "done") /\ UNCHANGED <<clock, job, got>>
      /\ projects' = projects \ {p} /\ docs' = Unlinked(p)
      /\ \A q \in Req : pc[q] = "commit" => job[q].project # p
  BY DEF DropProject
<1>2. /\ docs \subseteq Document
      /\ \A d \in docs : d.project = None \/ d.project \in projects
      /\ \A d, e \in docs : d.at = e.at => d = e
      /\ \A q \in Req : pc[q] = "commit" => job[q].project \in projects \cup {None}
  BY DEF Inv, TypeOK, Shelved, Pending, Storing
<1> HIDE DEF p
<1>3. ASSUME NEW e \in docs'
      PROVE  /\ e \in Document
             /\ \E d \in docs :
                  /\ e = IF d.project = p THEN [d EXCEPT !.project = None] ELSE d
                  /\ e.at = d.at /\ e.user = d.user /\ e.took = d.took /\ e.file = d.file
                  /\ e.project # None => e.project = d.project /\ e.project \in projects'
  <2>1. PICK d \in docs : e = IF d.project = p THEN [d EXCEPT !.project = None] ELSE d
    BY <1>1, <1>3 DEF Unlinked
  <2>2. CASE d.project = p
    BY <1>2, <2>1, <2>2, UnlinkedDocument
  <2>3. CASE d.project # p
    BY <1>1, <1>2, <2>1, <2>3
  <2> QED
    BY <2>2, <2>3
<1>4. ASSUME NEW e \in docs', NEW f \in docs', e.at = f.at PROVE e = f
  <2>1. PICK d \in docs : /\ e = IF d.project = p THEN [d EXCEPT !.project = None] ELSE d
                          /\ e.at = d.at
    BY <1>3
  <2>2. PICK g \in docs : /\ f = IF g.project = p THEN [g EXCEPT !.project = None] ELSE g
                          /\ f.at = g.at
    BY <1>3
  <2>3. d = g
    BY <1>2, <1>4, <2>1, <2>2
  <2> QED
    BY <2>1, <2>2, <2>3
<1>5. /\ projects' \subseteq projects /\ docs' \subseteq Document
      /\ \A q \in Req : pc[q] = "commit" => job[q].project \in projects' \cup {None}
  BY <1>1, <1>2, <1>3
<1>6. \A e \in docs' : \E d \in docs :
        /\ e.at = d.at /\ e.user = d.user /\ e.took = d.took /\ e.file = d.file
        /\ e.project # None => e.project = d.project /\ e.project \in projects'
  BY <1>3
<1> QED
  BY <1>1, <1>4, <1>5, <1>6, DeleteStep

-----------------------------------------------------------------------------
(* The theorems *)

LEMMA InvStep == Inv /\ [Next]_vars => Inv'
<1> SUFFICES ASSUME Inv, [Next]_vars PROVE Inv'
  OBVIOUS
<1>1. ASSUME NEW r \in Req, BadLength(r) \/ Disconnect(r) PROVE Inv'
  BY <1>1, EndStep DEF BadLength, Disconnect, Answers
<1>2. CASE UNCHANGED vars
  BY <1>2 DEF vars, Inv, TypeOK, Whole, Shelved, Pending, Named, UploadsArriveWhole
<1>3. AllAnswered => UNCHANGED vars
  BY DEF AllAnswered
<1> QED
  BY <1>1, <1>2, <1>3, ArriveStep, PieceStep, BeginStep, ReadFileStep, InsertStep,
     CommitStep, FindStep, ForgetStep, DropStep DEF Next

LEMMA Inductive == Spec => []Inv
BY InvInit, InvStep, PTL DEF Spec

\* A document is the whole of what was sent, however its body was cut into pieces and
\* wherever the client left.
THEOREM WholeUploads == Spec => []UploadsArriveWhole
BY Inductive, PTL DEF Inv

\* What a step may do to a document.
LEMMA DocumentSteps ==
    ASSUME Inv, [Next]_vars, NEW d \in docs
    PROVE  \/ d \in docs'
           \/ /\ d.project # None /\ d.project \notin projects'
              /\ [d EXCEPT !.project = None] \in docs'
           \/ \E r \in Req : /\ pc[r] = "delete" /\ pc'[r] = "done"
                             /\ job[r].kind = "forget" /\ job[r].at = d.at
                             /\ job[r].user = d.user
<1>1. CASE docs' = docs
  BY <1>1
<1>2. ASSUME NEW r \in Req, Commit(r) PROVE d \in docs'
  BY <1>2 DEF Commit
<1>3. ASSUME NEW r \in Req, Forget(r)
      PROVE  \/ d \in docs'
             \/ /\ pc[r] = "delete" /\ pc'[r] = "done"
                /\ job[r].kind = "forget" /\ job[r].at = d.at
                /\ job[r].user = d.user
  <2>1. /\ pc[r] = "delete" /\ job[r].kind = "forget" /\ pc'[r] = "done"
        /\ docs' = {e \in docs : e.at # job[r].at}
    BY <1>3 DEF Forget, Goto, Inv, TypeOK
  <2> QED
    BY <2>1 DEF Inv, Named
<1>4. ASSUME NEW r \in Req, DropProject(r)
      PROVE  \/ d \in docs'
             \/ /\ d.project # None /\ d.project \notin projects'
                /\ [d EXCEPT !.project = None] \in docs'
  <2>1. /\ docs' = Unlinked(job[r].project) /\ projects' = projects \ {job[r].project}
        /\ job[r].project \in Project
    BY <1>4 DEF DropProject, Inv, TypeOK, Deletion
  <2>2. job[r].project # None
    BY <2>1, KnowledgeAssumption
  <2> QED
    BY <2>1, <2>2 DEF Unlinked
<1>5. \/ docs' = docs
      \/ \E r \in Req : Commit(r) \/ Forget(r) \/ DropProject(r)
  BY DEF Next, Arrive, BadLength, Piece, Disconnect, Begin, ReadFile, Insert, Find,
         AllAnswered, vars
<1> QED
  BY <1>1, <1>2, <1>3, <1>4, <1>5

\* No project takes a document with it, and no document goes, changes or keeps a
\* project that is gone but as its own user asked.
THEOREM DocumentsSurvive == Spec => DocumentsOutliveProjects
<1>1. Inv /\ Inv' /\ [Next]_vars =>
        [/\ \A d \in docs :
              \/ d \in docs'
              \/ /\ d.project # None /\ d.project \notin projects'
                 /\ [d EXCEPT !.project = None] \in docs'
              \/ \E r \in Req : /\ pc[r] = "delete" /\ pc'[r] = "done"
                                /\ job[r].kind = "forget" /\ job[r].at = d.at
                                /\ job[r].user = d.user
         /\ \A d \in docs' :
              d.project # None => d.project \in projects' /\ Owner[d.project] = d.user]_vars
  BY DocumentSteps DEF Inv, Shelved
<1> QED
  BY <1>1, Inductive, PTL DEF Spec, DocumentsOutliveProjects

-----------------------------------------------------------------------------
(* The score is a number: sums of numbers over finite sets exist *)

\* The sum as the recursive function it is defined by, on the sets of D.
Summed(f, g, D) ==
    [s \in D |-> IF s = {} THEN 0
                 ELSE f[CHOOSE x \in s : TRUE] + g[s \ {CHOOSE x \in s : TRUE}]]
Total(f, S) == CHOOSE g : g = Summed(f, g, SUBSET S)
UpTo(S, n)  == {s \in SUBSET S : Cardinality(s) <= n}

LEMMA SumIsTotal ==
    ASSUME NEW f, NEW S
    PROVE  SumFunctionOnSet(f, S) = Total(f, S)[S]
BY DEF SumFunctionOnSet, FoldFunctionOnSet, MapThenFoldSet, Total, Summed

\* The recursion is well-founded: a set without one of its elements is smaller.
LEMMA OneLess ==
    ASSUME NEW S, IsFiniteSet(S), NEW s \in SUBSET S, s # {}
    PROVE  LET x == CHOOSE y \in s : TRUE IN
           /\ x \in s /\ s \ {x} \in SUBSET S /\ Cardinality(s) \in Nat \ {0}
           /\ Cardinality(s \ {x}) = Cardinality(s) - 1
<1> DEFINE x == CHOOSE y \in s : TRUE
<1>1. x \in s
  OBVIOUS
<1> HIDE DEF x
<1>2. IsFiniteSet(s) /\ Cardinality(s) \in Nat /\ Cardinality(s) # 0
  BY FS_Subset, FS_CardinalityType, FS_EmptySet
<1>3. Cardinality(s \ {x}) = Cardinality(s) - 1
  BY <1>1, <1>2, FS_RemoveElement
<1> QED
  BY <1>1, <1>2, <1>3 DEF x

LEMMA SumExists ==
    ASSUME NEW f, NEW S, IsFiniteSet(S), NEW n \in Nat
    PROVE  \E g : g = Summed(f, g, UpTo(S, n))
<1> DEFINE Bad == {k \in Nat : ~\E g : g = Summed(f, g, UpTo(S, k))}
<1> SUFFICES ASSUME Bad # {} PROVE FALSE
  OBVIOUS
<1>1. PICK k \in Bad : \A j \in Bad : k <= j
  <2>1. Bad \subseteq Nat
    OBVIOUS
  <2> HIDE DEF Bad
  <2> QED
    BY <2>1, LeastNumber
<1>2. k \in Nat
  OBVIOUS
<1>3. CASE k = 0
  <2> DEFINE g == [s \in UpTo(S, 0) |-> 0]
  <2>1. \A s \in UpTo(S, 0) : s = {}
    <3> SUFFICES ASSUME NEW s \in SUBSET S, Cardinality(s) <= 0, s # {} PROVE FALSE
      BY DEF UpTo
    <3>1. Cardinality(s) \in Nat \ {0}
      BY OneLess
    <3> QED
      BY <3>1
  <2>2. g = Summed(f, g, UpTo(S, 0))
    BY <2>1 DEF Summed
  <2> QED
    BY <1>3, <2>2
<1>4. CASE k # 0
  <2>1. k - 1 \in Nat /\ k - 1 \notin Bad
    BY <1>1, <1>2, <1>4
  <2>2. PICK g : g = Summed(f, g, UpTo(S, k - 1))
    BY <2>1
  <2> DEFINE h == Summed(f, g, UpTo(S, k))
             Less(s) == s \ {CHOOSE x \in s : TRUE}
  <2>3. ASSUME NEW s \in UpTo(S, k), s # {}
        PROVE  h[Less(s)] = g[Less(s)]
    <3> DEFINE t == Less(s)
    <3>1. t \in UpTo(S, k - 1) /\ t \in UpTo(S, k)
      <4>1. s \in SUBSET S /\ Cardinality(s) <= k
        BY DEF UpTo
      <4>2. t \in SUBSET S /\ Cardinality(s) \in Nat /\ Cardinality(t) = Cardinality(s) - 1
        BY <2>3, <4>1, OneLess
      <4>3. Cardinality(t) <= k - 1 /\ Cardinality(t) <= k
        BY <1>2, <4>1, <4>2
      <4> HIDE DEF t
      <4> QED
        BY <4>2, <4>3 DEF UpTo
    <3> HIDE DEF t
    <3>2. h[t] = IF t = {} THEN 0 ELSE f[CHOOSE x \in t : TRUE] + g[Less(t)]
      BY <3>1 DEF Summed
    <3>3. g[t] = IF t = {} THEN 0 ELSE f[CHOOSE x \in t : TRUE] + g[Less(t)]
      BY <2>2, <3>1 DEF Summed
    <3> QED
      BY <3>2, <3>3 DEF t
  <2>4. h = [s \in UpTo(S, k) |->
               IF s = {} THEN 0 ELSE f[CHOOSE x \in s : TRUE] + h[Less(s)]]
    <3>1. h = [s \in UpTo(S, k) |->
                 IF s = {} THEN 0 ELSE f[CHOOSE x \in s : TRUE] + g[Less(s)]]
      BY DEF Summed
    <3> HIDE DEF h, Less
    <3>2. \A s \in UpTo(S, k) : s # {} => h[Less(s)] = g[Less(s)]
      BY <2>3
    <3> QED
      BY <3>1, <3>2
  <2>5. h = Summed(f, h, UpTo(S, k))
    <3> HIDE DEF h
    <3> QED
      BY <2>4 DEF Summed
  <2> QED
    BY <2>5
<1> QED
  BY <1>3, <1>4

LEMMA SumIsNumber ==
    ASSUME NEW f, NEW S, IsFiniteSet(S), \A x \in S : f[x] \in Nat
    PROVE  SumFunctionOnSet(f, S) \in Nat
<1> DEFINE g == Total(f, S)
           Bad == {n \in Nat : \E s \in SUBSET S : Cardinality(s) = n /\ g[s] \notin Nat}
<1>1. UpTo(S, Cardinality(S)) = SUBSET S /\ Cardinality(S) \in Nat
  BY FS_Subset, FS_CardinalityType DEF UpTo
<1>2. \E t : t = Summed(f, t, SUBSET S)
  BY <1>1, SumExists
<1>3. g = Summed(f, g, SUBSET S)
  BY <1>2 DEF Total
<1> HIDE DEF g
<1>4. Bad = {}
  <2> SUFFICES ASSUME Bad # {} PROVE FALSE
    OBVIOUS
  <2>1. PICK n \in Bad : \A m \in Bad : n <= m
    <3>1. Bad \subseteq Nat
      OBVIOUS
    <3> HIDE DEF Bad
    <3> QED
      BY <3>1, LeastNumber
  <2>2. PICK s \in SUBSET S : Cardinality(s) = n /\ g[s] \notin Nat
    OBVIOUS
  <2>3. CASE s = {}
    BY <1>3, <2>2, <2>3 DEF Summed
  <2>4. CASE s # {}
    <3> DEFINE x == CHOOSE y \in s : TRUE
               t == s \ {x}
    <3>1. /\ x \in s /\ t \in SUBSET S /\ Cardinality(s) \in Nat \ {0}
          /\ Cardinality(t) = Cardinality(s) - 1
      BY <2>4, OneLess
    <3>2. g[s] = f[x] + g[t]
      BY <1>3, <2>4 DEF Summed
    <3> HIDE DEF x, t
    <3>3. f[x] \in Nat
      BY <3>1
    <3>4. g[t] \in Nat
      <4>1. n - 1 \in Nat /\ n - 1 \notin Bad
        BY <2>1, <2>2, <3>1
      <4> QED
        BY <2>2, <3>1, <4>1
    <3> QED
      BY <2>2, <3>2, <3>3, <3>4
  <2> QED
    BY <2>3, <2>4
<1>5. g[S] \in Nat
  BY <1>1, <1>4
<1> QED
  BY <1>5, SumIsTotal DEF g

LEMMA ScoreIsNumber ==
    \A f \in Texts, q \in Queries : Score[f][q] \in Nat
<1> SUFFICES ASSUME NEW f \in Texts, NEW q \in Queries PROVE Score[f][q] \in Nat
  OBVIOUS
<1> DEFINE Q == {Norm[q[i]] : i \in DOMAIN q}
           Count(text, t) == SumFunctionOnSet(text, {w \in Word : Norm[w] = t})
           worth == [t \in Q |-> Min({Count(f.text, t), 4}) + 2 * Min({Count(f.title, t), 2})]
           some == {t \in Q : worth[t] > 0}
<1>1. /\ q \in Seq(Word) /\ IsFiniteSet(Word)
      /\ f.title \in [Word -> Nat] /\ f.text \in [Word -> Nat]
  BY KnowledgeAssumption, InputsAssumption
<1>2. IsFiniteSet(Q)
  <2>1. [i \in 1..Len(q) |-> Norm[q[i]]] \in Surjection(1..Len(q), Q)
    <3> DEFINE m == [i \in 1..Len(q) |-> Norm[q[i]]]
    <3>1. DOMAIN q = 1..Len(q)
      BY <1>1
    <3>2. m \in [1..Len(q) -> Q]
      BY <3>1
    <3>3. \A t \in Q : \E i \in 1..Len(q) : m[i] = t
      BY <3>1
    <3> HIDE DEF m, Q
    <3>4. m \in Surjection(1..Len(q), Q)
      BY <3>2, <3>3 DEF Surjection
    <3> QED
      BY <3>4 DEF m
  <2>2. IsFiniteSet(1..Len(q))
    BY <1>1, FS_Interval
  <2> QED
    BY <2>1, <2>2, FS_Surjection
<1>3. ASSUME NEW t, NEW text \in [Word -> Nat] PROVE Count(text, t) \in Nat
  <2>1. IsFiniteSet({w \in Word : Norm[w] = t})
    BY <1>1, FS_Subset
  <2> QED
    BY <2>1, SumIsNumber
<1>4. \A t \in Q : worth[t] \in Nat
  <2> SUFFICES ASSUME NEW t \in Q PROVE worth[t] \in Nat
    OBVIOUS
  <2>1. Count(f.text, t) \in Nat /\ Count(f.title, t) \in Nat
    BY <1>1, <1>3
  <2> DEFINE a == Count(f.text, t)
             b == Count(f.title, t)
  <2>2. worth[t] = Min({a, 4}) + 2 * Min({b, 2})
    OBVIOUS
  <2> HIDE DEF a, b, worth
  <2>3. Min({a, 4}) \in Nat /\ Min({b, 2}) \in Nat
    BY <2>1, MinPair DEF a, b
  <2> QED
    BY <2>2, <2>3
<1>5. SumFunction(worth) \in Nat
  <2>1. DOMAIN worth = Q
    OBVIOUS
  <2> HIDE DEF worth, Q
  <2> QED
    BY <1>2, <1>4, <2>1, SumIsNumber DEF SumFunction
<1>6. Cardinality(Q) \in Nat /\ Cardinality(some) \in Nat
  <2>1. some \in SUBSET Q
    OBVIOUS
  <2> HIDE DEF some, Q
  <2> QED
    BY <1>2, <2>1, FS_Subset, FS_CardinalityType
<1>7. Score[f][q] = IF \A w \in Word : f.text[w] = 0 THEN 0
                    ELSE Cardinality(Q) * SumFunction(worth) + 4 * Cardinality(some)
  BY DEF Score
<1> HIDE DEF Q, worth, some
<1>8. \A x, y, z \in Nat : x * y + 4 * z \in Nat
  OBVIOUS
<1> QED
  BY <1>5, <1>6, <1>7, <1>8

\* A search for nothing ranks nothing.
LEMMA NothingScoresNothing ==
    ASSUME NEW f \in Texts, NEW q \in Queries, q = <<>>
    PROVE  Score[f][q] = 0
<1> DEFINE Q == {Norm[q[i]] : i \in DOMAIN q}
           Count(text, t) == SumFunctionOnSet(text, {w \in Word : Norm[w] = t})
           worth == [t \in Q |-> Min({Count(f.text, t), 4}) + 2 * Min({Count(f.title, t), 2})]
           some == {t \in Q : worth[t] > 0}
<1>1. Q = {} /\ DOMAIN worth = {} /\ some = {}
  OBVIOUS
<1>2. Score[f][q] = IF \A w \in Word : f.text[w] = 0 THEN 0
                    ELSE Cardinality(Q) * SumFunction(worth) + 4 * Cardinality(some)
  BY DEF Score
<1> HIDE DEF Q, worth, some
<1>3. SumFunction(worth) \in Nat
  BY <1>1, FS_EmptySet, SumIsNumber DEF SumFunction
<1>4. Cardinality(Q) = 0 /\ Cardinality(some) = 0
  BY <1>1, FS_EmptySet
<1> QED
  BY <1>2, <1>3, <1>4

-----------------------------------------------------------------------------
(* The first n of a finite set in a strict order, given as a set of pairs *)

Orders(R, S) ==
    /\ \A x \in S : <<x, x>> \notin R
    /\ \A x, y, z \in S : <<x, y>> \in R /\ <<y, z>> \in R => <<x, z>> \in R
    /\ \A x, y \in S : x # y => <<x, y>> \in R \/ <<y, x>> \in R

Before(R, S, x)  == {y \in S : <<y, x>> \in R}
Place(R, S, x)   == Cardinality(Before(R, S, x))
Foremost(R, S, n) == {x \in S : Place(R, S, x) < n}

LEMMA PlaceIsNumber ==
    ASSUME NEW R, NEW S, IsFiniteSet(S), NEW x
    PROVE  IsFiniteSet(Before(R, S, x)) /\ Place(R, S, x) \in Nat
BY FS_Subset, FS_CardinalityType DEF Before, Place

\* Who comes earlier has the smaller place.
LEMMA PlacesGrow ==
    ASSUME NEW R, NEW S, IsFiniteSet(S), Orders(R, S),
           NEW x \in S, NEW y \in S, <<x, y>> \in R
    PROVE  Place(R, S, x) < Place(R, S, y)
<1> DEFINE A == Before(R, S, x)
           B == Before(R, S, y)
<1>1. A \subseteq B /\ x \in B /\ x \notin A
  BY DEF Orders, Before
<1>2. IsFiniteSet(A) /\ IsFiniteSet(B) /\ Cardinality(A) \in Nat /\ Cardinality(B) \in Nat
  BY PlaceIsNumber DEF Place
<1> HIDE DEF A, B
<1>3. Cardinality(A) <= Cardinality(B) /\ Cardinality(A) # Cardinality(B)
  BY <1>1, <1>2, FS_Subset
<1>4. Cardinality(A) < Cardinality(B)
  BY <1>2, <1>3
<1> QED
  BY <1>4 DEF Place, A, B

\* The earliest of a set.
LEMMA Earliest ==
    ASSUME NEW R, NEW S, IsFiniteSet(S), Orders(R, S), NEW T \in SUBSET S, T # {}
    PROVE  \E x \in T : \A y \in T : y # x => <<x, y>> \in R
<1> DEFINE P == {Place(R, S, x) : x \in T}
<1>1. PICK p \in P : \A k \in P : p <= k
  <2>1. P \subseteq Nat /\ P # {}
    BY PlaceIsNumber
  <2> HIDE DEF P
  <2> QED
    BY <2>1, LeastNumber
<1>2. PICK x \in T : p = Place(R, S, x)
  OBVIOUS
<1>3. ASSUME NEW y \in T, y # x PROVE <<x, y>> \in R
  <2> SUFFICES ASSUME <<y, x>> \in R PROVE FALSE
    BY <1>3 DEF Orders
  <2>1. Place(R, S, y) < Place(R, S, x)
    BY PlacesGrow
  <2>2. Place(R, S, x) <= Place(R, S, y)
    BY <1>1, <1>2
  <2>3. Place(R, S, x) \in Nat /\ Place(R, S, y) \in Nat
    BY PlaceIsNumber
  <2> QED
    BY <2>1, <2>2, <2>3
<1> QED
  BY <1>3

\* The latest of a set: the earliest in the order turned round.
LEMMA Latest ==
    ASSUME NEW R, NEW S, IsFiniteSet(S), Orders(R, S), NEW T \in SUBSET S, T # {}
    PROVE  \E x \in T : \A y \in T : y # x => <<y, x>> \in R
<1> DEFINE Q == {p \in S \X S : <<p[2], p[1]>> \in R}
<1>1. \A x, y \in S : <<x, y>> \in Q <=> <<y, x>> \in R
  OBVIOUS
<1> HIDE DEF Q
<1>2. Orders(Q, S)
  BY <1>1 DEF Orders
<1>3. PICK x \in T : \A y \in T : y # x => <<x, y>> \in Q
  BY <1>2, Earliest
<1> QED
  BY <1>1, <1>3

\* There are no more than n of them, and one is left out when there are n before it.
LEMMA ForemostFew ==
    ASSUME NEW R, NEW S, IsFiniteSet(S), Orders(R, S), NEW n \in Nat
    PROVE  Cardinality(Foremost(R, S, n)) <= n
<1> DEFINE T == Foremost(R, S, n)
<1>1. T \in SUBSET S /\ IsFiniteSet(T) /\ Cardinality(T) \in Nat
  BY FS_Subset, FS_CardinalityType DEF Foremost
<1>2. CASE T = {}
  BY <1>2, FS_EmptySet
<1>3. CASE T # {}
  <2>1. PICK x \in T : \A y \in T : y # x => <<y, x>> \in R
    BY <1>1, <1>3, Latest
  <2>2. Place(R, S, x) < n /\ Place(R, S, x) \in Nat /\ IsFiniteSet(Before(R, S, x))
    BY PlaceIsNumber DEF Foremost
  <2> HIDE DEF T
  <2>3. T \ {x} \in SUBSET Before(R, S, x)
    BY <1>1, <2>1 DEF Before
  <2>4. Cardinality(T \ {x}) <= Place(R, S, x)
    BY <2>2, <2>3, FS_Subset DEF Place
  <2>5. Cardinality(T \ {x}) = Cardinality(T) - 1
    BY <1>1, <2>1, FS_RemoveElement
  <2>6. Cardinality(T) <= n
    BY <1>1, <2>2, <2>4, <2>5
  <2> QED
    BY <2>6 DEF T
<1> QED
  BY <1>2, <1>3

LEMMA ForemostFull ==
    ASSUME NEW R, NEW S, IsFiniteSet(S), Orders(R, S), NEW n \in Nat,
           NEW x \in S \ Foremost(R, S, n)
    PROVE  /\ Cardinality(Foremost(R, S, n)) = n
           /\ \A y \in Foremost(R, S, n) : <<y, x>> \in R
<1> DEFINE T == Foremost(R, S, n)
<1>1. T \in SUBSET S /\ IsFiniteSet(T) /\ Cardinality(T) \in Nat
  BY FS_Subset, FS_CardinalityType DEF Foremost
<1>2. \A y \in T, z \in S \ T : <<y, z>> \in R
  <2> SUFFICES ASSUME NEW y \in T, NEW z \in S \ T, <<y, z>> \notin R PROVE FALSE
    OBVIOUS
  <2>1. Place(R, S, y) < n /\ ~(Place(R, S, z) < n) /\ y \in S /\ z \in S
    BY DEF Foremost
  <2>2. y # z
    OBVIOUS
  <2> HIDE DEF T
  <2>3. <<z, y>> \in R
    BY <2>1, <2>2 DEF Orders
  <2>4. Place(R, S, z) < Place(R, S, y)
    BY <2>1, <2>3, PlacesGrow
  <2>5. Place(R, S, y) \in Nat /\ Place(R, S, z) \in Nat
    BY PlaceIsNumber
  <2> QED
    BY <2>1, <2>4, <2>5
<1>3. PICK u \in S \ T : \A y \in S \ T : y # u => <<u, y>> \in R
  <2>1. S \ T \in SUBSET S /\ S \ T # {}
    OBVIOUS
  <2> HIDE DEF T
  <2> QED
    BY <2>1, Earliest
<1>4. Before(R, S, u) \in SUBSET T
  BY <1>3 DEF Before, Orders
<1>5. Cardinality(Before(R, S, u)) <= Cardinality(T)
  BY <1>1, <1>4, FS_Subset
<1>6. Place(R, S, u) \in Nat /\ ~(Place(R, S, u) < n)
  BY PlaceIsNumber DEF Foremost
<1>7. Cardinality(T) <= n
  BY ForemostFew
<1> HIDE DEF T
<1>8. Cardinality(T) = n
  BY <1>1, <1>5, <1>6, <1>7 DEF Place
<1> QED
  BY <1>2, <1>8 DEF T

-----------------------------------------------------------------------------
(* The search *)

LEMMA FinitelyMany ==
    ASSUME Inv
    PROVE  IsFiniteSet(docs)
<1>1. [d \in docs |-> d.at] \in Injection(docs, 0..clock)
  <2>1. \A d \in docs : d.at \in Nat /\ d.at <= clock
    BY DEF Inv, TypeOK, Shelved, Document
  <2>2. clock \in Nat /\ \A d, e \in docs : d.at = e.at => d = e
    BY DEF Inv, TypeOK, Shelved
  <2>3. [d \in docs |-> d.at] \in [docs -> 0..clock]
    BY <2>1, <2>2
  <2> DEFINE f == [d \in docs |-> d.at]
  <2>4. \A d, e \in docs : f[d] = f[e] => d = e
    BY <2>2
  <2> QED
    BY <2>3, <2>4 DEF Injection, IsInjective
<1>2. IsFiniteSet(0..clock)
  BY FS_Interval DEF Inv, TypeOK
<1> QED
  BY <1>1, <1>2, FS_Injection

\* The documents that may be searched are the user's of the project, or of none; those
\* with one of the terms are found, and left out only behind as many newer ones.
LEMMA CandidatesAreTheNewest ==
    ASSUME Inv, NEW q \in Queries, NEW u \in User, NEW p \in Project \cup {None},
           NEW d \in docs, InScope(d, u, p), Like[d.file][q], d \notin Candidates(q, u, p)
    PROVE  Cardinality({e \in docs : InScope(e, u, p) /\ Like[e.file][q] /\ e.at > d.at})
             >= Newest
<1> DEFINE found == {e \in docs : InScope(e, u, p) /\ Like[e.file][q]}
           newer == {e \in found : e.at > d.at}
<1>1. Cardinality(newer) \in Nat
  BY FinitelyMany, FS_Subset, FS_CardinalityType
<1>2. ~(Cardinality(newer) < Newest)
  BY DEF Candidates
<1>3. newer = {e \in docs : InScope(e, u, p) /\ Like[e.file][q] /\ e.at > d.at}
  OBVIOUS
<1>4. Newest \in Nat
  BY KnowledgeAssumption
<1> HIDE DEF newer
<1> QED
  BY <1>1, <1>2, <1>3, <1>4

\* The ranker orders the candidates.
Ranked(S, q) == {x \in S \X S :
    \/ Score[x[1].file][q] > Score[x[2].file][q]
    \/ Score[x[1].file][q] = Score[x[2].file][q] /\ x[1].at > x[2].at}

LEMMA RankedOrders ==
    ASSUME Inv, NEW q \in Queries, NEW S \in SUBSET docs
    PROVE  Orders(Ranked(S, q), S)
<1>1. \A d \in S : d.at \in Nat /\ Score[d.file][q] \in Nat
  BY ScoreIsNumber DEF Inv, TypeOK, Document
<1>2. \A d, e \in S : d.at = e.at => d = e
  BY DEF Inv, Shelved
<1>3. \A d, e \in S : <<d, e>> \in Ranked(S, q) <=>
        \/ Score[d.file][q] > Score[e.file][q]
        \/ Score[d.file][q] = Score[e.file][q] /\ d.at > e.at
  BY DEF Ranked
<1> QED
  BY <1>1, <1>2, <1>3 DEF Orders

LEMMA RelevantAreForemost ==
    ASSUME NEW q, NEW u, NEW p
    PROVE  LET S == Candidates(q, u, p) IN
           Relevant(q, u, p) =
             {d \in Foremost(Ranked(S, q), S, Best) : Score[d.file][q] > 0}
<1> DEFINE S == Candidates(q, u, p)
           Ahead(e, d) == \/ Score[e.file][q] > Score[d.file][q]
                          \/ Score[e.file][q] = Score[d.file][q] /\ e.at > d.at
<1>1. Relevant(q, u, p) =
        {d \in S : Score[d.file][q] > 0 /\ Cardinality({e \in S : Ahead(e, d)}) < Best}
  BY DEF Relevant
<1> HIDE DEF S
<1>2. \A d \in S : {e \in S : Ahead(e, d)} = Before(Ranked(S, q), S, d)
  BY DEF Before, Ranked
<1> HIDE DEF Ahead
<1>3. \A d \in S : Cardinality({e \in S : Ahead(e, d)}) = Place(Ranked(S, q), S, d)
  BY <1>2 DEF Place
<1>4. Relevant(q, u, p) =
        {d \in S : Score[d.file][q] > 0 /\ Place(Ranked(S, q), S, d) < Best}
  BY <1>1, <1>3
<1>5. Relevant(q, u, p) = {d \in Foremost(Ranked(S, q), S, Best) : Score[d.file][q] > 0}
  BY <1>4 DEF Foremost
<1> QED
  BY <1>5 DEF S

\* What the ranker leaves out of the candidates.
LEMMA RelevantAreBest ==
    ASSUME Inv, NEW q \in Queries, NEW u \in User, NEW p \in Project \cup {None}
    PROVE  /\ Relevant(q, u, p) \subseteq Candidates(q, u, p)
           /\ Cardinality(Relevant(q, u, p)) <= Best
           /\ \A d \in Candidates(q, u, p) \ Relevant(q, u, p) :
                \/ Score[d.file][q] = 0
                \/ /\ Cardinality(Relevant(q, u, p)) = Best
                   /\ \A e \in Relevant(q, u, p) : Score[e.file][q] >= Score[d.file][q]
<1> DEFINE S == Candidates(q, u, p)
           R == Ranked(S, q)
           T == Foremost(R, S, Best)
           found == Relevant(q, u, p)
<1>1. S \in SUBSET docs /\ IsFiniteSet(docs) /\ Best \in Nat
  BY FinitelyMany, KnowledgeAssumption DEF Candidates
<1>2. IsFiniteSet(S) /\ Orders(R, S)
  BY <1>1, FS_Subset, RankedOrders
<1>3. found = {d \in T : Score[d.file][q] > 0}
  BY RelevantAreForemost
<1>4. \A d \in S : Score[d.file][q] \in Nat
  BY <1>1, ScoreIsNumber DEF Inv, TypeOK, Document
<1>5. \A d, e \in S : <<e, d>> \in R => Score[e.file][q] >= Score[d.file][q]
  BY <1>4 DEF Ranked
<1> HIDE DEF S, R, found
<1>6. T \in SUBSET S /\ IsFiniteSet(T) /\ Cardinality(T) \in Nat /\ Cardinality(T) <= Best
  BY <1>1, <1>2, FS_Subset, FS_CardinalityType, ForemostFew DEF Foremost
<1>7. \A d \in S \ T : Cardinality(T) = Best /\ \A e \in T : <<e, d>> \in R
  BY <1>1, <1>2, ForemostFull
<1> HIDE DEF T
<1>8. found \subseteq S /\ Cardinality(found) <= Best
  <2>1. found \in SUBSET T
    BY <1>3
  <2>2. Cardinality(found) <= Cardinality(T) /\ Cardinality(found) \in Nat
    BY <1>6, <2>1, FS_Subset, FS_CardinalityType
  <2> QED
    BY <1>1, <1>6, <2>1, <2>2
<1>9. ASSUME NEW d \in S \ found, Score[d.file][q] # 0
      PROVE  Cardinality(found) = Best /\ \A e \in found : Score[e.file][q] >= Score[d.file][q]
  <2>1. Score[d.file][q] \in Nat /\ Score[d.file][q] > 0
    BY <1>4, <1>9
  <2>2. d \notin T
    BY <1>3, <2>1
  <2>3. \A e \in T : e \in S /\ Score[e.file][q] >= Score[d.file][q]
    BY <1>5, <1>6, <1>7, <2>2
  <2>4. \A e \in T : Score[e.file][q] > 0
    BY <1>4, <2>1, <2>3
  <2>5. found = T
    BY <1>3, <2>4
  <2> QED
    BY <1>7, <2>2, <2>3, <2>5
<1> QED
  BY <1>8, <1>9 DEF S, found

LEMMA SearchIsBest == Inv => SearchFindsTheBest
<1> SUFFICES ASSUME Inv, NEW q \in Queries, NEW u \in User, NEW p \in Project \cup {None}
             PROVE  FindsTheBest(q, u, p)
  BY DEF SearchFindsTheBest
<1> DEFINE found == Relevant(q, u, p)
           scope == {d \in docs : d.user = u /\ (p = None \/ d.project \in {p, None})}
           has == [d \in scope |->
                     \E v \in Searched(q), w \in Word :
                       <<v, w>> \in Within /\ d.file.title[w] + d.file.text[w] > 0]
<1>1. scope \subseteq docs /\ \A d \in docs : d \in scope <=> InScope(d, u, p)
  BY DEF InScope
<1>2. \A d \in docs : d.file \in Texts
  BY DEF Inv, TypeOK, Document
<1>3. \A d \in scope : has[d] => Like[d.file][q]
  BY <1>1, <1>2 DEF Like
<1>4. q # <<>> => \A d \in scope : Like[d.file][q] => has[d]
  BY <1>1, <1>2 DEF Like
<1>5. q = <<>> => \A d \in scope : Score[d.file][q] = 0
  BY <1>1, <1>2, NothingScoresNothing
<1> HIDE DEF has, scope, found
<1>6. found \subseteq scope /\ Cardinality(found) <= Best
  <2>1. Candidates(q, u, p) \subseteq scope
    BY <1>1 DEF Candidates
  <2> QED
    BY <2>1, RelevantAreBest DEF found
<1>7. ASSUME NEW d \in scope \ found, has[d], Score[d.file][q] # 0,
             d \notin Candidates(q, u, p)
      PROVE  Cardinality({e \in scope : e.at > d.at /\ has[e]}) >= Newest
  <2>1. Cardinality({e \in docs : InScope(e, u, p) /\ Like[e.file][q] /\ e.at > d.at})
          >= Newest
    BY <1>1, <1>3, <1>7, CandidatesAreTheNewest
  <2>2. {e \in docs : InScope(e, u, p) /\ Like[e.file][q] /\ e.at > d.at}
          = {e \in scope : e.at > d.at /\ has[e]}
    BY <1>1, <1>3, <1>4, <1>5, <1>7
  <2> QED
    BY <2>1, <2>2
<1>8. ASSUME NEW d \in scope \ found, Score[d.file][q] # 0, d \in Candidates(q, u, p)
      PROVE  /\ Cardinality(found) = Best
             /\ \A e \in found : Score[e.file][q] >= Score[d.file][q]
  BY <1>8, RelevantAreBest DEF found
<1>9. \A d \in scope \ found :
        \/ ~has[d]
        \/ Cardinality({e \in scope : e.at > d.at /\ has[e]}) >= Newest
        \/ Score[d.file][q] = 0
        \/ /\ Cardinality(found) = Best
           /\ \A e \in found : Score[e.file][q] >= Score[d.file][q]
  BY <1>7, <1>8
<1> QED
  BY <1>6, <1>9 DEF FindsTheBest, has, scope, found

\* Whatever the documents, the terms and the limits: what a search leaves out it leaves
\* out for a reason.
THEOREM SearchIsFair == Spec => []SearchFindsTheBest
BY Inductive, SearchIsBest, PTL
==============================================================================

------------------------- MODULE MigrationsProofs -------------------------
(***************************************************************************)
(* What the migrations guarantee for every set of rows a database starts   *)
(* with, and every number of crashes, restarts and downgrades: the cleanup *)
(* of revision 4 is exact and in one piece, a version of PostgreSQL is a   *)
(* schema, the engine serves only on the foreign keys of its models, and   *)
(* PostgreSQL refuses nothing but the copy of too long an email.  The      *)
(* invariant says what a migration has reached after each statement of     *)
(* each script.                                                            *)
(***************************************************************************)
EXTENDS Migrations, SequenceTheorems, TLAPS

\* The objects a script has made or dropped before statement k.
Before(list, k) == UNION {list[i].objects : i \in 1..k - 1}

\* The schema of a migration that is between version v and the next, at statement k.
Reached(direction, v, k) ==
    IF direction = "upgrade"
      THEN IF v = Newest THEN SchemaOf(v) ELSE SchemaOf(v) \cup Before(Up[v + 1], k)
      ELSE IF v = 0 THEN {} ELSE SchemaOf(v) \ Before(Down[v], k)

\* PostgreSQL has exactly the schema; SQLite at least its foreign keys.
Fks(schema) == {o \in schema : o[1] = "fk"}
Match(schema, s) == /\ Fks(schema) = Fks(s)
                    /\ dialect = "postgresql" => schema = s

\* The rows in the course of the cleanup, of which k statements are done: those that
\* are kept, and what becomes of them.
HasUser(rows, r) == \E p \in rows : p.table = "users" /\ p.id = r.user
HasProject(rows, r) ==
    \E p \in rows : p.table = "projects" /\ p.id = r.project /\ HasUser(rows, p)
HasConversation(rows, r) ==
    \E c \in rows : c.table = "conversations" /\ c.id = r.conversation /\ HasUser(rows, c)
Kept(rows, k, r) ==
    /\ k >= 1 /\ r.table = "refresh_sessions" => HasUser(rows, r)
    /\ k >= 2 /\ r.table = "knowledge_documents" => HasUser(rows, r)
    /\ k >= 3 /\ r.table = "conversations" => HasUser(rows, r)
    /\ k >= 4 /\ r.table = "projects" => HasUser(rows, r)
    /\ k >= 8 /\ r.table = "messages" => HasConversation(rows, r)
Detached(rows, k, r) ==
    /\ r.project # None /\ ~HasProject(rows, r)
    /\ \/ k >= 5 /\ r.table = "conversations"
       \/ k >= 6 /\ r.table = "knowledge_documents"
Anonymous(rows, k, r) ==
    k >= 7 /\ r.table = "audit_events" /\ r.user # None /\ ~HasUser(rows, r)
Trimmed(rows, k, r) ==
    [r EXCEPT !.project = IF Detached(rows, k, r) THEN None ELSE @,
              !.user = IF Anonymous(rows, k, r) THEN None ELSE @]
Stage(rows, k) == {Trimmed(rows, k, r) : r \in {x \in rows : Kept(rows, k, x)}}

\* The rows of an upgrade that is between version v and the next, at statement k.
Progressed(v, k) ==
    CASE v = Newest     -> Cleaned(legacy)
      [] v = Newest - 1 -> Stage(legacy, IF k <= Len(Cleanup) THEN k - 1 ELSE Len(Cleanup))
      [] OTHER          -> legacy

\* What a database holds.
Db == [version: 0..Newest, schema: SUBSET SchemaOf(Newest), rows: SUBSET Row]

\* The types of the state; the bounds on crashes and downgrades play no part.
TypeOK ==
    /\ dialect \in {"postgresql", "sqlite"}
    /\ disk \in Db /\ work \in Db /\ legacy \in SUBSET Row
    /\ open \in BOOLEAN /\ pc \in {"down", "upgrade", "downgrade", "up"}
    /\ at \in Nat \ {0} /\ goal \in 0..Newest

\* Where a migration is between the versions.
Placed ==
    /\ pc = "upgrade" => goal = Newest
    /\ pc = "downgrade" => goal < Newest /\ work.version >= goal
    /\ Migrating => IF work.version = goal THEN at = 1 ELSE at <= Len(Script) + 1
    /\ pc = "up" => disk.version = Newest

\* What is not in a transaction is committed.  PostgreSQL is always in one, SQLite from
\* the first statement of revision 4, and of its downgrade, on.
Committed ==
    Migrating => /\ ~open => disk = work /\ dialect = "sqlite"
                 /\ dialect = "sqlite" => disk.version = work.version
                 /\ at > 1 /\ work.version = (IF pc = "upgrade" THEN 3 ELSE 4) => open

\* A committed version has its schema; a migration has reached the schema of the
\* statements it has run.
Schemas ==
    /\ Match(disk.schema, SchemaOf(disk.version))
    /\ Migrating => Match(work.schema, Reached(pc, work.version, at))

\* An upgrade has reached the rows of the statements it has run.
Rows == pc = "upgrade" => work.rows = Progressed(work.version, at)

\* The inductive invariant.  CleanupIsExact does not follow from itself: that the last
\* commit has the cleaned rows needs the rows after each statement, and that no commit
\* comes between them needs where a transaction is open.
Inv == TypeOK /\ Placed /\ Committed /\ Schemas /\ Rows /\ CleanupIsExact

-----------------------------------------------------------------------------
\* What the scripts consist of.  A leaf takes the statements with ON DELETE SET NULL one
\* at a time: the provers do not reason about a literal with a space.
Is(s, op, objects) == s.op = op /\ s.objects = objects

LEMMA Up1Is ==
    /\ DOMAIN Up1 = 1..4 /\ Len(Up1) = 4
    /\ Is(Up1[1], "make", {<<"users", "table">>})
    /\ Is(Up1[2], "make", {<<"projects", "table">>})
    /\ Is(Up1[3], "make", {<<"conversations", "table">>})
    /\ Is(Up1[4], "make", {<<"messages", "table">>})
BY DEF Up1, Make, Table, Is

LEMMA Up2Is ==
    /\ DOMAIN Up2 = 1..11 /\ Len(Up2) = 11
    /\ Is(Up2[1], "make", {<<"users", "display_name">>})
    /\ Is(Up2[2], "fill", {})
    /\ Is(Up2[3], "make", {<<"users", "updated_at">>})
    /\ Is(Up2[4], "make", {<<"projects", "description">>, <<"projects", "instructions">>,
                           <<"projects", "default_provider">>})
    /\ Is(Up2[5], "stamped", {<<"projects", "updated_at">>})
    /\ Is(Up2[6], "make", {<<"conversations", "provider">>})
    /\ Is(Up2[7], "stamped", {<<"conversations", "updated_at">>})
    /\ Is(Up2[8], "make", {<<"messages", "provider">>, <<"messages", "input_tokens">>,
                           <<"messages", "output_tokens">>})
    /\ Is(Up2[9], "make", {<<"refresh_sessions", "table">>,
                           <<"refresh_sessions", "user", "index">>})
    /\ Is(Up2[10], "make", {<<"knowledge_documents", "table">>,
                            <<"knowledge_documents", "user", "index">>,
                            <<"knowledge_documents", "project", "index">>})
    /\ Is(Up2[11], "make", {<<"audit_events", "table">>,
                            <<"audit_events", "user", "index">>,
                            <<"audit_events", "event_type", "index">>})
BY DEF Up2, Make, Fill, Stamped, Table, Index, Columns, Is

LEMMA Up3Is ==
    /\ DOMAIN Up3 = 1..6 /\ Len(Up3) = 6
    /\ Is(Up3[1], "make", {<<"conversations", "summary">>})
    /\ Is(Up3[2], "make", {<<"messages", "model">>})
    /\ Is(Up3[3], "make", {<<"messages", "estimated_cost_microusd">>})
    /\ Is(Up3[4], "make", {<<"projects", "user", "index">>})
    /\ Is(Up3[5], "make", {<<"conversations", "user", "index">>})
    /\ Is(Up3[6], "make", {<<"messages", "conversation", "index">>})
BY DEF Up3, Make, Index, Columns, Is

LEMMA LinksIs ==
    /\ DOMAIN Links = 1..9 /\ Len(Links) = 9
    /\ Is(Links[1], "link", {Fk("projects", "user", "users", "CASCADE")})
    /\ Is(Links[2], "link", {Fk("conversations", "project", "projects", "SET NULL")})
    /\ Is(Links[3], "link", {Fk("conversations", "user", "users", "CASCADE")})
    /\ Is(Links[4], "make", {<<"conversations", "project", "index">>})
    /\ Is(Links[5], "link", {Fk("messages", "conversation", "conversations", "CASCADE")})
    /\ Is(Links[6], "link", {Fk("refresh_sessions", "user", "users", "CASCADE")})
    /\ Is(Links[7], "link", {Fk("knowledge_documents", "user", "users", "CASCADE")})
    /\ Is(Links[8], "link", {Fk("knowledge_documents", "project", "projects", "SET NULL")})
    /\ Is(Links[9], "link", {Fk("audit_events", "user", "users", "SET NULL")})
<1>0. DOMAIN Links = 1..9 /\ Len(Links) = 9
    BY DEF Links
<1>1. Is(Links[1], "link", {Fk("projects", "user", "users", "CASCADE")})
    BY DEF Links, Link, Is
<1>2. Is(Links[2], "link", {Fk("conversations", "project", "projects", "SET NULL")})
    BY DEF Links, Link, Is
<1>3. Is(Links[3], "link", {Fk("conversations", "user", "users", "CASCADE")})
    BY DEF Links, Link, Is
<1>4. Is(Links[4], "make", {<<"conversations", "project", "index">>})
    BY DEF Links, Make, Index, Is
<1>5. Is(Links[5], "link", {Fk("messages", "conversation", "conversations", "CASCADE")})
    BY DEF Links, Link, Is
<1>6. Is(Links[6], "link", {Fk("refresh_sessions", "user", "users", "CASCADE")})
    BY DEF Links, Link, Is
<1>7. Is(Links[7], "link", {Fk("knowledge_documents", "user", "users", "CASCADE")})
    BY DEF Links, Link, Is
<1>8. Is(Links[8], "link", {Fk("knowledge_documents", "project", "projects", "SET NULL")})
    BY DEF Links, Link, Is
<1>9. Is(Links[9], "link", {Fk("audit_events", "user", "users", "SET NULL")})
    BY DEF Links, Link, Is
<1> QED  BY <1>0, <1>1, <1>2, <1>3, <1>4, <1>5, <1>6, <1>7, <1>8, <1>9

LEMMA Down1Is ==
    /\ DOMAIN Down1 = 1..4 /\ Len(Down1) = 4
    /\ Is(Down1[1], "drop", {<<"messages", "table">>})
    /\ Is(Down1[2], "drop", {<<"conversations", "table">>})
    /\ Is(Down1[3], "drop", {<<"projects", "table">>})
    /\ Is(Down1[4], "drop", {<<"users", "table">>})
BY DEF Down1, Drop, Table, Is

LEMMA Down2Is ==
    /\ DOMAIN Down2 = 1..8 /\ Len(Down2) = 8
    /\ Is(Down2[1], "drop", {<<"audit_events", "table">>,
                             <<"audit_events", "user", "index">>,
                             <<"audit_events", "event_type", "index">>})
    /\ Is(Down2[2], "drop", {<<"knowledge_documents", "table">>,
                             <<"knowledge_documents", "user", "index">>,
                             <<"knowledge_documents", "project", "index">>})
    /\ Is(Down2[3], "drop", {<<"refresh_sessions", "table">>,
                             <<"refresh_sessions", "user", "index">>})
    /\ Is(Down2[4], "change", {})
    /\ Is(Down2[5], "drop", {<<"messages", "provider">>, <<"messages", "input_tokens">>,
                             <<"messages", "output_tokens">>})
    /\ Is(Down2[6], "drop", {<<"conversations", "provider">>,
                             <<"conversations", "updated_at">>})
    /\ Is(Down2[7], "drop", {<<"projects", "description">>, <<"projects", "instructions">>,
                             <<"projects", "default_provider">>,
                             <<"projects", "updated_at">>})
    /\ Is(Down2[8], "drop", {<<"users", "display_name">>, <<"users", "updated_at">>})
BY DEF Down2, Drop, Change, Table, Index, Columns, Is

LEMMA Down3Is ==
    /\ DOMAIN Down3 = 1..6 /\ Len(Down3) = 6
    /\ Is(Down3[1], "drop", {<<"messages", "conversation", "index">>})
    /\ Is(Down3[2], "drop", {<<"conversations", "user", "index">>})
    /\ Is(Down3[3], "drop", {<<"projects", "user", "index">>})
    /\ Is(Down3[4], "drop", {<<"messages", "estimated_cost_microusd">>})
    /\ Is(Down3[5], "drop", {<<"messages", "model">>})
    /\ Is(Down3[6], "drop", {<<"conversations", "summary">>})
BY DEF Down3, Drop, Index, Columns, Is

LEMMA Down4Is ==
    /\ DOMAIN Down4 = 1..10 /\ Len(Down4) = 10
    /\ Is(Down4[1], "unlink", {Fk("audit_events", "user", "users", "SET NULL")})
    /\ Is(Down4[2], "unlink", {
                               Fk("knowledge_documents", "project", "projects", "SET NULL")})
    /\ Is(Down4[3], "unlink", {Fk("knowledge_documents", "user", "users", "CASCADE")})
    /\ Is(Down4[4], "unlink", {Fk("refresh_sessions", "user", "users", "CASCADE")})
    /\ Is(Down4[5], "unlink", {Fk("messages", "conversation", "conversations", "CASCADE")})
    /\ Is(Down4[6], "change", {})
    /\ Is(Down4[7], "drop", {<<"conversations", "project", "index">>})
    /\ Is(Down4[8], "unlink", {Fk("conversations", "user", "users", "CASCADE")})
    /\ Is(Down4[9], "unlink", {Fk("conversations", "project", "projects", "SET NULL")})
    /\ Is(Down4[10], "unlink", {Fk("projects", "user", "users", "CASCADE")})
<1>0. DOMAIN Down4 = 1..10 /\ Len(Down4) = 10
    BY DEF Down4
<1>1. Is(Down4[1], "unlink", {Fk("audit_events", "user", "users", "SET NULL")})
    BY DEF Down4, Unlink, Is
<1>2. Is(Down4[2], "unlink", {Fk("knowledge_documents", "project", "projects", "SET NULL")})
    BY DEF Down4, Unlink, Is
<1>3. Is(Down4[3], "unlink", {Fk("knowledge_documents", "user", "users", "CASCADE")})
    BY DEF Down4, Unlink, Is
<1>4. Is(Down4[4], "unlink", {Fk("refresh_sessions", "user", "users", "CASCADE")})
    BY DEF Down4, Unlink, Is
<1>5. Is(Down4[5], "unlink", {Fk("messages", "conversation", "conversations", "CASCADE")})
    BY DEF Down4, Unlink, Is
<1>6. Is(Down4[6], "change", {})
    BY DEF Down4, Change, Is
<1>7. Is(Down4[7], "drop", {<<"conversations", "project", "index">>})
    BY DEF Down4, Drop, Index, Is
<1>8. Is(Down4[8], "unlink", {Fk("conversations", "user", "users", "CASCADE")})
    BY DEF Down4, Unlink, Is
<1>9. Is(Down4[9], "unlink", {Fk("conversations", "project", "projects", "SET NULL")})
    BY DEF Down4, Unlink, Is
<1>10. Is(Down4[10], "unlink", {Fk("projects", "user", "users", "CASCADE")})
    BY DEF Down4, Unlink, Is
<1> QED  BY <1>0, <1>1, <1>2, <1>3, <1>4, <1>5, <1>6, <1>7, <1>8, <1>9, <1>10

\* The objects of each revision: what it makes and what its downgrade drops.
Objects1 == {<<"users", "table">>, <<"projects", "table">>, <<"conversations", "table">>,
              <<"messages", "table">>}
Objects2 == {<<"users", "display_name">>, <<"users", "updated_at">>,
              <<"projects", "description">>, <<"projects", "instructions">>,
              <<"projects", "default_provider">>, <<"projects", "updated_at">>,
              <<"conversations", "provider">>, <<"conversations", "updated_at">>,
              <<"messages", "provider">>, <<"messages", "input_tokens">>,
              <<"messages", "output_tokens">>, <<"refresh_sessions", "table">>,
              <<"refresh_sessions", "user", "index">>, <<"knowledge_documents", "table">>,
              <<"knowledge_documents", "user", "index">>,
              <<"knowledge_documents", "project", "index">>, <<"audit_events", "table">>,
              <<"audit_events", "user", "index">>,
              <<"audit_events", "event_type", "index">>}
Objects3 == {<<"conversations", "summary">>, <<"messages", "model">>,
              <<"messages", "estimated_cost_microusd">>, <<"projects", "user", "index">>,
              <<"conversations", "user", "index">>, <<"messages", "conversation", "index">>}
Objects4 == Relationships \cup {<<"conversations", "project", "index">>}

LEMMA Made1 == Made(Up1) = Objects1 /\ Made(Down1) = Objects1
<1>1. Made(Up1) = Objects1      BY Up1Is DEF Made, Is, Objects1
<1>2. Made(Down1) = Objects1    BY Down1Is DEF Made, Is, Objects1
<1> QED  BY <1>1, <1>2

LEMMA Made2 == Made(Up2) = Objects2 /\ Made(Down2) = Objects2
<1>1. Made(Up2) = Objects2      BY Up2Is DEF Made, Is, Objects2
<1>2. Made(Down2) = Objects2    BY Down2Is DEF Made, Is, Objects2
<1> QED  BY <1>1, <1>2

LEMMA Made3 == Made(Up3) = Objects3 /\ Made(Down3) = Objects3
<1>1. Made(Up3) = Objects3      BY Up3Is DEF Made, Is, Objects3
<1>2. Made(Down3) = Objects3    BY Down3Is DEF Made, Is, Objects3
<1> QED  BY <1>1, <1>2

LEMMA LinksMade == Made(Links) = Objects4
<1>1. DOMAIN Links = 1..9
    BY LinksIs
<1>2. Made(Links) = Links[1].objects \cup Links[2].objects \cup Links[3].objects \cup
                   Links[4].objects \cup Links[5].objects \cup Links[6].objects \cup
                   Links[7].objects \cup Links[8].objects \cup Links[9].objects
    BY <1>1, SMT DEF Made
<1> QED  BY <1>2, LinksIs DEF Is, Objects4, Relationships

LEMMA Down4Made == Made(Down4) = Objects4
<1>1. DOMAIN Down4 = 1..10
    BY Down4Is
<1>2. Made(Down4) = Down4[1].objects \cup Down4[2].objects \cup Down4[3].objects \cup
                   Down4[4].objects \cup Down4[5].objects \cup Down4[6].objects \cup
                   Down4[7].objects \cup Down4[8].objects \cup Down4[9].objects \cup
                   Down4[10].objects
    BY <1>1, SMT DEF Made
<1> QED  BY <1>2, Down4Is DEF Is, Objects4, Relationships

LEMMA CleanupIs ==
    /\ DOMAIN Cleanup = 1..8 /\ Len(Cleanup) = 8
    /\ \A i \in 1..8 : Cleanup[i].objects = {} /\ Cleanup[i].op \in {"delete", "detach"}
BY DEF Cleanup, Orphans

LEMMA NineSeq ==
    ASSUME NEW a1, NEW a2, NEW a3, NEW a4, NEW a5, NEW a6, NEW a7, NEW a8, NEW a9,
           NEW S, {a1, a2, a3, a4, a5, a6, a7, a8, a9} \subseteq S
    PROVE  <<a1, a2, a3, a4, a5, a6, a7, a8, a9>> \in Seq(S)
OBVIOUS

LEMMA ConcatIs ==
    ASSUME NEW S, NEW s \in Seq(S), NEW t \in Seq(S)
    PROVE  /\ DOMAIN (s \o t) = 1..Len(s) + Len(t) /\ Len(s \o t) = Len(s) + Len(t)
           /\ \A i \in 1..Len(s) : (s \o t)[i] = s[i]
           /\ \A i \in Len(s) + 1..Len(s) + Len(t) : (s \o t)[i] = t[i - Len(s)]
<1>1. Len(s \o t) = Len(s) + Len(t) /\ s \o t \in Seq(S)
    OBVIOUS
<1>2. DOMAIN (s \o t) = 1..Len(s) + Len(t)
    BY <1>1
<1>3. \A i \in 1..Len(s) + Len(t) : (s \o t)[i] = IF i <= Len(s) THEN s[i] ELSE t[i - Len(s)]
    BY ConcatProperties
<1>4. Len(s) \in Nat /\ Len(t) \in Nat
    OBVIOUS
<1> QED  BY <1>1, <1>2, <1>3, <1>4

LEMMA Up4Is ==
    /\ DOMAIN Up4 = 1..17 /\ Len(Up4) = 17
    /\ \A i \in 1..8 : Up4[i] = Cleanup[i]
    /\ \A i \in 9..17 : Up4[i] = Links[i - 8]
<1> DEFINE S == {Cleanup[i] : i \in 1..8} \cup {Links[i] : i \in 1..9}
<1>1. Cleanup \in Seq(S)
    BY DEF Cleanup
<1>2. Links \in Seq(S)
  <2>1. {Links[1], Links[2], Links[3], Links[4], Links[5],
         Links[6], Links[7], Links[8], Links[9]} \subseteq S
      OBVIOUS
  <2> HIDE DEF S
  <2>2. <<Links[1], Links[2], Links[3], Links[4], Links[5],
          Links[6], Links[7], Links[8], Links[9]>> \in Seq(S)
      BY <2>1, NineSeq
  <2>3. Links = <<Links[1], Links[2], Links[3], Links[4], Links[5],
                  Links[6], Links[7], Links[8], Links[9]>>
      BY DEF Links
  <2> QED  BY <2>2, <2>3
<1>3. Len(Cleanup) = 8 /\ Len(Links) = 9
    BY CleanupIs, LinksIs
<1>4. /\ DOMAIN (Cleanup \o Links) = 1..Len(Cleanup) + Len(Links)
      /\ Len(Cleanup \o Links) = Len(Cleanup) + Len(Links)
      /\ \A i \in 1..Len(Cleanup) : (Cleanup \o Links)[i] = Cleanup[i]
      /\ \A i \in Len(Cleanup) + 1..Len(Cleanup) + Len(Links) :
           (Cleanup \o Links)[i] = Links[i - Len(Cleanup)]
  <2> HIDE DEF S
  <2> QED  BY <1>1, <1>2, ConcatIs, Zenon
<1>5. Len(Cleanup) + Len(Links) = 17 /\ Len(Cleanup) + 1 = 9
    BY <1>3
<1>6. /\ DOMAIN (Cleanup \o Links) = 1..17 /\ Len(Cleanup \o Links) = 17
      /\ \A i \in 1..8 : (Cleanup \o Links)[i] = Cleanup[i]
      /\ \A i \in 9..17 : (Cleanup \o Links)[i] = Links[i - 8]
    BY <1>3, <1>4, <1>5, Zenon
<1> QED  BY <1>6 DEF Up4

LEMMA Up4Made == Made(Up4) = Made(Links)
<1>1. \A i \in 1..8 : Up4[i].objects = {}
    BY Up4Is, CleanupIs
<1>2. Made(Up4) \subseteq Made(Links)
  <2> SUFFICES ASSUME NEW i \in 1..17, NEW o \in Up4[i].objects  PROVE o \in Made(Links)
      BY Up4Is DEF Made
  <2>1. i - 8 \in 1..9 /\ o \in Links[i - 8].objects
      BY <1>1, Up4Is
  <2> QED  BY <2>1, LinksIs DEF Made
<1>3. Made(Links) \subseteq Made(Up4)
  <2> SUFFICES ASSUME NEW i \in 1..9, NEW o \in Links[i].objects  PROVE o \in Made(Up4)
      BY LinksIs DEF Made
  <2>1. i + 8 \in 9..17 /\ (i + 8) - 8 = i /\ i + 8 \in 1..17
      OBVIOUS
  <2>2. Up4[i + 8] = Links[i]
      BY <2>1, Up4Is
  <2> QED  BY <2>1, <2>2, Up4Is DEF Made
<1> QED  BY <1>2, <1>3

LEMMA UpIs == Up[1] = Up1 /\ Up[2] = Up2 /\ Up[3] = Up3 /\ Up[4] = Up4
  BY DEF Up
LEMMA DownIs == Down[1] = Down1 /\ Down[2] = Down2 /\ Down[3] = Down3 /\ Down[4] = Down4
  BY DEF Down

LEMMA DownUndoesUp == \A v \in 1..4 : Made(Down[v]) = Made(Up[v])
<1>1. Made(Down4) = Made(Up4)  BY Down4Made, LinksMade, Up4Made
<1> QED  BY <1>1, Made1, Made2, Made3, UpIs, DownIs

LEMMA FkFirst == \A t, c, p, d : Fk(t, c, p, d)[1] = "fk"
BY DEF Fk

LEMMA NoFks == \A v \in 1..3 : Fks(Made(Up[v])) = {}
<1>1. Fks(Made(Up1)) = {}  BY Made1 DEF Objects1, Fks
<1>2. Fks(Made(Up2)) = {}  BY Made2 DEF Objects2, Fks
<1>3. Fks(Made(Up3)) = {}  BY Made3 DEF Objects3, Fks
<1> QED  BY <1>1, <1>2, <1>3, UpIs

LEMMA LinkFks == Fks(Made(Up[4])) = Relationships
<1>1. <<"conversations", "project", "index">>[1] # "fk"
    OBVIOUS
<1>2. \A o \in Relationships : o[1] = "fk"
    BY FkFirst DEF Relationships
<1> QED  BY <1>1, <1>2, LinksMade, Up4Made, UpIs DEF Fks, Objects4

LEMMA Disjoint ==
    /\ Objects2 \cap Objects1 = {}
    /\ Objects3 \cap Objects1 = {} /\ Objects3 \cap Objects2 = {}
    /\ Objects4 \cap (Objects1 \cup Objects2 \cup Objects3) = {}
<1>1. Objects2 \cap Objects1 = {}    BY DEF Objects1, Objects2
<1>2. Objects3 \cap Objects1 = {}    BY DEF Objects1, Objects3
<1>3. Objects3 \cap Objects2 = {}    BY DEF Objects2, Objects3
<1>4. Objects4 \cap (Objects1 \cup Objects2 \cup Objects3) = {}
  <2> DEFINE index == <<"conversations", "project", "index">>
  <2>1. index \notin Objects1    BY DEF Objects1
  <2>2. index \notin Objects2    BY DEF Objects2
  <2>3. index \notin Objects3    BY DEF Objects3
  <2>4. \A o \in Objects1 \cup Objects2 \cup Objects3 : o[1] # "fk"
      BY NoFks, Made1, Made2, Made3, UpIs DEF Fks
  <2>5. \A o \in Relationships : o[1] = "fk"
      BY FkFirst DEF Relationships
  <2> QED  BY <2>1, <2>2, <2>3, <2>4, <2>5 DEF Objects4
<1> QED  BY <1>1, <1>2, <1>3, <1>4

LEMMA Lens ==
    \A v \in 1..4 :
        /\ Len(Up[v]) \in Nat /\ Len(Up[v]) >= 1 /\ DOMAIN Up[v] = 1..Len(Up[v])
        /\ Len(Down[v]) \in Nat /\ Len(Down[v]) >= 1 /\ DOMAIN Down[v] = 1..Len(Down[v])
<1>1. /\ Len(Up[1]) \in Nat /\ Len(Up[1]) >= 1 /\ DOMAIN Up[1] = 1..Len(Up[1])
      /\ Len(Down[1]) \in Nat /\ Len(Down[1]) >= 1 /\ DOMAIN Down[1] = 1..Len(Down[1])
    BY UpIs, DownIs, Up1Is, Down1Is
<1>2. /\ Len(Up[2]) \in Nat /\ Len(Up[2]) >= 1 /\ DOMAIN Up[2] = 1..Len(Up[2])
      /\ Len(Down[2]) \in Nat /\ Len(Down[2]) >= 1 /\ DOMAIN Down[2] = 1..Len(Down[2])
    BY UpIs, DownIs, Up2Is, Down2Is
<1>3. /\ Len(Up[3]) \in Nat /\ Len(Up[3]) >= 1 /\ DOMAIN Up[3] = 1..Len(Up[3])
      /\ Len(Down[3]) \in Nat /\ Len(Down[3]) >= 1 /\ DOMAIN Down[3] = 1..Len(Down[3])
    BY UpIs, DownIs, Up3Is, Down3Is
<1>4. /\ Len(Up[4]) \in Nat /\ Len(Up[4]) >= 1 /\ DOMAIN Up[4] = 1..Len(Up[4])
      /\ Len(Down[4]) \in Nat /\ Len(Down[4]) >= 1 /\ DOMAIN Down[4] = 1..Len(Down[4])
  <2>1. Len(Up[4]) = 17 /\ DOMAIN Up[4] = 1..17
      BY UpIs, Up4Is
  <2>2. Len(Down[4]) = 10 /\ DOMAIN Down[4] = 1..10
      BY DownIs, Down4Is
  <2> QED  BY <2>1, <2>2
<1> QED  BY <1>1, <1>2, <1>3, <1>4

LEMMA EarlyOps ==
    \A v \in 1..3 : \A i \in 1..Len(Up[v]) : Up[v][i].op \in {"make", "stamped", "fill"}
<1>1. \A i \in 1..Len(Up1) : Up1[i].op \in {"make", "stamped", "fill"}
    BY Up1Is DEF Is
<1>2. \A i \in 1..Len(Up2) : Up2[i].op \in {"make", "stamped", "fill"}
    BY Up2Is DEF Is
<1>3. \A i \in 1..Len(Up3) : Up3[i].op \in {"make", "stamped", "fill"}
    BY Up3Is DEF Is
<1> QED  BY <1>1, <1>2, <1>3, UpIs

LEMMA LinkOps == \A i \in 9..17 : Up4[i].op \in {"make", "link"}
<1>1. \A i \in 1..9 : Links[i].op \in {"make", "link"}
  <2>1. /\ Links[1].op = "link" /\ Links[2].op = "link" /\ Links[3].op = "link"
        /\ Links[4].op = "make" /\ Links[5].op = "link" /\ Links[6].op = "link"
        /\ Links[7].op = "link" /\ Links[8].op = "link" /\ Links[9].op = "link"
      BY LinksIs DEF Is
  <2> QED  BY <2>1
<1>2. \A i \in 9..17 : i - 8 \in 1..9
    OBVIOUS
<1> QED  BY <1>1, <1>2, Up4Is

LEMMA UpOps ==
    \A v \in 1..4 : \A i \in 1..Len(Up[v]) :
        Up[v][i].op \in {"make", "stamped", "fill", "delete", "detach", "link"}
<1>1. \A i \in 1..17 : Up4[i].op \in {"make", "delete", "detach", "link"}
    BY LinkOps, Up4Is, CleanupIs
<1>2. Up[4] = Up4 /\ Len(Up4) = 17
    BY UpIs, Up4Is
<1>3. \A v \in 1..4 : v = 4 \/ v \in 1..3
    OBVIOUS
<1>4. \A i \in 1..Len(Up[4]) : Up[4][i].op \in {"make", "delete", "detach", "link"}
    BY <1>1, <1>2
<1> QED  BY <1>3, <1>4, EarlyOps

LEMMA DownOps ==
    \A v \in 1..4 : \A i \in 1..Len(Down[v]) :
        \/ Down[v][i].op \in {"drop", "unlink"}
        \/ Down[v][i].op = "change" /\ Down[v][i].objects = {}
<1>1. \A i \in 1..Len(Down1) : Down1[i].op = "drop"
    BY Down1Is DEF Is
<1>2. \A i \in 1..Len(Down2) : \/ Down2[i].op = "drop"
                               \/ Down2[i].op = "change" /\ Down2[i].objects = {}
  <2>1. /\ Down2[1].op = "drop" /\ Down2[2].op = "drop" /\ Down2[3].op = "drop"
        /\ Down2[5].op = "drop"
        /\ Down2[6].op = "drop" /\ Down2[7].op = "drop" /\ Down2[8].op = "drop"
      BY Down2Is DEF Is
  <2>2. \A i \in 1..8 : i = 4 \/ Down2[i].op = "drop"
      BY <2>1
  <2>3. Down2[4].op = "change" /\ Down2[4].objects = {}
      BY Down2Is DEF Is
  <2>4. Len(Down2) = 8  BY Down2Is
  <2> QED  BY <2>2, <2>3, <2>4
<1>3. \A i \in 1..Len(Down3) : Down3[i].op = "drop"
    BY Down3Is DEF Is
<1>4. \A i \in 1..Len(Down4) : \/ Down4[i].op \in {"drop", "unlink"}
                               \/ Down4[i].op = "change" /\ Down4[i].objects = {}
  <2>1. /\ Down4[1].op = "unlink" /\ Down4[2].op = "unlink" /\ Down4[3].op = "unlink"
        /\ Down4[4].op = "unlink" /\ Down4[5].op = "unlink"
        /\ Down4[6].op = "change" /\ Down4[6].objects = {} /\ Down4[7].op = "drop"
        /\ Down4[8].op = "unlink" /\ Down4[9].op = "unlink" /\ Down4[10].op = "unlink"
      BY Down4Is DEF Is
  <2>2. Len(Down4) = 10  BY Down4Is
  <2> QED  BY <2>1, <2>2
<1> QED  BY <1>1, <1>2, <1>3, <1>4, DownIs

\* The first statement of revision 4, and of its downgrade, opens a transaction.
LEMMA FourthBegins == Begins(Up[4][1]) /\ Begins(Down[4][1])
<1>1. Up[4][1].op = "delete" \/ Up[4][1].op = "detach"
    BY UpIs, Up4Is, CleanupIs
<1>2. Down[4][1].op = "unlink"
    BY DownIs, Down4Is DEF Is
<1> QED  BY <1>1, <1>2 DEF Begins

LEMMA BeforeFirst == \A list : Before(list, 1) = {}
BY DEF Before

LEMMA BeforeStep ==
    ASSUME NEW list, NEW k \in Nat, k >= 1
    PROVE  Before(list, k + 1) = Before(list, k) \cup list[k].objects
<1>1. 1..(k + 1) - 1 = (1..k - 1) \cup {k}
    OBVIOUS
<1> QED  BY <1>1 DEF Before

LEMMA BeforeLast ==
    ASSUME NEW list, Len(list) \in Nat, DOMAIN list = 1..Len(list)
    PROVE  Before(list, Len(list) + 1) = Made(list)
<1>1. 1..(Len(list) + 1) - 1 = DOMAIN list
    OBVIOUS
<1> QED  BY <1>1 DEF Before, Made

LEMMA BeforeMade ==
    ASSUME NEW list, Len(list) \in Nat, DOMAIN list = 1..Len(list),
           NEW k \in 1..Len(list) + 1
    PROVE  Before(list, k) \subseteq Made(list)
BY DEF Before, Made

LEMMA SchemaStart == SchemaOf(0) = {}
BY DEF SchemaOf

LEMMA SchemaUp == \A v \in 0..3 : SchemaOf(v + 1) = SchemaOf(v) \cup Made(Up[v + 1])
<1> TAKE v \in 0..3
<1>1. 1..v + 1 = (1..v) \cup {v + 1}
    OBVIOUS
<1> QED  BY <1>1 DEF SchemaOf

LEMMA SchemaIs ==
    /\ SchemaOf(1) = Made(Up1)
    /\ SchemaOf(2) = Made(Up1) \cup Made(Up2)
    /\ SchemaOf(3) = Made(Up1) \cup Made(Up2) \cup Made(Up3)
    /\ SchemaOf(4) = Made(Up1) \cup Made(Up2) \cup Made(Up3) \cup Made(Up4)
<1>1. /\ SchemaOf(0 + 1) = SchemaOf(0) \cup Made(Up[0 + 1])
      /\ SchemaOf(1 + 1) = SchemaOf(1) \cup Made(Up[1 + 1])
      /\ SchemaOf(2 + 1) = SchemaOf(2) \cup Made(Up[2 + 1])
      /\ SchemaOf(3 + 1) = SchemaOf(3) \cup Made(Up[3 + 1])
    BY SchemaUp
<1>2. 0 + 1 = 1 /\ 1 + 1 = 2 /\ 2 + 1 = 3 /\ 3 + 1 = 4
    OBVIOUS
<1>3. /\ SchemaOf(1) = SchemaOf(0) \cup Made(Up1) /\ SchemaOf(2) = SchemaOf(1) \cup Made(Up2)
      /\ SchemaOf(3) = SchemaOf(2) \cup Made(Up3) /\ SchemaOf(4) = SchemaOf(3) \cup Made(Up4)
    BY <1>1, <1>2, UpIs
<1> QED  BY <1>3, SchemaStart

LEMMA Fresh == \A v \in 1..4 : Made(Up[v]) \cap SchemaOf(v - 1) = {}
<1>1. Made(Up[1]) \cap SchemaOf(0) = {}
    BY SchemaStart
<1>2. Made(Up[2]) \cap SchemaOf(1) = {}
    BY SchemaIs, UpIs, Made1, Made2, Disjoint
<1>3. Made(Up[3]) \cap SchemaOf(2) = {}
    BY SchemaIs, UpIs, Made1, Made2, Made3, Disjoint
<1>4. Made(Up[4]) \cap SchemaOf(3) = {}
    BY SchemaIs, UpIs, Made1, Made2, Made3, Up4Made, LinksMade, Disjoint
<1> QED  BY <1>1, <1>2, <1>3, <1>4

LEMMA SchemaDown == \A v \in 1..4 : SchemaOf(v) \ Made(Down[v]) = SchemaOf(v - 1)
<1> TAKE v \in 1..4
<1>1. v - 1 \in 0..3 /\ (v - 1) + 1 = v
    OBVIOUS
<1>2. SchemaOf(v) = SchemaOf(v - 1) \cup Made(Up[v])
    BY <1>1, SchemaUp
<1> QED  BY <1>2, Fresh, DownUndoesUp

LEMMA SchemaGrows == \A v \in 0..4 : SchemaOf(v) \subseteq SchemaOf(Newest)
BY DEF SchemaOf, Newest

LEMMA SchemaFks == /\ \A v \in 0..3 : Fks(SchemaOf(v)) = {}
                   /\ Fks(SchemaOf(Newest)) = Relationships
<1>1. Fks(Made(Up1)) = {} /\ Fks(Made(Up2)) = {} /\ Fks(Made(Up3)) = {}
    BY NoFks, UpIs
<1>2. Fks(SchemaOf(0)) = {}  BY SchemaStart DEF Fks
<1>3. Fks(SchemaOf(1)) = {}  BY <1>1, SchemaIs DEF Fks
<1>4. Fks(SchemaOf(2)) = {}  BY <1>1, SchemaIs DEF Fks
<1>5. Fks(SchemaOf(3)) = {}  BY <1>1, SchemaIs DEF Fks
<1>6. Fks(SchemaOf(4)) = Fks(SchemaOf(3)) \cup Fks(Made(Up4))
    BY SchemaIs DEF Fks
<1> QED  BY <1>2, <1>3, <1>4, <1>5, <1>6, LinkFks, UpIs DEF Newest

-----------------------------------------------------------------------------
\* Rows.  The cleanup of revision 4 is eight statements, each of which takes the rows
\* from one stage to the next.
Tables == {"users", "projects", "refresh_sessions", "conversations", "knowledge_documents",
           "messages", "audit_events"}

LEMMA RowIs ==
    ASSUME NEW r \in Row
    PROVE  /\ r = [table |-> r.table, id |-> r.id, user |-> r.user, project |-> r.project,
                   conversation |-> r.conversation]
           /\ r.table \in Tables /\ r.id \in Id
           /\ r.table \notin {"users", "messages", "audit_events"} => r.user \in Id
           /\ r.table \in {"users", "messages"} => r.user = None
           /\ r.table = "messages" => r.conversation \in Id
           /\ r.table \notin {"conversations", "knowledge_documents"} => r.project = None
BY DEF Row, Tables

LEMMA Replaced ==
    ASSUME NEW r \in Row, NEW project, NEW user
    PROVE  [r EXCEPT !.project = project, !.user = user] =
             [table |-> r.table, id |-> r.id, user |-> user, project |-> project,
              conversation |-> r.conversation]
<1>1. PICK t, i, u, p, c :
        /\ r = [table |-> t, id |-> i, user |-> u, project |-> p, conversation |-> c]
        /\ t = r.table /\ i = r.id /\ c = r.conversation
    BY RowIs
<1> DEFINE first == [r EXCEPT !.project = project]
<1>2. first = [table |-> t, id |-> i, user |-> u, project |-> project, conversation |-> c]
    BY <1>1
<1>3. [r EXCEPT !.project = project, !.user = user] = [first EXCEPT !.user = user]
    OBVIOUS
<1> HIDE DEF first
<1>4. [first EXCEPT !.user = user] =
        [table |-> t, id |-> i, user |-> user, project |-> project, conversation |-> c]
    BY <1>2
<1>5. [r EXCEPT !.project = project, !.user = user] =
        [table |-> t, id |-> i, user |-> user, project |-> project, conversation |-> c]
    BY <1>3, <1>4, Zenon
<1> QED  BY <1>1, <1>5, Zenon

LEMMA ReplacedToo ==
    ASSUME NEW r \in Row, NEW project, NEW user
    PROVE  [r EXCEPT !.user = user, !.project = project] =
             [table |-> r.table, id |-> r.id, user |-> user, project |-> project,
              conversation |-> r.conversation]
<1>1. PICK t, i, u, p, c :
        /\ r = [table |-> t, id |-> i, user |-> u, project |-> p, conversation |-> c]
        /\ t = r.table /\ i = r.id /\ c = r.conversation
    BY RowIs
<1> DEFINE first == [r EXCEPT !.user = user]
<1>2. first = [table |-> t, id |-> i, user |-> user, project |-> p, conversation |-> c]
    BY <1>1
<1>3. [r EXCEPT !.user = user, !.project = project] = [first EXCEPT !.project = project]
    OBVIOUS
<1> HIDE DEF first
<1>4. [first EXCEPT !.project = project] =
        [table |-> t, id |-> i, user |-> user, project |-> project, conversation |-> c]
    BY <1>2
<1>5. [r EXCEPT !.user = user, !.project = project] =
        [table |-> t, id |-> i, user |-> user, project |-> project, conversation |-> c]
    BY <1>3, <1>4, Zenon
<1> QED  BY <1>1, <1>5, Zenon

LEMMA TrimmedIs ==
    ASSUME NEW rows, NEW k, NEW r \in Row
    PROVE  Trimmed(rows, k, r) =
             [table |-> r.table, id |-> r.id,
              user |-> IF Anonymous(rows, k, r) THEN None ELSE r.user,
              project |-> IF Detached(rows, k, r) THEN None ELSE r.project,
              conversation |-> r.conversation]
<1> DEFINE user == IF Anonymous(rows, k, r) THEN None ELSE r.user
           project == IF Detached(rows, k, r) THEN None ELSE r.project
<1>1. Trimmed(rows, k, r) = [r EXCEPT !.project = project, !.user = user]
    BY DEF Trimmed
<1> HIDE DEF user, project
<1>2. Trimmed(rows, k, r) =
        [table |-> r.table, id |-> r.id, user |-> user, project |-> project,
         conversation |-> r.conversation]
    BY <1>1, Replaced, Zenon
<1> QED  BY <1>2 DEF user, project

LEMMA TrimmedRow ==
    ASSUME NEW rows, NEW k, NEW r \in Row
    PROVE  Trimmed(rows, k, r) \in Row
<1>1. Anonymous(rows, k, r) => r.table = "audit_events"
    BY DEF Anonymous
<1>2. Detached(rows, k, r) => r.table \in {"conversations", "knowledge_documents"}
    BY DEF Detached
<1>3. Trimmed(rows, k, r) =
             [table |-> r.table, id |-> r.id,
              user |-> IF Anonymous(rows, k, r) THEN None ELSE r.user,
              project |-> IF Detached(rows, k, r) THEN None ELSE r.project,
              conversation |-> r.conversation]
    BY TrimmedIs
<1> QED  BY <1>1, <1>2, <1>3 DEF Row

LEMMA StageRows ==
    ASSUME NEW rows \in SUBSET Row, NEW k
    PROVE  Stage(rows, k) \in SUBSET Row
BY TrimmedRow DEF Stage

\* The rows a link can lead to, in the course of the cleanup.
LEMMA StageUsers ==
    ASSUME NEW rows \in SUBSET Row, NEW k \in 0..8, NEW u
    PROVE  (\E p \in Stage(rows, k) : p.table = "users" /\ p.id = u)
           <=> \E p \in rows : p.table = "users" /\ p.id = u
<1>1. ASSUME NEW p \in Stage(rows, k), p.table = "users", p.id = u
      PROVE  \E q \in rows : q.table = "users" /\ q.id = u
  <2>1. PICK r \in rows : p = Trimmed(rows, k, r)
      BY DEF Stage
  <2> QED  BY <1>1, <2>1, TrimmedIs
<1>2. ASSUME NEW p \in rows, p.table = "users", p.id = u
      PROVE  \E q \in Stage(rows, k) : q.table = "users" /\ q.id = u
  <2>1. Kept(rows, k, p)
      BY <1>2 DEF Kept
  <2>2. Trimmed(rows, k, p) \in Stage(rows, k)
      BY <2>1 DEF Stage
  <2> QED  BY <1>2, <2>2, TrimmedIs
<1> QED  BY <1>1, <1>2

LEMMA StageProjects ==
    ASSUME NEW rows \in SUBSET Row, NEW k \in 4..8, NEW u
    PROVE  (\E p \in Stage(rows, k) : p.table = "projects" /\ p.id = u)
           <=> \E p \in rows : p.table = "projects" /\ p.id = u /\ HasUser(rows, p)
<1>1. ASSUME NEW p \in Stage(rows, k), p.table = "projects", p.id = u
      PROVE  \E q \in rows : q.table = "projects" /\ q.id = u /\ HasUser(rows, q)
  <2>1. PICK r \in rows : p = Trimmed(rows, k, r) /\ Kept(rows, k, r)
      BY DEF Stage
  <2>2. r.table = "projects" /\ r.id = u
      BY <1>1, <2>1, TrimmedIs
  <2> QED  BY <2>1, <2>2 DEF Kept
<1>2. ASSUME NEW p \in rows, p.table = "projects", p.id = u, HasUser(rows, p)
      PROVE  \E q \in Stage(rows, k) : q.table = "projects" /\ q.id = u
  <2>1. Kept(rows, k, p)
      BY <1>2 DEF Kept
  <2>2. Trimmed(rows, k, p) \in Stage(rows, k)
      BY <2>1 DEF Stage
  <2> QED  BY <1>2, <2>2, TrimmedIs
<1> QED  BY <1>1, <1>2

LEMMA StageConversations ==
    ASSUME NEW rows \in SUBSET Row, NEW k \in 3..8, NEW u
    PROVE  (\E p \in Stage(rows, k) : p.table = "conversations" /\ p.id = u)
           <=> \E p \in rows : p.table = "conversations" /\ p.id = u /\ HasUser(rows, p)
<1>1. ASSUME NEW p \in Stage(rows, k), p.table = "conversations", p.id = u
      PROVE  \E q \in rows : q.table = "conversations" /\ q.id = u /\ HasUser(rows, q)
  <2>1. PICK r \in rows : p = Trimmed(rows, k, r) /\ Kept(rows, k, r)
      BY DEF Stage
  <2>2. r.table = "conversations" /\ r.id = u
      BY <1>1, <2>1, TrimmedIs
  <2> QED  BY <2>1, <2>2 DEF Kept
<1>2. ASSUME NEW p \in rows, p.table = "conversations", p.id = u, HasUser(rows, p)
      PROVE  \E q \in Stage(rows, k) : q.table = "conversations" /\ q.id = u
  <2>1. Kept(rows, k, p)
      BY <1>2 DEF Kept
  <2>2. Trimmed(rows, k, p) \in Stage(rows, k)
      BY <2>1 DEF Stage
  <2> QED  BY <1>2, <2>2, TrimmedIs
<1> QED  BY <1>1, <1>2

LEMMA StageZero ==
    ASSUME NEW rows \in SUBSET Row
    PROVE  Stage(rows, 0) = rows
<1>1. \A r \in rows : Kept(rows, 0, r)
    BY DEF Kept
<1>2. \A r \in rows : Trimmed(rows, 0, r) = r
  <2> TAKE r \in rows
  <2>1. ~Anonymous(rows, 0, r) /\ ~Detached(rows, 0, r)
      BY DEF Anonymous, Detached
  <2> QED  BY <2>1, TrimmedIs, RowIs
<1> QED  BY <1>1, <1>2 DEF Stage

LEMMA StageDelete ==
    ASSUME NEW rows \in SUBSET Row, NEW k \in 1..8, NEW t, NEW column, NEW parent,
           NEW s, s.op = "delete", s.table = t, s.column = column, s.parent = parent,
           \A r \in rows : Trimmed(rows, k, r) = Trimmed(rows, k - 1, r),
           \A r \in rows : Kept(rows, k, r)
              <=> /\ Kept(rows, k - 1, r)
                  /\ \/ r.table # t
                     \/ ~Dangling(Stage(rows, k - 1), Trimmed(rows, k - 1, r), column, parent)
    PROVE  RowsAfter(Stage(rows, k - 1), s) = Stage(rows, k)
<1> DEFINE from == Stage(rows, k - 1)
<1>1. RowsAfter(from, s) = {x \in from : x.table # t \/ ~Dangling(from, x, column, parent)}
    BY DEF RowsAfter
<1>2. \A r \in rows : Trimmed(rows, k - 1, r).table = r.table
    BY TrimmedIs
<1>3. from = {Trimmed(rows, k - 1, r) : r \in {x \in rows : Kept(rows, k - 1, x)}}
    BY DEF Stage
<1>4. Stage(rows, k) = {Trimmed(rows, k, r) : r \in {x \in rows : Kept(rows, k, x)}}
    BY DEF Stage
<1> HIDE DEF from
<1>5. \A x : x \in RowsAfter(from, s) <=> x \in Stage(rows, k)
    BY <1>1, <1>2, <1>3, <1>4 DEF from
<1> QED  BY <1>5 DEF from

LEMMA StageDetach ==
    ASSUME NEW rows \in SUBSET Row, NEW k \in 1..8, NEW t, NEW column, NEW parent,
           NEW s, s.op = "detach", s.table = t, s.column = column, s.parent = parent,
           \A r \in rows : Kept(rows, k, r) <=> Kept(rows, k - 1, r),
           \A r \in rows : Trimmed(rows, k, r) =
              IF /\ r.table = t
                 /\ Dangling(Stage(rows, k - 1), Trimmed(rows, k - 1, r), column, parent)
                THEN [Trimmed(rows, k - 1, r) EXCEPT ![column] = None]
                ELSE Trimmed(rows, k - 1, r)
    PROVE  RowsAfter(Stage(rows, k - 1), s) = Stage(rows, k)
<1> DEFINE from == Stage(rows, k - 1)
           to(x) == IF x.table = t /\ Dangling(from, x, column, parent)
                      THEN [x EXCEPT ![column] = None] ELSE x
<1>1. RowsAfter(from, s) = {to(x) : x \in from}
    BY DEF RowsAfter
<1>2. \A r \in rows : Trimmed(rows, k - 1, r).table = r.table
    BY TrimmedIs
<1>3. from = {Trimmed(rows, k - 1, r) : r \in {x \in rows : Kept(rows, k - 1, x)}}
    BY DEF Stage
<1>4. Stage(rows, k) = {Trimmed(rows, k, r) : r \in {x \in rows : Kept(rows, k, x)}}
    BY DEF Stage
<1>5. \A r \in rows : Trimmed(rows, k, r) = to(Trimmed(rows, k - 1, r))
    BY <1>2
<1> HIDE DEF from, to
<1>6. {to(x) : x \in from} = Stage(rows, k)
    BY <1>3, <1>4, <1>5
<1> QED  BY <1>1, <1>6 DEF from

LEMMA CleanupSteps ==
    /\ /\ Cleanup[1].op = "delete" /\ Cleanup[1].table = "refresh_sessions"
       /\ Cleanup[1].column = "user" /\ Cleanup[1].parent = "users"
    /\ /\ Cleanup[2].op = "delete" /\ Cleanup[2].table = "knowledge_documents"
       /\ Cleanup[2].column = "user" /\ Cleanup[2].parent = "users"
    /\ /\ Cleanup[3].op = "delete" /\ Cleanup[3].table = "conversations"
       /\ Cleanup[3].column = "user" /\ Cleanup[3].parent = "users"
    /\ /\ Cleanup[4].op = "delete" /\ Cleanup[4].table = "projects"
       /\ Cleanup[4].column = "user" /\ Cleanup[4].parent = "users"
    /\ /\ Cleanup[5].op = "detach" /\ Cleanup[5].table = "conversations"
       /\ Cleanup[5].column = "project" /\ Cleanup[5].parent = "projects"
    /\ /\ Cleanup[6].op = "detach" /\ Cleanup[6].table = "knowledge_documents"
       /\ Cleanup[6].column = "project" /\ Cleanup[6].parent = "projects"
    /\ /\ Cleanup[7].op = "detach" /\ Cleanup[7].table = "audit_events"
       /\ Cleanup[7].column = "user" /\ Cleanup[7].parent = "users"
    /\ /\ Cleanup[8].op = "delete" /\ Cleanup[8].table = "messages"
       /\ Cleanup[8].column = "conversation" /\ Cleanup[8].parent = "conversations"
BY DEF Cleanup, Orphans

\* The condition of each statement, on the rows as they were at first.
LEMMA OwnerDangles ==
    ASSUME NEW rows \in SUBSET Row, NEW k \in 0..8, NEW r \in rows, ~Anonymous(rows, k, r),
           r.user # None
    PROVE  Dangling(Stage(rows, k), Trimmed(rows, k, r), "user", "users") <=> ~HasUser(rows, r)
<1>1. Trimmed(rows, k, r).user = r.user
    BY TrimmedIs
<1>2. Trimmed(rows, k, r)["user"] = Trimmed(rows, k, r).user
    OBVIOUS
<1> QED  BY <1>1, <1>2, StageUsers DEF Dangling, HasUser

LEMMA ProjectDangles ==
    ASSUME NEW rows \in SUBSET Row, NEW k \in 4..8, NEW r \in rows, ~Detached(rows, k, r)
    PROVE  Dangling(Stage(rows, k), Trimmed(rows, k, r), "project", "projects")
             <=> r.project # None /\ ~HasProject(rows, r)
<1>1. Trimmed(rows, k, r).project = r.project
    BY TrimmedIs
<1> QED  BY <1>1, StageProjects DEF Dangling, HasProject

LEMMA ConversationDangles ==
    ASSUME NEW rows \in SUBSET Row, NEW k \in 3..8, NEW r \in rows, r.conversation # None
    PROVE  Dangling(Stage(rows, k), Trimmed(rows, k, r), "conversation", "conversations")
             <=> ~HasConversation(rows, r)
<1>1. Trimmed(rows, k, r).conversation = r.conversation
    BY TrimmedIs
<1> QED  BY <1>1, StageConversations DEF Dangling, HasConversation

LEMMA DeleteOwned ==
    ASSUME NEW rows \in SUBSET Row, NEW k \in 1..4, NEW t,
           t = <<"refresh_sessions", "knowledge_documents", "conversations", "projects">>[k]
    PROVE  RowsAfter(Stage(rows, k - 1), Cleanup[k]) = Stage(rows, k)
<1>1. /\ Cleanup[k].op = "delete" /\ Cleanup[k].table = t
      /\ Cleanup[k].column = "user" /\ Cleanup[k].parent = "users"
    BY CleanupSteps
<1>2. \A r \in rows : Trimmed(rows, k, r) = Trimmed(rows, k - 1, r)
  <2> TAKE r \in rows
  <2>1. /\ ~Anonymous(rows, k, r) /\ ~Anonymous(rows, k - 1, r)
        /\ ~Detached(rows, k, r) /\ ~Detached(rows, k - 1, r)
      BY DEF Anonymous, Detached
  <2> QED  BY <2>1, TrimmedIs
<1>3. \A r \in rows : Kept(rows, k, r)
        <=> /\ Kept(rows, k - 1, r)
            /\ \/ r.table # t
               \/ ~Dangling(Stage(rows, k - 1), Trimmed(rows, k - 1, r), "user", "users")
  <2> TAKE r \in rows
  <2>1. Kept(rows, k, r) <=> Kept(rows, k - 1, r) /\ (r.table = t => HasUser(rows, r))
      BY DEF Kept
  <2>2. r.table = t => r.user # None
      BY RowIs, MigrationAssumption
  <2>3. ~Anonymous(rows, k - 1, r)
      BY DEF Anonymous
  <2> QED  BY <2>1, <2>2, <2>3, OwnerDangles
<1> QED  BY <1>1, <1>2, <1>3, StageDelete

LEMMA DetachProjects ==
    ASSUME NEW rows \in SUBSET Row, NEW k \in 5..6, NEW t,
           t = IF k = 5 THEN "conversations" ELSE "knowledge_documents"
    PROVE  RowsAfter(Stage(rows, k - 1), Cleanup[k]) = Stage(rows, k)
<1>1. /\ Cleanup[k].op = "detach" /\ Cleanup[k].table = t
      /\ Cleanup[k].column = "project" /\ Cleanup[k].parent = "projects"
    BY CleanupSteps
<1>2. \A r \in rows : Kept(rows, k, r) <=> Kept(rows, k - 1, r)
    BY DEF Kept
<1>3. ASSUME NEW r \in rows
      PROVE  Trimmed(rows, k, r) =
        IF /\ r.table = t
           /\ Dangling(Stage(rows, k - 1), Trimmed(rows, k - 1, r), "project", "projects")
          THEN [Trimmed(rows, k - 1, r) EXCEPT !["project"] = None]
          ELSE Trimmed(rows, k - 1, r)
  <2>1. ~Anonymous(rows, k, r) /\ ~Anonymous(rows, k - 1, r)
      BY DEF Anonymous
  <2>2. r.table = t => ~Detached(rows, k - 1, r)
      BY DEF Detached
  <2>3. r.table # t => (Detached(rows, k, r) <=> Detached(rows, k - 1, r))
      BY DEF Detached
  <2>4. r.table = t => (Detached(rows, k, r) <=> r.project # None /\ ~HasProject(rows, r))
      BY DEF Detached
  <2>5. CASE r.table # t
    BY <2>1, <2>3, <2>5, TrimmedIs
  <2>6. CASE r.table = t
    <3>1. Dangling(Stage(rows, k - 1), Trimmed(rows, k - 1, r), "project", "projects")
            <=> Detached(rows, k, r)
        BY <2>2, <2>4, <2>6, ProjectDangles
    <3>2. Trimmed(rows, k - 1, r) =
            [table |-> r.table, id |-> r.id, user |-> r.user, project |-> r.project,
             conversation |-> r.conversation]
        BY <2>1, <2>2, <2>6, TrimmedIs
    <3>3. [Trimmed(rows, k - 1, r) EXCEPT !["project"] = None] =
            [table |-> r.table, id |-> r.id, user |-> r.user, project |-> None,
             conversation |-> r.conversation]
        BY <3>2
    <3> QED  BY <2>1, <2>6, <3>1, <3>2, <3>3, TrimmedIs
  <2> QED  BY <2>5, <2>6
<1> QED  BY <1>1, <1>2, <1>3, StageDetach

LEMMA DetachUsers ==
    ASSUME NEW rows \in SUBSET Row
    PROVE  RowsAfter(Stage(rows, 6), Cleanup[7]) = Stage(rows, 7)
<1>1. /\ Cleanup[7].op = "detach" /\ Cleanup[7].table = "audit_events"
      /\ Cleanup[7].column = "user" /\ Cleanup[7].parent = "users"
    BY CleanupSteps
<1>2. \A r \in rows : Kept(rows, 7, r) <=> Kept(rows, 6, r)
    BY DEF Kept
<1>3. ASSUME NEW r \in rows
      PROVE  Trimmed(rows, 7, r) =
        IF /\ r.table = "audit_events"
           /\ Dangling(Stage(rows, 6), Trimmed(rows, 6, r), "user", "users")
          THEN [Trimmed(rows, 6, r) EXCEPT !["user"] = None]
          ELSE Trimmed(rows, 6, r)
  <2>1. ~Anonymous(rows, 6, r)
      BY DEF Anonymous
  <2>2. Detached(rows, 7, r) <=> Detached(rows, 6, r)
      BY DEF Detached
  <2>3. CASE r.table # "audit_events"
    <3>1. ~Anonymous(rows, 7, r)
        BY <2>3 DEF Anonymous
    <3> QED  BY <2>1, <2>2, <2>3, <3>1, TrimmedIs
  <2>4. CASE r.table = "audit_events"
    <3>1. ~Detached(rows, 6, r)
        BY <2>4 DEF Detached
    <3>2. Trimmed(rows, 6, r) =
            [table |-> r.table, id |-> r.id, user |-> r.user, project |-> r.project,
             conversation |-> r.conversation]
        BY <2>1, <3>1, TrimmedIs
    <3>3. [Trimmed(rows, 6, r) EXCEPT !["user"] = None] =
            [table |-> r.table, id |-> r.id, user |-> None, project |-> r.project,
             conversation |-> r.conversation]
        BY <3>2
    <3>4. Dangling(Stage(rows, 6), Trimmed(rows, 6, r), "user", "users") <=> Anonymous(rows, 7, r)
      <4>1. CASE r.user = None
        BY <3>2, <4>1 DEF Dangling, Anonymous
      <4>2. CASE r.user # None
        BY <2>1, <2>4, <4>2, OwnerDangles DEF Anonymous
      <4> QED  BY <4>1, <4>2
    <3> QED  BY <2>2, <2>4, <3>1, <3>2, <3>3, <3>4, TrimmedIs
  <2> QED  BY <2>3, <2>4
<1>4. RowsAfter(Stage(rows, 7 - 1), Cleanup[7]) = Stage(rows, 7)
  <2>1. 7 - 1 = 6 /\ 7 \in 1..8
      OBVIOUS
  <2> QED  BY <1>1, <1>2, <1>3, <2>1, StageDetach
<1> QED  BY <1>4

LEMMA DeleteMessages ==
    ASSUME NEW rows \in SUBSET Row
    PROVE  RowsAfter(Stage(rows, 7), Cleanup[8]) = Stage(rows, 8)
<1>1. /\ Cleanup[8].op = "delete" /\ Cleanup[8].table = "messages"
      /\ Cleanup[8].column = "conversation" /\ Cleanup[8].parent = "conversations"
    BY CleanupSteps
<1>2. \A r \in rows : Trimmed(rows, 8, r) = Trimmed(rows, 7, r)
  <2> TAKE r \in rows
  <2>1. /\ Anonymous(rows, 8, r) <=> Anonymous(rows, 7, r)
        /\ Detached(rows, 8, r) <=> Detached(rows, 7, r)
      BY DEF Anonymous, Detached
  <2> QED  BY <2>1, TrimmedIs
<1>3. \A r \in rows : Kept(rows, 8, r)
        <=> /\ Kept(rows, 7, r)
            /\ \/ r.table # "messages"
               \/ ~Dangling(Stage(rows, 7), Trimmed(rows, 7, r), "conversation", "conversations")
  <2> TAKE r \in rows
  <2>1. Kept(rows, 8, r) <=> Kept(rows, 7, r) /\ (r.table = "messages" => HasConversation(rows, r))
      BY DEF Kept
  <2>2. r.table = "messages" => r.conversation # None
      BY RowIs, MigrationAssumption
  <2> QED  BY <2>1, <2>2, ConversationDangles
<1>4. RowsAfter(Stage(rows, 8 - 1), Cleanup[8]) = Stage(rows, 8)
  <2>1. 8 - 1 = 7 /\ 8 \in 1..8
      OBVIOUS
  <2> QED  BY <1>1, <1>2, <1>3, <2>1, StageDelete
<1> QED  BY <1>4

\* Each of the eight statements takes the rows from one stage to the next.
LEMMA StageStep ==
    ASSUME NEW rows \in SUBSET Row, NEW k \in 1..8
    PROVE  RowsAfter(Stage(rows, k - 1), Cleanup[k]) = Stage(rows, k)
<1>1. CASE k \in 1..4  BY <1>1, DeleteOwned
<1>2. CASE k \in 5..6  BY <1>2, DetachProjects
<1>3. CASE k = 7        BY <1>3, DetachUsers
<1>4. CASE k = 8        BY <1>4, DeleteMessages
<1> QED  BY <1>1, <1>2, <1>3, <1>4

\* After the last the rows are what the cleanup is for.
LEMMA StageLast ==
    ASSUME NEW rows \in SUBSET Row
    PROVE  Stage(rows, 8) = Cleaned(rows)
<1> DEFINE kept == {r \in rows : Sound(rows, r)}
           link(r, column, parent) == IF Dangling(kept, r, column, parent) THEN None ELSE r[column]
           to(r) == [r EXCEPT !.user = link(r, "user", "users"),
                              !.project = link(r, "project", "projects")]
<1>1. Cleaned(rows) = {to(r) : r \in kept}
    BY DEF Cleaned
<1>2. \A r \in rows : Kept(rows, 8, r) <=> Sound(rows, r)
  <2> TAKE r \in rows
  <2>1. r.table \in Tables  BY RowIs
  <2> QED  BY <2>1 DEF Kept, Sound, Tables, HasUser, HasConversation
<1>3. kept = {r \in rows : Kept(rows, 8, r)}
    BY <1>2
<1>4. ASSUME NEW r \in kept  PROVE to(r) = Trimmed(rows, 8, r)
  <2>1. r \in rows /\ r \in Row /\ Kept(rows, 8, r)
      BY <1>3
  <2>2. Dangling(kept, r, "user", "users") <=> r.user # None /\ ~HasUser(rows, r)
    <3>1. \A p \in rows : p.table = "users" => p \in kept
        BY DEF Sound
    <3> QED  BY <3>1 DEF Dangling, HasUser
  <2>3. Dangling(kept, r, "project", "projects") <=> r.project # None /\ ~HasProject(rows, r)
    <3>1. \A p \in rows : p.table = "projects" => (p \in kept <=> HasUser(rows, p))
        BY DEF Sound, HasUser
    <3> QED  BY <3>1 DEF Dangling, HasProject
  <2>4. Dangling(kept, r, "user", "users") <=> Anonymous(rows, 8, r)
      BY <2>1, <2>2, RowIs DEF Anonymous, Kept, Tables
  <2>5. Dangling(kept, r, "project", "projects") <=> Detached(rows, 8, r)
      BY <2>1, <2>3, RowIs DEF Detached
  <2> DEFINE user == link(r, "user", "users")  project == link(r, "project", "projects")
  <2>6. to(r) = [r EXCEPT !.user = user, !.project = project]
      OBVIOUS
  <2>7. user = IF Anonymous(rows, 8, r) THEN None ELSE r.user
      BY <2>4
  <2>8. project = IF Detached(rows, 8, r) THEN None ELSE r.project
      BY <2>5
  <2> HIDE DEF user, project, to
  <2>9. [r EXCEPT !.user = user, !.project = project] =
          [table |-> r.table, id |-> r.id, user |-> user, project |-> project,
           conversation |-> r.conversation]
      BY <2>1, ReplacedToo, Zenon
  <2> QED  BY <2>1, <2>6, <2>7, <2>8, <2>9, TrimmedIs
<1> HIDE DEF kept, to
<1> QED  BY <1>1, <1>3, <1>4 DEF Stage

\* What is cleaned stays as it is when it is cleaned again.
LEMMA CleanedTwice ==
    ASSUME NEW rows \in SUBSET Row
    PROVE  Cleaned(Cleaned(rows)) = Cleaned(rows)
<1>0. \A u : (\E p \in Stage(rows, 8) : p.table = "users" /\ p.id = u)
          <=> \E p \in rows : p.table = "users" /\ p.id = u
    BY StageUsers
<1> DEFINE S == Stage(rows, 8)
<1>1. S = Cleaned(rows) /\ S \in SUBSET Row
    BY StageLast, StageRows
<1>2. \A r \in rows : HasUser(S, r) <=> HasUser(rows, r)
  <2> TAKE r \in rows
  <2>1. (\E p \in Stage(rows, 8) : p.table = "users" /\ p.id = r.user)
          <=> \E p \in rows : p.table = "users" /\ p.id = r.user
      BY <1>0
  <2> QED  BY <2>1 DEF HasUser
<1>3. ASSUME NEW r \in rows, Kept(rows, 8, r)
      PROVE  /\ Kept(S, 8, Trimmed(rows, 8, r))
             /\ Trimmed(S, 8, Trimmed(rows, 8, r)) = Trimmed(rows, 8, r)
  <2> DEFINE x == Trimmed(rows, 8, r)
  <2>1. /\ x \in Row /\ x.table = r.table /\ x.id = r.id /\ x.conversation = r.conversation
        /\ x.user = (IF Anonymous(rows, 8, r) THEN None ELSE r.user)
        /\ x.project = (IF Detached(rows, 8, r) THEN None ELSE r.project)
      BY TrimmedIs, TrimmedRow
  <2>2. ~Anonymous(rows, 8, r) => (HasUser(S, x) <=> HasUser(rows, r))
      BY <1>2, <2>1 DEF HasUser
  <2>3. \A c \in rows : c.table = "conversations" /\ HasUser(rows, c) =>
          Trimmed(rows, 8, c) \in S /\ HasUser(S, Trimmed(rows, 8, c))
    <3> TAKE c \in rows
    <3> HAVE c.table = "conversations" /\ HasUser(rows, c)
    <3>1. Kept(rows, 8, c)  BY DEF Kept
    <3>2. ~Anonymous(rows, 8, c)  BY DEF Anonymous
    <3>3. Trimmed(rows, 8, c).user = c.user  BY <3>2, TrimmedIs
    <3>4. Trimmed(rows, 8, c) \in S  BY <3>1 DEF Stage
    <3> QED  BY <1>2, <3>3, <3>4 DEF HasUser
  <2>4. HasConversation(rows, r) => HasConversation(S, x)
    <3> HAVE HasConversation(rows, r)
    <3>1. PICK c \in rows : c.table = "conversations" /\ c.id = r.conversation /\ HasUser(rows, c)
        BY DEF HasConversation
    <3>2. Trimmed(rows, 8, c).table = c.table /\ Trimmed(rows, 8, c).id = c.id
        BY TrimmedIs
    <3>3. Trimmed(rows, 8, c) \in S /\ HasUser(S, Trimmed(rows, 8, c))
        BY <2>3, <3>1
    <3> QED  BY <2>1, <3>1, <3>2, <3>3 DEF HasConversation
  <2>5. \A p \in rows : p.table = "projects" /\ HasUser(rows, p) =>
          Trimmed(rows, 8, p) \in S /\ HasUser(S, Trimmed(rows, 8, p))
    <3> TAKE p \in rows
    <3> HAVE p.table = "projects" /\ HasUser(rows, p)
    <3>1. Kept(rows, 8, p)  BY DEF Kept
    <3>2. ~Anonymous(rows, 8, p)  BY DEF Anonymous
    <3>3. Trimmed(rows, 8, p).user = p.user  BY <3>2, TrimmedIs
    <3>4. Trimmed(rows, 8, p) \in S  BY <3>1 DEF Stage
    <3> QED  BY <1>2, <3>3, <3>4 DEF HasUser
  <2>6. HasProject(rows, r) /\ x.project = r.project => HasProject(S, x)
    <3> HAVE HasProject(rows, r) /\ x.project = r.project
    <3>1. PICK p \in rows : p.table = "projects" /\ p.id = r.project /\ HasUser(rows, p)
        BY DEF HasProject
    <3>2. Trimmed(rows, 8, p).table = p.table /\ Trimmed(rows, 8, p).id = p.id
        BY TrimmedIs
    <3>3. Trimmed(rows, 8, p) \in S /\ HasUser(S, Trimmed(rows, 8, p))
        BY <2>5, <3>1
    <3> QED  BY <3>1, <3>2, <3>3 DEF HasProject
  <2> HIDE DEF S, x
  <2>7. Kept(S, 8, x)
    <3>1. r.table # "audit_events" => ~Anonymous(rows, 8, r)
        BY DEF Anonymous
    <3> QED  BY <1>3, <2>1, <2>2, <2>4, <3>1 DEF Kept
  <2>8. ~Anonymous(S, 8, x)
      BY <2>1, <2>2 DEF Anonymous
  <2>9. ~Detached(S, 8, x)
      BY <2>1, <2>6 DEF Detached
  <2>10. Trimmed(S, 8, x) = [table |-> x.table, id |-> x.id, user |-> x.user,
                             project |-> x.project, conversation |-> x.conversation]
      BY <2>1, <2>8, <2>9, TrimmedIs
  <2> QED  BY <2>1, <2>7, <2>10, RowIs DEF x
<1>4. Stage(S, 8) = S
  <2>1. S = {Trimmed(rows, 8, r) : r \in {y \in rows : Kept(rows, 8, y)}}
      BY DEF Stage
  <2>2. \A x \in S : Kept(S, 8, x) /\ Trimmed(S, 8, x) = x
      BY <1>3, <2>1
  <2>3. Stage(S, 8) = {Trimmed(S, 8, x) : x \in {y \in S : Kept(S, 8, y)}}
      BY DEF Stage
  <2> HIDE DEF S
  <2> QED  BY <2>2, <2>3
<1>5. Stage(S, 8) = Cleaned(S)
    BY <1>1, StageLast
<1> QED  BY <1>1, <1>4, <1>5

-----------------------------------------------------------------------------
\* What a statement does with the schema, apart from the rows.
SchemaAfter(schema, s) ==
    IF s.op \in {"drop", "unlink"} THEN schema \ s.objects ELSE schema \cup s.objects

LEMMA DbIs ==
    ASSUME NEW db \in Db
    PROVE  /\ db = [version |-> db.version, schema |-> db.schema, rows |-> db.rows]
           /\ db.version \in 0..4 /\ db.schema \subseteq SchemaOf(Newest) /\ db.rows \subseteq Row
BY DEF Db, Newest

LEMMA AfterIs ==
    ASSUME NEW db \in Db, NEW s
    PROVE  After(db, s) = [version |-> db.version, schema |-> SchemaAfter(db.schema, s),
                           rows |-> RowsAfter(db.rows, s)]
<1> DEFINE schema == SchemaAfter(db.schema, s)
           rows == RowsAfter(db.rows, s)
<1>1. After(db, s) = [db EXCEPT !.schema = schema, !.rows = rows]
    BY DEF After, SchemaAfter
<1> HIDE DEF schema, rows
<1>2. PICK v, c, r : /\ db = [version |-> v, schema |-> c, rows |-> r]
                     /\ v = db.version
    BY DbIs
<1> DEFINE first == [db EXCEPT !.schema = schema]
<1>3. first = [version |-> v, schema |-> schema, rows |-> r]
    BY <1>2
<1>4. [db EXCEPT !.schema = schema, !.rows = rows] = [first EXCEPT !.rows = rows]
    OBVIOUS
<1> HIDE DEF first
<1>5. [first EXCEPT !.rows = rows] = [version |-> v, schema |-> schema, rows |-> rows]
    BY <1>3
<1>6. [db EXCEPT !.schema = schema, !.rows = rows] =
        [version |-> v, schema |-> schema, rows |-> rows]
    BY <1>4, <1>5, Zenon
<1>7. After(db, s) = [version |-> v, schema |-> schema, rows |-> rows]
    BY <1>1, <1>6, Zenon
<1> QED  BY <1>2, <1>7, Zenon DEF schema, rows

LEMMA FksOf ==
    ASSUME NEW A, NEW B
    PROVE  /\ Fks(A \cup B) = Fks(A) \cup Fks(B) /\ Fks(A \ B) = Fks(A) \ Fks(B)
           /\ A \subseteq B => Fks(A) \subseteq Fks(B)
BY DEF Fks

\* A statement of the same kind keeps two schemas matched.
LEMMA MatchStep ==
    ASSUME NEW A, NEW B, Match(A, B), NEW s
    PROVE  Match(SchemaAfter(A, s), SchemaAfter(B, s))
<1>1. CASE s.op \in {"drop", "unlink"}
  <2>1. Fks(A \ s.objects) = Fks(A) \ Fks(s.objects) /\ Fks(B \ s.objects) = Fks(B) \ Fks(s.objects)
      BY FksOf
  <2> QED  BY <1>1, <2>1 DEF Match, SchemaAfter
<1>2. CASE s.op \notin {"drop", "unlink"}
  <2>1. /\ Fks(A \cup s.objects) = Fks(A) \cup Fks(s.objects)
        /\ Fks(B \cup s.objects) = Fks(B) \cup Fks(s.objects)
      BY FksOf
  <2> QED  BY <1>2, <2>1 DEF Match, SchemaAfter
<1> QED  BY <1>1, <1>2

\* Which script a migration runs.
LEMMA ScriptIs ==
    ASSUME TypeOK, Placed, Migrating, work.version # goal
    PROVE  /\ at \in 1..Len(Script) + 1 /\ Len(Script) \in Nat
           /\ \/ /\ pc = "upgrade" /\ goal = 4
                 /\ work.version \in 0..3 /\ work.version + 1 \in 1..4
                 /\ Script = Up[work.version + 1]
              \/ /\ pc = "downgrade" /\ goal \in 0..3
                 /\ work.version \in 1..4 /\ work.version - 1 \in 0..3 /\ work.version - 1 >= goal
                 /\ Script = Down[work.version]
<1>1. work.version \in 0..4 /\ goal \in 0..4
    BY DbIs DEF TypeOK, Newest
<1>2. pc = "upgrade" \/ pc = "downgrade"
    BY DEF Migrating
<1>3. at \in Nat /\ at >= 1 /\ at <= Len(Script) + 1
    BY DEF TypeOK, Placed
<1>4. CASE pc = "upgrade"
  <2>1. goal = 4 /\ work.version \in 0..3 /\ work.version + 1 \in 1..4
      BY <1>1, <1>4 DEF Placed, Newest
  <2>2. Script = Up[work.version + 1]
      BY <1>4 DEF Script
  <2> QED  BY <1>3, <1>4, <2>1, <2>2, Lens
<1>5. CASE pc = "downgrade"
  <2>1. /\ goal \in 0..3 /\ work.version \in 1..4 /\ work.version - 1 \in 0..3
        /\ work.version - 1 >= goal
      BY <1>1, <1>5 DEF Placed, Newest
  <2>2. Script = Down[work.version]
      BY <1>5 DEF Script
  <2> QED  BY <1>3, <1>5, <2>1, <2>2, Lens
<1> QED  BY <1>2, <1>4, <1>5

\* The schema of a migration when a statement is run and when all of a script are.
LEMMA ReachedStep ==
    /\ \A v \in 0..3 : \A k \in 1..Len(Up[v + 1]) :
         Reached("upgrade", v, k + 1) = SchemaAfter(Reached("upgrade", v, k), Up[v + 1][k])
    /\ \A v \in 1..4 : \A k \in 1..Len(Down[v]) :
         Reached("downgrade", v, k + 1) = SchemaAfter(Reached("downgrade", v, k), Down[v][k])
<1>1. ASSUME NEW v \in 0..3, NEW k \in 1..Len(Up[v + 1])
      PROVE  Reached("upgrade", v, k + 1) = SchemaAfter(Reached("upgrade", v, k), Up[v + 1][k])
  <2>1. v + 1 \in 1..4 /\ v # 4
      OBVIOUS
  <2>2. k \in Nat /\ k >= 1 /\ Up[v + 1][k].op \notin {"drop", "unlink"}
    <3>1. Len(Up[v + 1]) \in Nat
        BY <2>1, Lens
    <3>2. Up[v + 1][k].op \in {"make", "stamped", "fill", "delete", "detach", "link"}
        BY <2>1, UpOps
    <3> QED  BY <3>1, <3>2
  <2>3. Before(Up[v + 1], k + 1) = Before(Up[v + 1], k) \cup Up[v + 1][k].objects
      BY <2>2, BeforeStep
  <2> QED  BY <2>1, <2>2, <2>3 DEF Reached, SchemaAfter, Newest
<1>2. ASSUME NEW v \in 1..4, NEW k \in 1..Len(Down[v])
      PROVE  Reached("downgrade", v, k + 1) = SchemaAfter(Reached("downgrade", v, k), Down[v][k])
  <2>1. k \in Nat /\ k >= 1
      BY Lens
  <2>2. \/ Down[v][k].op \in {"drop", "unlink"}
        \/ Down[v][k].op = "change" /\ Down[v][k].objects = {}
      BY DownOps
  <2>3. Before(Down[v], k + 1) = Before(Down[v], k) \cup Down[v][k].objects
      BY <2>1, BeforeStep
  <2> QED  BY <2>2, <2>3 DEF Reached, SchemaAfter
<1> QED  BY <1>1, <1>2

LEMMA ReachedFirst ==
    /\ \A v \in 0..4 : Reached("upgrade", v, 1) = SchemaOf(v)
    /\ \A v \in 0..4 : Reached("downgrade", v, 1) = SchemaOf(v)
BY BeforeFirst, SchemaStart DEF Reached

LEMMA ReachedLast ==
    /\ \A v \in 0..3 : Reached("upgrade", v, Len(Up[v + 1]) + 1) = SchemaOf(v + 1)
    /\ \A v \in 1..4 : Reached("downgrade", v, Len(Down[v]) + 1) = SchemaOf(v - 1)
<1>1. ASSUME NEW v \in 0..3
      PROVE  Reached("upgrade", v, Len(Up[v + 1]) + 1) = SchemaOf(v + 1)
  <2>1. v + 1 \in 1..4 /\ v # 4
      OBVIOUS
  <2>2. Before(Up[v + 1], Len(Up[v + 1]) + 1) = Made(Up[v + 1])
      BY <2>1, Lens, BeforeLast
  <2> QED  BY <2>1, <2>2, SchemaUp DEF Reached, Newest
<1>2. ASSUME NEW v \in 1..4
      PROVE  Reached("downgrade", v, Len(Down[v]) + 1) = SchemaOf(v - 1)
  <2>1. Before(Down[v], Len(Down[v]) + 1) = Made(Down[v])
      BY Lens, BeforeLast
  <2>2. SchemaOf(v) \ Made(Down[v]) = SchemaOf(v - 1)
      BY SchemaDown
  <2>3. v # 0
      OBVIOUS
  <2> QED  BY <2>1, <2>2, <2>3 DEF Reached
<1> QED  BY <1>1, <1>2

\* A migration that is not in a transaction has come across no foreign key.
LEMMA ReachedFks ==
    /\ \A v \in 0..2 : \A k \in 1..Len(Up[v + 1]) + 1 : Fks(Reached("upgrade", v, k)) = {}
    /\ \A v \in 1..3 : \A k : Fks(Reached("downgrade", v, k)) = {}
<1>1. ASSUME NEW v \in 0..2, NEW k \in 1..Len(Up[v + 1]) + 1
      PROVE  Fks(Reached("upgrade", v, k)) = {}
  <2>1. v + 1 \in 1..3 /\ v + 1 \in 1..4 /\ v \in 0..3 /\ v # 4
      OBVIOUS
  <2>2. Before(Up[v + 1], k) \subseteq Made(Up[v + 1])
      BY <2>1, Lens, BeforeMade
  <2>3. Fks(SchemaOf(v)) = {} /\ Fks(Made(Up[v + 1])) = {}
      BY <2>1, SchemaFks, NoFks
  <2> QED  BY <2>1, <2>2, <2>3 DEF Reached, Newest, Fks
<1>2. ASSUME NEW v \in 1..3, NEW k
      PROVE  Fks(Reached("downgrade", v, k)) = {}
  <2>1. Fks(SchemaOf(v)) = {}
      BY SchemaFks
  <2> QED  BY <2>1 DEF Reached, Fks
<1> QED  BY <1>1, <1>2

LEMMA ProgressedFirst ==
    ASSUME NEW v \in 0..4, TypeOK
    PROVE  Progressed(v, 1) = IF v = 4 THEN Cleaned(legacy) ELSE legacy
<1>1. Stage(legacy, 0) = legacy
    BY StageZero DEF TypeOK
<1>2. 1 - 1 = 0 /\ Len(Cleanup) = 8 /\ Newest - 1 = 3
    BY CleanupIs DEF Newest
<1> QED  BY <1>1, <1>2 DEF Progressed, Newest

LEMMA InitInv == Init => Inv
<1> SUFFICES ASSUME Init  PROVE Inv
    OBVIOUS
<1>0. PICK v \in DOMAIN Legacy : \E rows \in Legacy[v] :
        disk = [version |-> v, schema |-> SchemaOf(v), rows |-> rows]
    BY DEF Init
<1>1. PICK rows \in Legacy[v] : disk = [version |-> v, schema |-> SchemaOf(v), rows |-> rows]
    BY <1>0
<1>2. v \in 0..4 /\ rows \in SUBSET Row
    BY MigrationAssumption
<1>3. work = disk /\ legacy = rows /\ open = FALSE /\ pc = "down" /\ at = 1 /\ goal = Newest
    BY <1>1 DEF Init
<1>4. disk \in Db
    BY <1>1, <1>2, SchemaGrows DEF Db, Newest
<1>5. TypeOK
  <2>1. dialect \in {"postgresql", "sqlite"}
      BY MigrationAssumption DEF Init
  <2>2. 4 \in 0..4 /\ 1 \in Nat \ {0}
      OBVIOUS
  <2> QED  BY <1>2, <1>3, <1>4, <2>1, <2>2 DEF TypeOK, Newest
<1>6. Placed /\ Committed /\ Rows
    BY <1>3 DEF Placed, Committed, Rows, Migrating
<1>7. Schemas
    BY <1>1, <1>3 DEF Schemas, Match, Migrating
<1>8. CleanupIsExact
    BY <1>1, <1>3, LinkedAssumption DEF CleanupIsExact
<1> QED  BY <1>5, <1>6, <1>7, <1>8 DEF Inv

\* A connection sees what is committed.
LEMMA Connected ==
    ASSUME Inv, NEW direction \in {"upgrade", "downgrade"}, NEW version \in 0..4,
           Connect(direction, version),
           IF direction = "upgrade" THEN version = 4 ELSE version < 4 /\ disk.version = 4,
           UNCHANGED <<dialect, disk, refused, legacy>>
    PROVE  Inv'
<1>1. /\ pc' = direction /\ goal' = version /\ at' = 1 /\ work' = disk
      /\ open' = (dialect = "postgresql") /\ disk' = disk /\ dialect' = dialect /\ legacy' = legacy
    BY DEF Connect
<1>2. disk.version \in 0..4 /\ TypeOK
    BY DbIs DEF Inv, TypeOK
<1>3. TypeOK'
    BY <1>1, <1>2 DEF TypeOK, Newest
<1>4. Placed'
  <2>1. direction = "upgrade" /\ disk.version # 4 => Len(Up[disk.version + 1]) \in Nat
      BY <1>2, Lens
  <2>2. direction = "downgrade" => Len(Down[disk.version]) \in Nat
      BY Lens
  <2> QED  BY <1>1, <1>2, <2>1, <2>2 DEF Placed, Migrating, Script, Newest
<1>5. Committed'
  <2>1. ~open' => dialect' = "sqlite"
      BY <1>1, <1>2 DEF TypeOK
  <2>2. ~(at' > 1)
      BY <1>1
  <2> QED  BY <1>1, <2>1, <2>2 DEF Committed
<1>6. Schemas'
  <2>1. Match(disk.schema, SchemaOf(disk.version))
      BY DEF Inv, Schemas
  <2>2. Reached(direction, disk.version, 1) = SchemaOf(disk.version)
      BY <1>2, ReachedFirst
  <2> QED  BY <1>1, <2>1, <2>2 DEF Schemas, Match
<1>7. Rows'
  <2>1. disk.rows = Progressed(disk.version, 1)
      BY <1>2, ProgressedFirst DEF Inv, CleanupIsExact, Newest
  <2>2. Progressed(disk.version, 1)' = Progressed(disk.version, 1)
      BY <1>1 DEF Progressed
  <2> QED  BY <1>1, <2>1 DEF Rows, Progressed
<1>8. CleanupIsExact'
    BY <1>1 DEF Inv, CleanupIsExact
<1> QED  BY <1>3, <1>4, <1>5, <1>6, <1>7, <1>8 DEF Inv

LEMMA BootInv == Inv /\ Boot => Inv'
<1>1. 4 \in 0..4 /\ Newest = 4
    BY DEF Newest
<1> QED  BY <1>1, Connected DEF Boot

LEMMA DowngradeInv == Inv /\ Downgrade => Inv'
<1> SUFFICES ASSUME Inv, Downgrade  PROVE Inv'
    OBVIOUS
<1>1. PICK v \in 0..Newest - 1 : Connect("downgrade", v)
    BY DEF Downgrade
<1>2. disk.version = 4
    BY DEF Downgrade, Inv, Placed, Newest
<1>3. v \in 0..4 /\ v < 4
    BY DEF Newest
<1> QED  BY <1>1, <1>2, <1>3, Connected DEF Downgrade

\* The rows the next upgrade starts from, when a migration leaves the disk alone.
LEMMA Rebased ==
    ASSUME Inv, Rebase, disk' = disk
    PROVE  CleanupIsExact' /\ legacy' \in SUBSET Row
<1>1. disk.rows \subseteq Row /\ legacy \in SUBSET Row
    BY DbIs DEF Inv, TypeOK
<1>2. CASE pc = "downgrade"
  <2>1. legacy' = disk.rows
      BY <1>2 DEF Rebase
  <2>2. disk.version = 4 => Cleaned(disk.rows) = disk.rows
      BY <1>1, CleanedTwice DEF Inv, CleanupIsExact, Newest
  <2> QED  BY <1>1, <2>1, <2>2 DEF CleanupIsExact, Newest
<1>3. CASE pc # "downgrade"
    BY <1>1, <1>3 DEF Rebase, Inv, CleanupIsExact
<1> QED  BY <1>2, <1>3

LEMMA CrashInv == Inv /\ Crash => Inv'
<1> SUFFICES ASSUME Inv, Crash  PROVE Inv'
    OBVIOUS
<1>1. pc' = "down" /\ open' = FALSE /\ UNCHANGED <<dialect, disk, work, at, goal, legacy>>
    BY DEF Crash
<1>2. TypeOK'
    BY <1>1 DEF Inv, TypeOK
<1>3. Placed' /\ Committed' /\ Rows'
    BY <1>1 DEF Placed, Committed, Rows, Migrating
<1>4. Schemas' /\ CleanupIsExact'
    BY <1>1 DEF Inv, Schemas, Match, CleanupIsExact, Migrating
<1> QED  BY <1>2, <1>3, <1>4 DEF Inv

LEMMA FinishInv == Inv /\ Finish => Inv'
<1> SUFFICES ASSUME Inv, Finish  PROVE Inv'
    OBVIOUS
<1>1. /\ Migrating /\ work.version = goal /\ disk' = work /\ open' = FALSE /\ Rebase
      /\ pc' = IF pc = "upgrade" THEN "up" ELSE "down"
      /\ UNCHANGED <<dialect, work, at, goal>>
    BY DEF Finish
<1>2. work \in Db /\ work.version \in 0..4 /\ work.rows \subseteq Row /\ TypeOK
    BY DbIs DEF Inv, TypeOK
<1>3. at = 1 /\ (pc = "upgrade" => work.version = 4) /\ (pc = "downgrade" => work.version # 4)
    BY <1>1 DEF Inv, Placed, Newest
<1>4. legacy' = IF pc = "downgrade" THEN work.rows ELSE legacy
    BY <1>1 DEF Rebase
<1>5. TypeOK'
    BY <1>1, <1>2, <1>4 DEF TypeOK
<1>6. Placed' /\ Committed' /\ Rows'
    BY <1>1, <1>3 DEF Placed, Committed, Rows, Migrating, Newest
<1>7. Schemas'
  <2>1. Match(work.schema, SchemaOf(work.version))
      BY <1>1, <1>2, <1>3, ReachedFirst DEF Inv, Schemas, Migrating
  <2> QED  BY <1>1, <2>1 DEF Schemas, Match, Migrating
<1>8. CleanupIsExact'
  <2>1. CASE pc = "upgrade"
    <3>1. work.rows = Cleaned(legacy)
        BY <1>2, <1>3, <2>1, ProgressedFirst DEF Inv, Rows
    <3> QED  BY <1>1, <1>3, <1>4, <2>1, <3>1 DEF CleanupIsExact, Newest
  <2>2. CASE pc = "downgrade"
      BY <1>1, <1>3, <1>4, <2>2 DEF CleanupIsExact, Newest
  <2> QED  BY <1>1, <2>1, <2>2 DEF Migrating
<1> QED  BY <1>5, <1>6, <1>7, <1>8 DEF Inv

\* The rows of an upgrade whose script is done are those of the next version.
LEMMA ProgressedLast ==
    ASSUME NEW v \in 0..3, TypeOK
    PROVE  Progressed(v, Len(Up[v + 1]) + 1) = IF v = 3 THEN Cleaned(legacy) ELSE legacy
<1>1. Len(Cleanup) = 8 /\ Newest - 1 = 3 /\ Newest = 4
    BY CleanupIs DEF Newest
<1>2. CASE v = 3
  <2>1. Len(Up[v + 1]) + 1 = 18
    <3>1. Up[v + 1] = Up4
        BY <1>2, UpIs
    <3>2. Len(Up4) = 17
        BY Up4Is
    <3> QED  BY <3>1, <3>2
  <2> QED  BY <1>1, <1>2, <2>1, StageLast DEF Progressed, TypeOK
<1>3. CASE v # 3
    BY <1>1, <1>3 DEF Progressed
<1> QED  BY <1>2, <1>3

LEMMA VersionIs ==
    ASSUME NEW db \in Db, NEW v \in 0..4
    PROVE  [db EXCEPT !.version = v] = [version |-> v, schema |-> db.schema, rows |-> db.rows]
BY DbIs

LEMMA StampInv == Inv /\ Stamp => Inv'
<1> SUFFICES ASSUME Inv, Stamp  PROVE Inv'
    OBVIOUS
<1> DEFINE v == work.version
           to == IF pc = "upgrade" THEN v + 1 ELSE v - 1
<1>1. /\ TypeOK /\ Placed /\ Migrating /\ v # goal /\ at > Len(Script) /\ Rebase /\ at' = 1
      /\ UNCHANGED <<dialect, pc, goal>>
    BY DEF Inv, Stamp
<1>2. /\ at = Len(Script) + 1 /\ Len(Script) \in Nat
      /\ \/ /\ pc = "upgrade" /\ goal = 4 /\ v \in 0..3 /\ to = v + 1
            /\ Script = Up[v + 1]
         \/ /\ pc = "downgrade" /\ goal \in 0..3 /\ v \in 1..4 /\ to = v - 1 /\ to >= goal
            /\ Script = Down[v]
    BY <1>1, ScriptIs
<1>3. work \in Db /\ v \in 0..4 /\ to \in 0..4 /\ work.rows \subseteq Row /\ disk \in Db
    BY <1>2, DbIs DEF Inv, TypeOK
<1>4. work' = [version |-> to, schema |-> work.schema, rows |-> work.rows]
  <2>1. work' = [work EXCEPT !.version = to]
      BY DEF Stamp
  <2> HIDE DEF to
  <2> QED  BY <1>3, <2>1, VersionIs
<1>5. \/ dialect = "sqlite" /\ disk' = work' /\ open' = FALSE
      \/ dialect = "postgresql" /\ disk' = disk /\ open' = open
    BY <1>1 DEF Stamp, TypeOK
<1> HIDE DEF to
<1>6. Match(work.schema, SchemaOf(to))
  <2>1. Match(work.schema, Reached(pc, v, Len(Script) + 1))
      BY <1>1, <1>2 DEF Inv, Schemas
  <2> QED  BY <1>2, <2>1, ReachedLast
<1>7. legacy' \in SUBSET Row
    BY <1>1, <1>3, <1>4, <1>5, DbIs DEF Rebase, TypeOK
<1>8. TypeOK'
  <2>1. work' \in Db
      BY <1>3, <1>4, DbIs DEF Db, Newest
  <2>2. disk' \in Db /\ open' \in BOOLEAN
      BY <1>1, <1>3, <1>5, <2>1 DEF TypeOK
  <2> QED  BY <1>1, <1>7, <2>1, <2>2 DEF TypeOK
<1>9. Placed'
  <2>1. pc = "upgrade" /\ to # 4 => to + 1 \in 1..4
      BY <1>3
  <2>2. pc = "downgrade" /\ to # goal => to \in 1..4
      BY <1>2, <1>3
  <2>3. to # goal => Len(Script') \in Nat
      BY <1>1, <1>2, <1>4, <2>1, <2>2, Lens DEF Script
  <2> QED  BY <1>1, <1>2, <1>4, <2>3 DEF Placed, Migrating, Newest
<1>10. Committed'
    BY <1>1, <1>4, <1>5 DEF Inv, Committed
<1>11. Schemas'
  <2>1. Reached(pc, to, 1) = SchemaOf(to)
      BY <1>2, <1>3, ReachedFirst
  <2> QED  BY <1>1, <1>4, <1>5, <1>6, <2>1 DEF Inv, Schemas, Match
<1>12. pc = "upgrade" => /\ legacy' = legacy
                         /\ work.rows = IF to = 4 THEN Cleaned(legacy) ELSE legacy
  <2> HAVE pc = "upgrade"
  <2>1. work.rows = Progressed(v, Len(Up[v + 1]) + 1)
      BY <1>2 DEF Inv, Rows
  <2>2. to = 4 <=> v = 3
      BY <1>2
  <2> QED  BY <1>1, <1>2, <2>1, <2>2, ProgressedLast DEF Rebase
<1>13. Rows'
  <2>1. Stage(legacy', 0) = legacy' /\ Len(Cleanup) = 8
      BY <1>7, StageZero, CleanupIs
  <2>2. 1 - 1 = 0 /\ 1 <= 8 /\ Newest = 4 /\ Newest - 1 = 3
      BY DEF Newest
  <2>3. at' = 1 /\ work'.version = to /\ work'.rows = work.rows /\ pc' = pc
      BY <1>1, <1>4
  <2>4. ASSUME pc = "upgrade"
        PROVE  work'.rows = CASE to = 4 -> Cleaned(legacy')
                              [] to = 3 -> Stage(legacy', 0)
                              [] OTHER  -> legacy'
      BY <1>12, <2>1, <2>3, <2>4
  <2> QED  BY <2>1, <2>2, <2>3, <2>4 DEF Rows, Progressed
<1>14. CleanupIsExact'
  <2>1. CASE disk' = disk
      BY <1>1, <2>1, Rebased
  <2>2. CASE disk' = work' /\ pc = "upgrade"
      BY <1>4, <1>12, <2>2 DEF CleanupIsExact, Newest
  <2>3. CASE disk' = work' /\ pc = "downgrade"
    <3>1. to # 4
        BY <1>2, <2>3
    <3> QED  BY <1>1, <1>4, <2>3, <3>1 DEF CleanupIsExact, Newest, Rebase
  <2> QED  BY <1>2, <1>5, <2>1, <2>2, <2>3
<1> QED  BY <1>8, <1>9, <1>10, <1>11, <1>13, <1>14 DEF Inv

\* A statement of an upgrade takes the rows from one stage to the next.
LEMMA ProgressedStep ==
    ASSUME NEW v \in 0..3, NEW k \in 1..Len(Up[v + 1]), TypeOK
    PROVE  RowsAfter(Progressed(v, k), Up[v + 1][k]) = Progressed(v, k + 1)
<1>1. Len(Cleanup) = 8 /\ Newest - 1 = 3 /\ Newest = 4 /\ legacy \in SUBSET Row
    BY CleanupIs DEF Newest, TypeOK
<1>2. \A rows, s : s.op \in {"make", "stamped", "fill", "link"} => RowsAfter(rows, s) = rows
    BY DEF RowsAfter
<1>3. CASE v # 3
  <2>1. Progressed(v, k) = legacy /\ Progressed(v, k + 1) = legacy
      BY <1>1, <1>3 DEF Progressed
  <2>2. v + 1 \in 1..3
      BY <1>3
  <2>3. Up[v + 1][k].op \in {"make", "stamped", "fill"}
      BY <2>2, EarlyOps
  <2> QED  BY <1>2, <2>1, <2>3
<1>4. CASE v = 3
  <2>1. Up[v + 1] = Up4 /\ k \in 1..17
    <3>1. Up[v + 1] = Up4
        BY <1>4, UpIs
    <3> QED  BY <3>1, Up4Is
  <2>2. CASE k <= 8
    <3>1. k \in 1..8 /\ k \in Nat /\ (k + 1) - 1 = k
        BY <2>1, <2>2
    <3>2. Progressed(v, k) = Stage(legacy, k - 1)
        BY <1>1, <1>4, <2>2 DEF Progressed
    <3>3. Progressed(v, k + 1) = Stage(legacy, k)
      <4>1. CASE k = 8
          BY <1>1, <1>4, <4>1 DEF Progressed
      <4>2. CASE k # 8
        <5>1. k + 1 <= 8
            BY <3>1, <4>2
        <5> QED  BY <1>1, <1>4, <3>1, <5>1 DEF Progressed
      <4> QED  BY <4>1, <4>2
    <3>4. Up4[k] = Cleanup[k]
        BY <3>1, Up4Is
    <3> QED  BY <1>1, <2>1, <3>1, <3>2, <3>3, <3>4, StageStep
  <2>3. CASE k > 8
    <3>1. k \in 9..17 /\ ~(k <= 8) /\ ~(k + 1 <= 8)
        BY <2>1, <2>3
    <3>2. Progressed(v, k) = Stage(legacy, 8) /\ Progressed(v, k + 1) = Stage(legacy, 8)
        BY <1>1, <1>4, <3>1 DEF Progressed
    <3>3. Up4[k].op \in {"make", "link"}
        BY <3>1, LinkOps
    <3> QED  BY <1>2, <2>1, <3>2, <3>3
  <2> QED  BY <2>1, <2>2, <2>3
<1> QED  BY <1>3, <1>4

LEMMA ProgressedRows ==
    ASSUME NEW v, NEW k, TypeOK
    PROVE  Progressed(v, k) \in SUBSET Row
<1>1. legacy \in SUBSET Row
    BY DEF TypeOK
<1>2. Cleaned(legacy) \in SUBSET Row
    BY <1>1, StageLast, StageRows
<1> QED  BY <1>1, <1>2, StageRows DEF Progressed

\* What a statement of a script leaves is within the newest schema.
LEMMA ObjectsOfUp ==
    \A v \in 0..3 : \A k \in 1..Len(Up[v + 1]) : Up[v + 1][k].objects \subseteq SchemaOf(Newest)
<1> SUFFICES ASSUME NEW v \in 0..3, NEW k \in 1..Len(Up[v + 1])
             PROVE  Up[v + 1][k].objects \subseteq SchemaOf(Newest)
    OBVIOUS
<1>1. v + 1 \in 1..4 /\ v + 1 \in 0..4
    OBVIOUS
<1>2. DOMAIN Up[v + 1] = 1..Len(Up[v + 1])
    BY <1>1, Lens
<1>3. Up[v + 1][k].objects \subseteq Made(Up[v + 1])
    BY <1>2 DEF Made
<1>4. Made(Up[v + 1]) \subseteq SchemaOf(v + 1)
    BY SchemaUp
<1> QED  BY <1>1, <1>3, <1>4, SchemaGrows

-----------------------------------------------------------------------------
\* The invariant, action by action.

LEMMA ExecuteInv == Inv /\ Execute => Inv'
<1> SUFFICES ASSUME Inv, Execute  PROVE Inv'
    OBVIOUS
<1> DEFINE v == work.version
           s == Script[at]
           inside == open \/ Begins(s)
<1>1. /\ TypeOK /\ Placed /\ Migrating /\ v # goal /\ at <= Len(Script) /\ Rebase
      /\ UNCHANGED <<dialect, goal>>
    BY DEF Inv, Execute
<1>2. /\ at \in 1..Len(Script) /\ at \in Nat /\ Len(Script) \in Nat
      /\ \/ /\ pc = "upgrade" /\ goal = 4 /\ v \in 0..3 /\ v + 1 \in 1..4
            /\ Script = Up[v + 1]
         \/ /\ pc = "downgrade" /\ goal \in 0..3 /\ v \in 1..4
            /\ Script = Down[v]
    BY <1>1, ScriptIs
<1>3. /\ work \in Db /\ v \in 0..4 /\ work.rows \subseteq Row /\ disk \in Db
      /\ work.schema \subseteq SchemaOf(Newest) /\ legacy \in SUBSET Row
    BY DbIs DEF Inv, TypeOK
<1>4. CASE Refuses(s)
  <2>1. pc' = "down" /\ open' = FALSE /\ UNCHANGED <<disk, work, at>>
      BY <1>4 DEF Execute
  <2>2. CleanupIsExact' /\ legacy' \in SUBSET Row
      BY <1>1, <2>1, Rebased
  <2>3. TypeOK'
      BY <1>1, <2>1, <2>2 DEF TypeOK
  <2>4. Placed' /\ Committed' /\ Rows'
      BY <1>1, <2>1 DEF Placed, Committed, Rows, Migrating
  <2>5. Schemas'
      BY <1>1, <2>1 DEF Inv, Schemas, Match, Migrating
  <2> QED  BY <2>2, <2>3, <2>4, <2>5 DEF Inv
<1>5. CASE ~Refuses(s)
  <2>1. /\ work' = After(work, s) /\ at' = at + 1 /\ open' = inside /\ pc' = pc
        /\ disk' = IF inside THEN disk ELSE work'
      BY <1>5 DEF Execute
  <2>2. work' = [version |-> v, schema |-> SchemaAfter(work.schema, s),
                 rows |-> RowsAfter(work.rows, s)]
      BY <1>3, <2>1, AfterIs
  <2>3. pc = "upgrade" => work'.rows = Progressed(v, at + 1)
    <3> HAVE pc = "upgrade"
    <3>1. work.rows = Progressed(v, at)
        BY <1>1 DEF Inv, Rows
    <3>2. s = Up[v + 1][at] /\ v \in 0..3 /\ at \in 1..Len(Up[v + 1])
        BY <1>2
    <3> HIDE DEF s
    <3> QED  BY <1>1, <2>2, <3>1, <3>2, ProgressedStep
  <2>4. pc = "downgrade" =>
          \/ s.op \in {"drop", "unlink"}
          \/ s.op = "change" /\ s.objects = {}
      BY <1>2, DownOps
  <2>5. work'.rows \subseteq Row
    <3>1. CASE pc = "upgrade"
        BY <1>1, <2>3, <3>1, ProgressedRows
    <3>2. CASE pc = "downgrade"
      <4>1. RowsAfter(work.rows, s) \subseteq work.rows
          BY <2>4, <3>2 DEF RowsAfter
      <4> QED  BY <1>3, <2>2, <4>1
    <3> QED  BY <1>2, <3>1, <3>2
  <2>6. work'.schema \subseteq SchemaOf(Newest)
    <3>1. pc = "upgrade" => s.objects \subseteq SchemaOf(Newest)
        BY <1>2, ObjectsOfUp
    <3> HIDE DEF s
    <3> QED  BY <1>2, <1>3, <2>2, <2>4, <3>1 DEF SchemaAfter
  <2>7. work' \in Db
      BY <1>3, <2>2, <2>5, <2>6 DEF Db, Newest
  \* On SQLite outside a transaction the revision makes and drops no foreign key.
  <2>8. ~inside => /\ disk = work /\ dialect = "sqlite"
                   /\ pc = "upgrade" => v \in 0..2
                   /\ pc = "downgrade" => v \in 1..3
    <3> HAVE ~inside
    <3>1. disk = work /\ dialect = "sqlite"
        BY <1>1 DEF Inv, Committed
    <3>2. ~(at > 1 /\ v = (IF pc = "upgrade" THEN 3 ELSE 4))
        BY <1>1 DEF Inv, Committed
    <3>3. at > 1 \/ at = 1
        BY <1>2
    <3>4. pc = "upgrade" => v # 3
      <4> SUFFICES ASSUME pc = "upgrade", v = 3  PROVE FALSE
          OBVIOUS
      <4>1. at = 1
          BY <3>2, <3>3
      <4>2. Script = Up[4]
          BY <1>2
      <4> QED  BY <4>1, <4>2, FourthBegins
    <3>5. pc = "downgrade" => v # 4
      <4> SUFFICES ASSUME pc = "downgrade", v = 4  PROVE FALSE
          OBVIOUS
      <4>1. at = 1
          BY <3>2, <3>3
      <4>2. Script = Down[4]
          BY <1>2
      <4> QED  BY <4>1, <4>2, FourthBegins
    <3> QED  BY <1>2, <3>1, <3>4, <3>5
  <2>9. Match(work'.schema, Reached(pc, v, at + 1))
    <3>1. Match(work.schema, Reached(pc, v, at))
        BY <1>1 DEF Inv, Schemas
    <3>2. Reached(pc, v, at + 1) = SchemaAfter(Reached(pc, v, at), s)
        BY <1>2, ReachedStep
    <3> HIDE DEF s
    <3> QED  BY <2>2, <3>1, <3>2, MatchStep
  <2>10. disk' \in Db
      BY <1>3, <2>1, <2>7
  <2>11. legacy' \in SUBSET Row
      BY <1>1, <1>3, <2>10, DbIs DEF Rebase
  <2>12. open \in BOOLEAN /\ inside \in BOOLEAN
      BY <1>1 DEF TypeOK, Begins
  <2>13. TypeOK'
    <3> HIDE DEF inside
    <3> QED  BY <1>1, <1>2, <2>1, <2>7, <2>10, <2>11, <2>12 DEF TypeOK
  <2>14. Placed'
    <3>1. Script' = Script
        BY <2>1, <2>2 DEF Script
    <3> HIDE DEF s, inside
    <3> QED  BY <1>1, <1>2, <2>1, <2>2, <3>1 DEF Placed, Migrating
  <2>15. Committed'
    <3>1. disk'.version = disk.version \/ disk'.version = v
        BY <2>1, <2>2
    <3>2. dialect = "sqlite" => disk'.version = work'.version
        BY <1>1, <2>1, <2>2 DEF Inv, Committed
    <3>3. ~inside => disk' = work' /\ dialect = "sqlite"
        BY <2>1, <2>8
    <3>4. v = (IF pc = "upgrade" THEN 3 ELSE 4) => inside
        BY <1>2, <2>8
    <3> HIDE DEF s, inside
    <3> QED  BY <1>1, <2>1, <2>2, <3>2, <3>3, <3>4 DEF Committed
  <2>16. ~inside => Match(disk'.schema, SchemaOf(v))
    <3> HAVE ~inside
    <3>1. Fks(work'.schema) = Fks(Reached(pc, v, at + 1))
        BY <2>9 DEF Match
    <3>2. Fks(Reached(pc, v, at + 1)) = {}
        BY <1>2, <2>8, ReachedFks
    <3>3. Fks(SchemaOf(v)) = {}
        BY <1>2, <2>8, SchemaFks
    <3> QED  BY <2>1, <2>8, <3>1, <3>2, <3>3 DEF Match
  <2>17. Schemas'
    <3>1. Match(disk'.schema, SchemaOf(disk'.version))
      <4>1. CASE inside
          BY <2>1, <4>1 DEF Inv, Schemas
      <4>2. CASE ~inside
          BY <2>1, <2>2, <2>16, <4>2
      <4> QED  BY <4>1, <4>2
    <3> HIDE DEF s, inside
    <3> QED  BY <1>1, <2>1, <2>2, <2>9, <3>1 DEF Schemas, Match
  <2>18. Rows'
    <3>1. pc = "upgrade" => legacy' = legacy
        BY <1>1 DEF Rebase
    <3> HIDE DEF s, inside
    <3> QED  BY <2>1, <2>2, <2>3, <3>1 DEF Rows, Progressed
  <2>19. CleanupIsExact'
    <3>1. CASE inside
      <4>1. disk' = disk
          BY <2>1, <3>1
      <4> QED  BY <1>1, <4>1, Rebased
    <3>2. CASE ~inside /\ pc = "upgrade"
      <4>1. disk'.version = v /\ v # 4 /\ v # 3 /\ disk'.rows = Progressed(v, at + 1)
          BY <1>2, <2>1, <2>2, <2>3, <2>8, <3>2
      <4>2. disk'.rows = legacy /\ legacy' = legacy
          BY <1>1, <3>2, <4>1 DEF Progressed, Newest, Rebase
      <4> QED  BY <4>1, <4>2 DEF CleanupIsExact, Newest
    <3>3. CASE ~inside /\ pc = "downgrade"
      <4>1. disk'.version = v /\ v # 4 /\ legacy' = disk'.rows
          BY <1>1, <2>1, <2>2, <2>8, <3>3 DEF Rebase
      <4> QED  BY <4>1 DEF CleanupIsExact, Newest
    <3> QED  BY <1>2, <3>1, <3>2, <3>3
  <2> QED  BY <2>13, <2>14, <2>15, <2>17, <2>18, <2>19 DEF Inv
<1> QED  BY <1>4, <1>5

LEMMA StepInv == Inv /\ [Next]_vars => Inv'
<1> SUFFICES ASSUME Inv, [Next]_vars  PROVE Inv'
    OBVIOUS
<1>1. CASE Boot       BY <1>1, BootInv
<1>2. CASE Downgrade  BY <1>2, DowngradeInv
<1>3. CASE Execute    BY <1>3, ExecuteInv
<1>4. CASE Stamp      BY <1>4, StampInv
<1>5. CASE Finish     BY <1>5, FinishInv
<1>6. CASE Crash      BY <1>6, CrashInv
<1>7. CASE UNCHANGED vars
  <2>1. UNCHANGED <<dialect, disk, work, open, pc, at, goal, legacy>>
      BY <1>7 DEF vars
  <2>2. TypeOK' /\ Placed' /\ Committed'
      BY <2>1 DEF Inv, TypeOK, Placed, Committed, Migrating, Script
  <2>3. Schemas' /\ Rows' /\ CleanupIsExact'
      BY <2>1 DEF Inv, Schemas, Match, Rows, Progressed, CleanupIsExact, Migrating
  <2> QED  BY <2>2, <2>3 DEF Inv
<1> QED  BY <1>1, <1>2, <1>3, <1>4, <1>5, <1>6, <1>7 DEF Next

\* From every database, and through every crash, restart, refusal and downgrade, the
\* schema and the rows of a migration are those its statements before alembic's next
\* one make, and what is committed is all of them or none where that matters.
THEOREM InvHolds == Spec => []Inv
<1>1. Init => Inv                 BY InitInv
<1>2. Inv /\ [Next]_vars => Inv'  BY StepInv
<1> QED  BY <1>1, <1>2, PTL DEF Spec

\* Revision 4 deletes the rows whose owner or conversation is missing, unlinks the other
\* dangling links, touches no other row, and commits that in one piece, on both
\* databases (migrations/versions/0004_relational_integrity.py, upgrade).
THEOREM ExactCleanup == Spec => []CleanupIsExact
<1>1. Inv => CleanupIsExact  BY DEF Inv
<1> QED  BY <1>1, InvHolds, PTL

\* On PostgreSQL the version that is committed names exactly the tables, columns, indexes
\* and foreign keys that are committed, downgrades and repeated upgrades included.
THEOREM VersionsAreSchemas == Spec => []VersionIsSchema
<1>1. Inv => VersionIsSchema  BY DEF Inv, Schemas, Match, VersionIsSchema
<1> QED  BY <1>1, InvHolds, PTL

\* The engine serves only on a database with the foreign keys of models/entities.py, each
\* with its ON DELETE, SQLite included: a revision it could not finish is not served.
THEOREM ServedOnTheModelsKeys == Spec => []ModelsAgree
<1>1. Inv => ModelsAgree
  <2> SUFFICES ASSUME Inv, pc = "up"
               PROVE  {o \in disk.schema : o[1] = "fk"} = Relationships
      BY DEF ModelsAgree
  <2>1. disk.version = Newest
      BY DEF Inv, Placed
  <2>2. Fks(disk.schema) = Fks(SchemaOf(disk.version))
      BY DEF Inv, Schemas, Match
  <2> QED  BY <2>1, <2>2, SchemaFks DEF Fks
<1> QED  BY <1>1, InvHolds, PTL

-----------------------------------------------------------------------------
\* What PostgreSQL never refuses.

LEMMA Up1Apart == \A i, k \in 1..4 : i < k => Up1[i].objects \cap Up1[k].objects = {}
BY Up1Is DEF Is

LEMMA Up2Apart == \A i, k \in 1..11 : i < k => Up2[i].objects \cap Up2[k].objects = {}
BY Up2Is DEF Is

LEMMA Up3Apart == \A i, k \in 1..6 : i < k => Up3[i].objects \cap Up3[k].objects = {}
BY Up3Is DEF Is

LEMMA Down1Apart == \A i, k \in 1..4 : i < k => Down1[i].objects \cap Down1[k].objects = {}
BY Down1Is DEF Is

LEMMA Down2Apart == \A i, k \in 1..8 : i < k => Down2[i].objects \cap Down2[k].objects = {}
BY Down2Is DEF Is

LEMMA Down3Apart == \A i, k \in 1..6 : i < k => Down3[i].objects \cap Down3[k].objects = {}
BY Down3Is DEF Is

\* The foreign keys of a statement, but for their ON DELETE.
LinksTo(s, t, column, parent) ==
    \A o \in s.objects : o[1] = "fk" /\ o[2] = t /\ o[3] = column /\ o[4] = parent

LEMMA FkNames ==
    ASSUME NEW s, NEW t, NEW c, NEW p, NEW d, s.objects = {Fk(t, c, p, d)}
    PROVE  LinksTo(s, t, c, p)
BY DEF Fk, LinksTo

LEMMA LinkTargets ==
    /\ LinksTo(Links[1], "projects", "user", "users")
    /\ LinksTo(Links[2], "conversations", "project", "projects")
    /\ LinksTo(Links[3], "conversations", "user", "users")
    /\ \A o \in Links[4].objects : o[1] = "conversations" /\ o[2] = "project" /\ o[3] = "index"
    /\ LinksTo(Links[5], "messages", "conversation", "conversations")
    /\ LinksTo(Links[6], "refresh_sessions", "user", "users")
    /\ LinksTo(Links[7], "knowledge_documents", "user", "users")
    /\ LinksTo(Links[8], "knowledge_documents", "project", "projects")
    /\ LinksTo(Links[9], "audit_events", "user", "users")
<1>1. LinksTo(Links[1], "projects", "user", "users")
  <2>1. Links[1].objects = {Fk("projects", "user", "users", "CASCADE")}
      BY LinksIs DEF Is
  <2> QED  BY <2>1, FkNames
<1>2. LinksTo(Links[2], "conversations", "project", "projects")
  <2>1. PICK d : Links[2].objects = {Fk("conversations", "project", "projects", d)}
      BY LinksIs, Zenon DEF Is
  <2> QED  BY <2>1, FkNames
<1>3. LinksTo(Links[3], "conversations", "user", "users")
  <2>1. Links[3].objects = {Fk("conversations", "user", "users", "CASCADE")}
      BY LinksIs DEF Is
  <2> QED  BY <2>1, FkNames
<1>4. \A o \in Links[4].objects : o[1] = "conversations" /\ o[2] = "project" /\ o[3] = "index"
    BY DEF Links, Make, Index
<1>5. LinksTo(Links[5], "messages", "conversation", "conversations")
  <2>1. Links[5].objects = {Fk("messages", "conversation", "conversations", "CASCADE")}
      BY LinksIs DEF Is
  <2> QED  BY <2>1, FkNames
<1>6. LinksTo(Links[6], "refresh_sessions", "user", "users")
  <2>1. Links[6].objects = {Fk("refresh_sessions", "user", "users", "CASCADE")}
      BY LinksIs DEF Is
  <2> QED  BY <2>1, FkNames
<1>7. LinksTo(Links[7], "knowledge_documents", "user", "users")
  <2>1. Links[7].objects = {Fk("knowledge_documents", "user", "users", "CASCADE")}
      BY LinksIs DEF Is
  <2> QED  BY <2>1, FkNames
<1>8. LinksTo(Links[8], "knowledge_documents", "project", "projects")
  <2>1. PICK d : Links[8].objects = {Fk("knowledge_documents", "project", "projects", d)}
      BY LinksIs, Zenon DEF Is
  <2> QED  BY <2>1, FkNames
<1>9. LinksTo(Links[9], "audit_events", "user", "users")
  <2>1. PICK d : Links[9].objects = {Fk("audit_events", "user", "users", d)}
      BY LinksIs, Zenon DEF Is
  <2> QED  BY <2>1, FkNames
<1> QED  BY <1>1, <1>2, <1>3, <1>4, <1>5, <1>6, <1>7, <1>8, <1>9

LEMMA LinksApart == \A i, k \in 1..9 : i < k => Links[i].objects \cap Links[k].objects = {}
BY LinkTargets DEF LinksTo

LEMMA Down4Names ==
    /\ LinksTo(Down4[1], "audit_events", "user", "users")
    /\ LinksTo(Down4[2], "knowledge_documents", "project", "projects")
    /\ LinksTo(Down4[3], "knowledge_documents", "user", "users")
    /\ LinksTo(Down4[4], "refresh_sessions", "user", "users")
    /\ LinksTo(Down4[5], "messages", "conversation", "conversations")
    /\ Down4[6].objects = {}
    /\ \A o \in Down4[7].objects : o[1] = "conversations" /\ o[2] = "project" /\ o[3] = "index"
    /\ LinksTo(Down4[8], "conversations", "user", "users")
    /\ LinksTo(Down4[9], "conversations", "project", "projects")
    /\ LinksTo(Down4[10], "projects", "user", "users")
<1>1. LinksTo(Down4[1], "audit_events", "user", "users")
  <2>1. PICK d : Down4[1].objects = {Fk("audit_events", "user", "users", d)}
      BY Down4Is, Zenon DEF Is
  <2> QED  BY <2>1, FkNames
<1>2. LinksTo(Down4[2], "knowledge_documents", "project", "projects")
  <2>1. PICK d : Down4[2].objects = {Fk("knowledge_documents", "project", "projects", d)}
      BY Down4Is, Zenon DEF Is
  <2> QED  BY <2>1, FkNames
<1>3. LinksTo(Down4[3], "knowledge_documents", "user", "users")
  <2>1. Down4[3].objects = {Fk("knowledge_documents", "user", "users", "CASCADE")}
      BY Down4Is DEF Is
  <2> QED  BY <2>1, FkNames
<1>4. LinksTo(Down4[4], "refresh_sessions", "user", "users")
  <2>1. Down4[4].objects = {Fk("refresh_sessions", "user", "users", "CASCADE")}
      BY Down4Is DEF Is
  <2> QED  BY <2>1, FkNames
<1>5. LinksTo(Down4[5], "messages", "conversation", "conversations")
  <2>1. Down4[5].objects = {Fk("messages", "conversation", "conversations", "CASCADE")}
      BY Down4Is DEF Is
  <2> QED  BY <2>1, FkNames
<1>6. Down4[6].objects = {}
    BY DEF Down4, Change
<1>7. \A o \in Down4[7].objects : o[1] = "conversations" /\ o[2] = "project" /\ o[3] = "index"
    BY DEF Down4, Drop, Index
<1>8. LinksTo(Down4[8], "conversations", "user", "users")
  <2>1. Down4[8].objects = {Fk("conversations", "user", "users", "CASCADE")}
      BY Down4Is DEF Is
  <2> QED  BY <2>1, FkNames
<1>9. LinksTo(Down4[9], "conversations", "project", "projects")
  <2>1. PICK d : Down4[9].objects = {Fk("conversations", "project", "projects", d)}
      BY Down4Is, Zenon DEF Is
  <2> QED  BY <2>1, FkNames
<1>10. LinksTo(Down4[10], "projects", "user", "users")
  <2>1. Down4[10].objects = {Fk("projects", "user", "users", "CASCADE")}
      BY Down4Is DEF Is
  <2> QED  BY <2>1, FkNames
<1> QED  BY <1>1, <1>2, <1>3, <1>4, <1>5, <1>6, <1>7, <1>8, <1>9, <1>10

LEMMA Down4Apart == \A i, k \in 1..10 : i < k => Down4[i].objects \cap Down4[k].objects = {}
BY Down4Names DEF LinksTo

LEMMA Up4Apart == \A i, k \in 1..17 : i < k => Up4[i].objects \cap Up4[k].objects = {}
<1> SUFFICES ASSUME NEW i \in 1..17, NEW k \in 1..17, i < k
             PROVE  Up4[i].objects \cap Up4[k].objects = {}
    OBVIOUS
<1>1. CASE i \in 1..8
  <2>1. Up4[i].objects = {}
      BY <1>1, Up4Is, CleanupIs
  <2> QED  BY <2>1
<1>2. CASE i \in 9..17
  <2>1. i - 8 \in 1..9 /\ k - 8 \in 1..9 /\ i - 8 < k - 8 /\ k \in 9..17
      BY <1>2
  <2>2. Up4[i] = Links[i - 8] /\ Up4[k] = Links[k - 8]
      BY <1>2, <2>1, Up4Is
  <2> QED  BY <2>1, <2>2, LinksApart
<1> QED  BY <1>1, <1>2

\* No script makes an object twice, or drops one twice.
LEMMA Apart ==
    /\ \A v \in 1..4 : \A i, k \in 1..Len(Up[v]) :
         i < k => Up[v][i].objects \cap Up[v][k].objects = {}
    /\ \A v \in 1..4 : \A i, k \in 1..Len(Down[v]) :
         i < k => Down[v][i].objects \cap Down[v][k].objects = {}
<1>1. \A v \in 1..4 : v = 1 \/ v = 2 \/ v = 3 \/ v = 4
    OBVIOUS
<1>2. \A i, k \in 1..Len(Up[1]) : i < k => Up[1][i].objects \cap Up[1][k].objects = {}
  <2>1. Up[1] = Up1 /\ Len(Up1) = 4  BY UpIs, Up1Is
  <2> QED  BY <2>1, Up1Apart
<1>3. \A i, k \in 1..Len(Up[2]) : i < k => Up[2][i].objects \cap Up[2][k].objects = {}
  <2>1. Up[2] = Up2 /\ Len(Up2) = 11  BY UpIs, Up2Is
  <2> QED  BY <2>1, Up2Apart
<1>4. \A i, k \in 1..Len(Up[3]) : i < k => Up[3][i].objects \cap Up[3][k].objects = {}
  <2>1. Up[3] = Up3 /\ Len(Up3) = 6  BY UpIs, Up3Is
  <2> QED  BY <2>1, Up3Apart
<1>5. \A i, k \in 1..Len(Up[4]) : i < k => Up[4][i].objects \cap Up[4][k].objects = {}
  <2>1. Up[4] = Up4 /\ Len(Up4) = 17  BY UpIs, Up4Is
  <2> QED  BY <2>1, Up4Apart
<1>6. \A i, k \in 1..Len(Down[1]) : i < k => Down[1][i].objects \cap Down[1][k].objects = {}
  <2>1. Down[1] = Down1 /\ Len(Down1) = 4  BY DownIs, Down1Is
  <2> QED  BY <2>1, Down1Apart
<1>7. \A i, k \in 1..Len(Down[2]) : i < k => Down[2][i].objects \cap Down[2][k].objects = {}
  <2>1. Down[2] = Down2 /\ Len(Down2) = 8  BY DownIs, Down2Is
  <2> QED  BY <2>1, Down2Apart
<1>8. \A i, k \in 1..Len(Down[3]) : i < k => Down[3][i].objects \cap Down[3][k].objects = {}
  <2>1. Down[3] = Down3 /\ Len(Down3) = 6  BY DownIs, Down3Is
  <2> QED  BY <2>1, Down3Apart
<1>9. \A i, k \in 1..Len(Down[4]) : i < k => Down[4][i].objects \cap Down[4][k].objects = {}
  <2>1. Down[4] = Down4 /\ Len(Down4) = 10  BY DownIs, Down4Is
  <2> QED  BY <2>1, Down4Apart
<1> QED  BY <1>1, <1>2, <1>3, <1>4, <1>5, <1>6, <1>7, <1>8, <1>9, Zenon

\* Nothing a foreign key links is dangling once the cleanup is done.
LEMMA NothingDangles ==
    ASSUME NEW rows \in SUBSET Row, NEW x \in Stage(rows, 8)
    PROVE  /\ x.table \in {"refresh_sessions", "knowledge_documents", "conversations",
                            "projects", "audit_events"}
                => ~Dangling(Stage(rows, 8), x, "user", "users")
           /\ x.table \in {"conversations", "knowledge_documents"}
                => ~Dangling(Stage(rows, 8), x, "project", "projects")
           /\ x.table = "messages"
                => ~Dangling(Stage(rows, 8), x, "conversation", "conversations")
<1>1. PICK r \in rows : x = Trimmed(rows, 8, r) /\ Kept(rows, 8, r)
    BY DEF Stage
<1>2. r \in Row /\ x.table = r.table
    BY <1>1, TrimmedIs
<1>3. ASSUME x.table \in {"refresh_sessions", "knowledge_documents", "conversations",
                           "projects", "audit_events"}
      PROVE  ~Dangling(Stage(rows, 8), x, "user", "users")
  <2>1. CASE Anonymous(rows, 8, r)
    <3>1. x.user = None
        BY <1>1, <1>2, <2>1, TrimmedIs
    <3> QED  BY <3>1 DEF Dangling
  <2>2. CASE ~Anonymous(rows, 8, r) /\ r.user # None
    <3>1. HasUser(rows, r)
        BY <1>1, <1>2, <1>3, <2>2 DEF Kept, Anonymous
    <3> QED  BY <1>1, <2>2, <3>1, OwnerDangles
  <2>3. CASE r.user = None
    <3>1. x.user = None
        BY <1>1, <1>2, <2>3, TrimmedIs
    <3> QED  BY <3>1 DEF Dangling
  <2> QED  BY <2>1, <2>2, <2>3
<1>4. ASSUME x.table \in {"conversations", "knowledge_documents"}
      PROVE  ~Dangling(Stage(rows, 8), x, "project", "projects")
  <2>1. CASE Detached(rows, 8, r)
    <3>1. x.project = None
        BY <1>1, <1>2, <2>1, TrimmedIs
    <3> QED  BY <3>1 DEF Dangling
  <2>2. CASE ~Detached(rows, 8, r)
    <3>1. r.project = None \/ HasProject(rows, r)
        BY <1>2, <1>4, <2>2 DEF Detached
    <3> QED  BY <1>1, <2>2, <3>1, ProjectDangles
  <2> QED  BY <2>1, <2>2
<1>5. ASSUME x.table = "messages"
      PROVE  ~Dangling(Stage(rows, 8), x, "conversation", "conversations")
  <2>1. r.conversation # None
      BY <1>2, <1>5, RowIs, MigrationAssumption
  <2>2. HasConversation(rows, r)
      BY <1>1, <1>2, <1>5 DEF Kept
  <2> QED  BY <1>1, <2>1, <2>2, ConversationDangles
<1> QED  BY <1>3, <1>4, <1>5

\* Every foreign key that revision 4 adds is one the cleaned rows satisfy.
LEMMA LinksHold ==
    ASSUME NEW rows \in SUBSET Row, NEW i \in 1..9, Links[i].op = "link",
           NEW fk \in Links[i].objects, NEW r \in Stage(rows, 8), r.table = fk[2]
    PROVE  ~Dangling(Stage(rows, 8), r, fk[3], fk[4])
<1>1. CASE i \in {1, 3, 6, 7, 9}
  <2>1. /\ fk[3] = "user" /\ fk[4] = "users"
        /\ fk[2] \in {"refresh_sessions", "knowledge_documents", "conversations", "projects",
                      "audit_events"}
      BY <1>1, LinkTargets DEF LinksTo
  <2>2. ~Dangling(Stage(rows, 8), r, "user", "users")
      BY <2>1, NothingDangles
  <2> QED  BY <2>1, <2>2
<1>2. CASE i \in {2, 8}
  <2>1. /\ fk[3] = "project" /\ fk[4] = "projects"
        /\ fk[2] \in {"knowledge_documents", "conversations"}
      BY <1>2, LinkTargets DEF LinksTo
  <2>2. ~Dangling(Stage(rows, 8), r, "project", "projects")
      BY <2>1, NothingDangles
  <2> QED  BY <2>1, <2>2
<1>3. CASE i = 5
  <2>1. fk[3] = "conversation" /\ fk[4] = "conversations" /\ fk[2] = "messages"
      BY <1>3, LinkTargets DEF LinksTo
  <2>2. ~Dangling(Stage(rows, 8), r, "conversation", "conversations")
      BY <2>1, NothingDangles
  <2> QED  BY <2>1, <2>2
<1>4. CASE i = 4
  <2>1. Links[4].op = "make"
      BY LinksIs DEF Is
  <2> QED  BY <1>4, <2>1
<1> QED  BY <1>1, <1>2, <1>3, <1>4

LEMMA BeforeApart ==
    ASSUME NEW list, Len(list) \in Nat, NEW k \in 1..Len(list),
           \A i, j \in 1..Len(list) : i < j => list[i].objects \cap list[j].objects = {}
    PROVE  list[k].objects \cap Before(list, k) = {}
<1>1. \A i \in 1..k - 1 : i \in 1..Len(list) /\ i < k
    OBVIOUS
<1> QED  BY <1>1 DEF Before

\* No user has an email that 0002:23 cannot copy.
Short(rows) == ~\E r \in rows : Overlong(r)

\* The copy belongs to revision 2, when the upgrade has not touched a row yet.
LEMMA FillsEarly ==
    ASSUME Inv, pc = "upgrade", work.version \in 0..3, NEW k \in 1..Len(Up[work.version + 1]),
           Up[work.version + 1][k].op = "fill"
    PROVE  work.rows = legacy
<1>1. work.version # 3
  <2> SUFFICES ASSUME work.version = 3  PROVE FALSE
      OBVIOUS
  <2>1. Up[4] = Up4 /\ k \in 1..17 /\ Up4[k].op = "fill"
      BY UpIs, Up4Is
  <2>2. CASE k \in 1..8
    <3>1. Up4[k].op = "delete" \/ Up4[k].op = "detach"
        BY <2>2, Up4Is, CleanupIs
    <3> QED  BY <2>1, <3>1
  <2>3. CASE k \in 9..17
    <3>1. k - 8 \in 1..9 /\ Up4[k] = Links[k - 8]
        BY <2>3, Up4Is
    <3>2. \A i \in 1..9 : Links[i].op # "fill"
      <4>1. /\ Links[1].op # "fill" /\ Links[2].op # "fill" /\ Links[3].op # "fill"
            /\ Links[4].op # "fill" /\ Links[5].op # "fill" /\ Links[6].op # "fill"
            /\ Links[7].op # "fill" /\ Links[8].op # "fill" /\ Links[9].op # "fill"
          BY LinksIs, Zenon DEF Is
      <4> QED  BY <4>1
    <3> QED  BY <2>1, <3>1, <3>2
  <2> QED  BY <2>1, <2>2, <2>3
<1>2. work.rows = Progressed(work.version, at)
    BY DEF Inv, Rows
<1> QED  BY <1>1, <1>2 DEF Progressed, Newest

\* PostgreSQL refuses nothing but the copy of an email that is too long.
LEMMA Accepted ==
    ASSUME Inv, dialect = "postgresql", Migrating, work.version # goal, at <= Len(Script)
    PROVE  Refuses(Script[at]) => ~Short(legacy)
<1> DEFINE v == work.version
           s == Script[at]
<1>1. TypeOK /\ Placed
    BY DEF Inv
<1>2. /\ at \in 1..Len(Script) /\ Len(Script) \in Nat
      /\ \/ pc = "upgrade" /\ v \in 0..3 /\ v + 1 \in 1..4 /\ Script = Up[v + 1]
         \/ pc = "downgrade" /\ v \in 1..4 /\ v - 1 \in 0..3 /\ Script = Down[v]
    BY <1>1, ScriptIs
<1>3. work.schema = Reached(pc, v, at)
    BY DEF Inv, Schemas, Match
<1>4. s.objects \cap Before(Script, at) = {}
  <2>1. \A i, k \in 1..Len(Script) : i < k => Script[i].objects \cap Script[k].objects = {}
      BY <1>2, Apart
  <2> QED  BY <1>2, <2>1, BeforeApart
<1>5. s.objects \subseteq Made(Script)
  <2>1. DOMAIN Script = 1..Len(Script)
      BY <1>2, Lens
  <2> QED  BY <1>2, <2>1 DEF Made
<1>6. CASE pc = "upgrade"
  <2>1. v # 4 /\ Script = Up[v + 1] /\ v + 1 \in 1..4 /\ (v + 1) - 1 = v
      BY <1>2, <1>6
  <2>2. work.schema = SchemaOf(v) \cup Before(Up[v + 1], at)
      BY <1>3, <1>6, <2>1 DEF Reached, Newest
  <2>3. Made(Up[v + 1]) \cap SchemaOf(v) = {}
      BY <2>1, Fresh
  <2>4. s.objects \cap work.schema = {}
      BY <1>4, <1>5, <2>1, <2>2, <2>3
  <2>5. s.op \notin {"drop", "unlink"}
      BY <1>2, <1>6, UpOps
  <2>6. s.op = "link" => \A fk \in s.objects, r \in work.rows :
          r.table = fk[2] => ~Dangling(work.rows, r, fk[3], fk[4])
    <3> SUFFICES ASSUME s.op = "link", NEW fk \in s.objects, NEW r \in work.rows, r.table = fk[2]
                 PROVE  ~Dangling(work.rows, r, fk[3], fk[4])
        OBVIOUS
    <3>1. v = 3
      <4> SUFFICES ASSUME v # 3  PROVE FALSE
          OBVIOUS
      <4>1. v + 1 \in 1..3
          BY <1>2, <1>6
      <4>2. s.op \in {"make", "stamped", "fill"}
          BY <1>2, <2>1, <4>1, EarlyOps
      <4> QED  BY <4>2
    <3>2. Script = Up4 /\ at \in 1..17
      <4>1. Script = Up4
          BY <2>1, <3>1, UpIs
      <4> QED  BY <1>2, <4>1, Up4Is
    <3>3. at \in 9..17
      <4> SUFFICES ASSUME at \in 1..8  PROVE FALSE
          BY <3>2
      <4>1. s.op = "delete" \/ s.op = "detach"
          BY <3>2, Up4Is, CleanupIs
      <4> QED  BY <4>1
    <3>4. at - 8 \in 1..9 /\ s = Links[at - 8] /\ ~(at <= 8)
        BY <3>2, <3>3, Up4Is
    <3>5. work.rows = Stage(legacy, 8) /\ legacy \in SUBSET Row
      <4>1. work.rows = Progressed(v, at)
          BY <1>6 DEF Inv, Rows
      <4>2. Len(Cleanup) = 8 /\ Newest = 4 /\ Newest - 1 = 3
          BY CleanupIs DEF Newest
      <4> QED  BY <1>1, <3>1, <3>4, <4>1, <4>2 DEF Progressed, TypeOK
    <3> HIDE DEF s
    <3> QED  BY <3>4, <3>5, LinksHold
  <2> HIDE DEF s
  <2>7. Refuses(s) => s.op = "fill" /\ ~Short(work.rows)
    <3>1. dialect # "sqlite"
        OBVIOUS
    <3> QED  BY <2>4, <2>5, <2>6, <3>1 DEF Refuses, Short
  <2>8. s.op = "fill" => work.rows = legacy
      BY <1>1, <1>2, <1>6, <2>1, FillsEarly DEF s
  <2> QED  BY <2>7, <2>8 DEF s
<1>7. CASE pc = "downgrade"
  <2>1. v # 0 /\ v \in 1..4 /\ Script = Down[v] /\ (v - 1) + 1 = v /\ v - 1 \in 0..3
      BY <1>2, <1>7
  <2>2. work.schema = SchemaOf(v) \ Before(Down[v], at)
      BY <1>3, <1>7, <2>1 DEF Reached
  <2>3. Made(Down[v]) \subseteq SchemaOf(v)
    <3>1. SchemaOf(v) = SchemaOf(v - 1) \cup Made(Up[v])
        BY <2>1, SchemaUp
    <3> QED  BY <2>1, <3>1, DownUndoesUp
  <2>4. s.objects \subseteq work.schema
      BY <1>4, <1>5, <2>1, <2>2, <2>3
  <2>5. s.op \in {"drop", "unlink", "change"}
      BY <1>2, <1>7, DownOps
  <2> HIDE DEF s
  <2>6. ~Refuses(s)
      BY <2>4, <2>5 DEF Refuses
  <2> QED  BY <2>6 DEF s
<1> QED  BY <1>2, <1>6, <1>7

\* PostgreSQL has refused no statement.
NeverRefused == dialect = "postgresql" => ~refused

\* What is short stays so: an upgrade commits the rows as they were or as they are
\* cleaned, and a downgrade only removes rows.
ShortInv == Short(legacy) /\ (pc = "downgrade" => Short(work.rows))

LEMMA CommittedShort == ASSUME CleanupIsExact, Short(legacy) PROVE Short(disk.rows)
<1>1. \A r, a, b : /\ [r EXCEPT !.user = a, !.project = b].table = r.table
                   /\ [r EXCEPT !.user = a, !.project = b].id = r.id
    OBVIOUS
<1>2. \A r, a, b : ~Overlong(r) => ~Overlong([r EXCEPT !.user = a, !.project = b])
    BY <1>1 DEF Overlong
<1>3. Short(Cleaned(legacy))
  <2> SUFFICES ASSUME NEW x \in Cleaned(legacy)  PROVE ~Overlong(x)
      BY DEF Short
  <2>1. \E r \in legacy : \E a, b : x = [r EXCEPT !.user = a, !.project = b]
      BY DEF Cleaned
  <2> QED  BY <1>2, <2>1 DEF Short
<1> QED  BY <1>3 DEF CleanupIsExact

LEMMA ShortStep == ASSUME Inv, ShortInv, [Next]_vars PROVE ShortInv'
<1>1. Short(disk.rows)
    BY CommittedShort DEF Inv, ShortInv
<1>2. CASE Boot \/ Downgrade
    BY <1>1, <1>2 DEF Boot, Downgrade, Connect, ShortInv, Short, Overlong
<1>3. CASE Crash \/ UNCHANGED vars
    BY <1>3 DEF Crash, vars, ShortInv, Short, Overlong
<1>4. CASE pc # "downgrade" /\ (Execute \/ Stamp \/ Finish)
  <2>1. legacy' = legacy /\ pc' # "downgrade"
      BY <1>4 DEF Execute, Stamp, Finish, Rebase, Migrating
  <2> QED  BY <2>1 DEF ShortInv, Short, Overlong
<1>5. CASE pc = "downgrade" /\ Execute
  <2>1. at \in 1..Len(Script) /\ work.version \in 1..4 /\ Script = Down[work.version]
        /\ work \in Db
      BY <1>5, ScriptIs DEF Inv, Execute, TypeOK
  <2>2. Script[at].op \in {"drop", "unlink", "change"}
      BY <2>1, DownOps
  <2>3. RowsAfter(work.rows, Script[at]) \subseteq work.rows
      BY <2>2 DEF RowsAfter
  <2>4. work'.rows = work.rows \/ work'.rows = RowsAfter(work.rows, Script[at])
      BY <1>5, <2>1, AfterIs DEF Execute
  <2>5. Short(work'.rows)
      BY <1>5, <2>3, <2>4 DEF ShortInv, Short
  <2>6. disk' = disk \/ disk' = work'
      BY <1>5 DEF Execute
  <2> QED  BY <1>1, <1>5, <2>5, <2>6 DEF ShortInv, Short, Overlong, Execute, Rebase
<1>6. CASE pc = "downgrade" /\ (Stamp \/ Finish)
  <2>1. work'.rows = work.rows
      BY <1>6, DbIs DEF Inv, TypeOK, Stamp, Finish
  <2>2. disk' = disk \/ disk' = work' \/ disk' = work
      BY <1>6 DEF Stamp, Finish
  <2>3. legacy' = disk'.rows
      BY <1>6 DEF Stamp, Finish, Rebase
  <2>4. disk'.rows = disk.rows \/ disk'.rows = work.rows
      BY <2>1, <2>2
  <2> QED  BY <1>1, <1>6, <2>1, <2>3, <2>4 DEF ShortInv, Short, Overlong
<1> QED  BY <1>2, <1>3, <1>4, <1>5, <1>6 DEF Next

\* On a PostgreSQL database that starts without an email of more than 120 characters no
\* statement of any script is refused, in either direction and whatever the orphans: no
\* object is made twice or dropped twice, and every foreign key that revision 4 adds
\* holds of the rows its cleanup leaves.  This is what UpgradeSucceeds needs besides the
\* fairness of the restarts.
THEOREM NothingIsRefused == Spec /\ Short(legacy) => []NeverRefused
<1>1. Init /\ Short(legacy) => NeverRefused /\ ShortInv
    BY DEF Init, NeverRefused, ShortInv
<1>2. Inv /\ ShortInv /\ NeverRefused /\ [Next]_vars => NeverRefused'
  <2> SUFFICES ASSUME Inv, ShortInv, NeverRefused, [Next]_vars  PROVE NeverRefused'
      OBVIOUS
  <2>1. dialect' = dialect
      BY DEF Next, Boot, Downgrade, Execute, Stamp, Finish, Crash, vars
  <2>2. CASE Execute
    <3>1. CASE Refuses(Script[at])
      <4>1. dialect # "postgresql"
          BY <2>2, <3>1, Accepted DEF Execute, ShortInv
      <4> QED  BY <2>1, <4>1 DEF NeverRefused
    <3>2. CASE ~Refuses(Script[at])
      <4>1. refused' = refused
          BY <2>2, <3>2 DEF Execute
      <4> QED  BY <2>1, <4>1 DEF NeverRefused
    <3> QED  BY <3>1, <3>2
  <2>3. CASE ~Execute
    <3>1. refused' = refused
        BY <2>3 DEF Next, Boot, Downgrade, Stamp, Finish, Crash, vars
    <3> QED  BY <2>1, <3>1 DEF NeverRefused
  <2> QED  BY <2>2, <2>3
<1>3. Inv /\ ShortInv /\ [Next]_vars => ShortInv'
    BY ShortStep
<1> QED  BY <1>1, <1>2, <1>3, InvHolds, PTL DEF Spec
===========================================================================

------------------------------ MODULE Migrations ------------------------------
(***************************************************************************)
(* migrations/: the container runs `alembic upgrade head` every time it    *)
(* starts and the engine only after it succeeded (Dockerfile).  Alembic    *)
(* and the two databases are external.  PostgreSQL runs an upgrade in one  *)
(* transaction.  On SQLite each revision ends with a commit, and Python's  *)
(* driver opens the transaction only at the first statement that changes   *)
(* rows: schema statements before it are committed one by one.  Migrations *)
(* run on connections without the foreign_keys pragma of core/database.    *)
(***************************************************************************)
EXTENDS Naturals, Sequences, FiniteSets

CONSTANTS Dialect,     \* the databases of a run: "postgresql", "sqlite"
          Legacy,      \* bound: the sets of rows a database starts with, by version
          MaxCrashes,  \* bound on crashes
          MaxDowns,    \* bound on downgrades an operator runs
          Id,          \* ids of rows, there or not
          Long,        \* ids of the users whose email is over 120 characters long
          None

\* A row: its table, its id and the ids it refers to; None where the column is
\* NULL or the table has none.
Row == [table: {"users"}, id: Id, user: {None}, project: {None}, conversation: {None}]
  \cup [table: {"projects", "refresh_sessions"}, id: Id, user: Id, project: {None},
        conversation: {None}]
  \cup [table: {"conversations", "knowledge_documents"}, id: Id, user: Id,
        project: Id \cup {None}, conversation: {None}]
  \cup [table: {"messages"}, id: Id, user: {None}, project: {None}, conversation: Id]
  \cup [table: {"audit_events"}, id: Id, user: Id \cup {None}, project: {None},
        conversation: {None}]

ASSUME MigrationAssumption ==
    /\ Dialect \subseteq {"postgresql", "sqlite"}
    /\ DOMAIN Legacy \subseteq 0..4 /\ None \notin Id /\ Long \subseteq Id
    /\ \A v \in DOMAIN Legacy : \A rows \in Legacy[v] : rows \subseteq Row
    /\ MaxCrashes \in Nat /\ MaxDowns \in Nat

VARIABLES dialect, \* the database in use
          disk,    \* what is committed: [version, schema, rows]
          work,    \* what the connection of the migration sees
          open,    \* a transaction is open
          pc,      \* the container is down, migrates up or down, or serves
          at,      \* the statement of the revision that comes next
          goal,    \* the version the migration goes to
          crashes, downs, \* counted against their bounds
          refused, \* history: the database has refused a statement
          legacy   \* history: the rows before the upgrade that is under way or done

vars == <<dialect, disk, work, open, pc, at, goal, crashes, downs, refused, legacy>>

Newest == 4   \* the head revision

Dangling(rows, r, column, parent) ==
    /\ r[column] # None
    /\ ~\E p \in rows : p.table = parent /\ p.id = r[column]

-----------------------------------------------------------------------------
\* Statements.  The schema is a set of the objects they create and drop.
Make(objects) == [op |-> "make", objects |-> objects]
Drop(objects) == [op |-> "drop", objects |-> objects]
\* ADD COLUMN updated_at with the default now(), outside a batch.
Stamped(t)    == [op |-> "stamped", table |-> t, objects |-> {<<t, "updated_at">>}]
\* UPDATE users SET display_name = email: a String(320) goes into a String(120).
Fill          == [op |-> "fill", objects |-> {}]
\* The first copy of a table that a batch makes on SQLite.
Change        == [op |-> "change", objects |-> {}]
Orphans(op, t, column, parent) ==
    [op |-> op, table |-> t, column |-> column, parent |-> parent, objects |-> {}]
Link(fk)      == [op |-> "link", objects |-> {fk}]
Unlink(fk)    == [op |-> "unlink", objects |-> {fk}]

Table(t)      == <<t, "table">>
Index(t, c)   == <<t, c, "index">>
Columns(t, S) == {<<t, c>> : c \in S}
Fk(t, column, parent, ondelete) == <<"fk", t, column, parent, ondelete>>

Up1 == [i \in 1..4 |-> Make({Table(<<"users", "projects", "conversations", "messages">>[i])})]

Up2 == << Make(Columns("users", {"display_name"})),
          Fill,
          Make(Columns("users", {"updated_at"})),
          Make(Columns("projects", {"description", "instructions", "default_provider"})),
          Stamped("projects"),
          Make(Columns("conversations", {"provider"})),
          Stamped("conversations"),
          Make(Columns("messages", {"provider", "input_tokens", "output_tokens"})),
          Make({Table("refresh_sessions"), Index("refresh_sessions", "user")}),
          Make({Table("knowledge_documents"), Index("knowledge_documents", "user"),
                Index("knowledge_documents", "project")}),
          Make({Table("audit_events"), Index("audit_events", "user"),
                Index("audit_events", "event_type")}) >>

Up3 == << Make(Columns("conversations", {"summary"})),
          Make(Columns("messages", {"model"})),
          Make(Columns("messages", {"estimated_cost_microusd"})),
          Make({Index("projects", "user")}),
          Make({Index("conversations", "user")}),
          Make({Index("messages", "conversation")}) >>

Cleanup == << Orphans("delete", "refresh_sessions", "user", "users"),
              Orphans("delete", "knowledge_documents", "user", "users"),
              Orphans("delete", "conversations", "user", "users"),
              Orphans("delete", "projects", "user", "users"),
              Orphans("detach", "conversations", "project", "projects"),
              Orphans("detach", "knowledge_documents", "project", "projects"),
              Orphans("detach", "audit_events", "user", "users"),
              Orphans("delete", "messages", "conversation", "conversations") >>

Links == << Link(Fk("projects", "user", "users", "CASCADE")),
            Link(Fk("conversations", "project", "projects", "SET NULL")),
            Link(Fk("conversations", "user", "users", "CASCADE")),
            Make({Index("conversations", "project")}),
            Link(Fk("messages", "conversation", "conversations", "CASCADE")),
            Link(Fk("refresh_sessions", "user", "users", "CASCADE")),
            Link(Fk("knowledge_documents", "user", "users", "CASCADE")),
            Link(Fk("knowledge_documents", "project", "projects", "SET NULL")),
            Link(Fk("audit_events", "user", "users", "SET NULL")) >>

\* Fault: projects without an owner go after the links to them were looked at.
MutOrder == SubSeq(Cleanup, 1, 3) \o SubSeq(Cleanup, 5, 6) \o <<Cleanup[4]>>
            \o SubSeq(Cleanup, 7, 8) \o Links

\* Fault: deleting a project deletes its documents.
MutCascade == Cleanup \o
    [Links EXCEPT ![8] = Link(Fk("knowledge_documents", "project", "projects", "CASCADE"))]

Up4 == Cleanup \o Links
Up == <<Up1, Up2, Up3, Up4>>

Down1 == [i \in 1..4 |-> Drop({Table(<<"messages", "conversations", "projects", "users">>[i])})]

Down2 == << Drop({Table("audit_events"), Index("audit_events", "user"),
                  Index("audit_events", "event_type")}),
            Drop({Table("knowledge_documents"), Index("knowledge_documents", "user"),
                  Index("knowledge_documents", "project")}),
            Drop({Table("refresh_sessions"), Index("refresh_sessions", "user")}),
            Change,
            Drop(Columns("messages", {"provider", "input_tokens", "output_tokens"})),
            Drop(Columns("conversations", {"provider", "updated_at"})),
            Drop(Columns("projects", {"description", "instructions", "default_provider",
                                      "updated_at"})),
            Drop(Columns("users", {"display_name", "updated_at"})) >>

Down3 == << Drop({Index("messages", "conversation")}),
            Drop({Index("conversations", "user")}),
            Drop({Index("projects", "user")}),
            Drop(Columns("messages", {"estimated_cost_microusd"})),
            Drop(Columns("messages", {"model"})),
            Drop(Columns("conversations", {"summary"})) >>

Down4 == << Unlink(Fk("audit_events", "user", "users", "SET NULL")),
            Unlink(Fk("knowledge_documents", "project", "projects", "SET NULL")),
            Unlink(Fk("knowledge_documents", "user", "users", "CASCADE")),
            Unlink(Fk("refresh_sessions", "user", "users", "CASCADE")),
            Unlink(Fk("messages", "conversation", "conversations", "CASCADE")),
            Change,
            Drop({Index("conversations", "project")}),
            Unlink(Fk("conversations", "user", "users", "CASCADE")),
            Unlink(Fk("conversations", "project", "projects", "SET NULL")),
            Unlink(Fk("projects", "user", "users", "CASCADE")) >>

\* Fault: the downgrade leaves the index behind.
MutDown == <<Down1, Down2, Down3, SelectSeq(Down4, LAMBDA s : s.op # "drop")>>

Down == <<Down1, Down2, Down3, Down4>>

-----------------------------------------------------------------------------
\* models/entities.py: the foreign keys the engine is written against.
Relationships == {
    Fk("refresh_sessions", "user", "users", "CASCADE"),
    Fk("projects", "user", "users", "CASCADE"),
    Fk("conversations", "project", "projects", "SET NULL"),
    Fk("conversations", "user", "users", "CASCADE"),
    Fk("messages", "conversation", "conversations", "CASCADE"),
    Fk("knowledge_documents", "user", "users", "CASCADE"),
    Fk("knowledge_documents", "project", "projects", "SET NULL"),
    Fk("audit_events", "user", "users", "SET NULL")}

Made(list) == UNION {list[i].objects : i \in DOMAIN list}

\* The schema a version stands for: what the revisions up to it make.
SchemaOf(v) == UNION {Made(Up[i]) : i \in 1..v}

Init ==
    /\ dialect \in Dialect
    /\ \E v \in DOMAIN Legacy : \E rows \in Legacy[v] :
         disk = [version |-> v, schema |-> SchemaOf(v), rows |-> rows]
    /\ work = disk /\ legacy = disk.rows
    /\ open = FALSE /\ pc = "down" /\ at = 1 /\ goal = Newest
    /\ crashes = 0 /\ downs = 0 /\ refused = FALSE

-----------------------------------------------------------------------------
\* What the databases do with a statement.

\* A user whose email does not fit in display_name.
Overlong(r) == r.table = "users" /\ r.id \in Long

\* PostgreSQL looks at the rows when a foreign key is added and at the length of what
\* it stores; SQLite copies the table without looking, and adds no column with that
\* default unless it is empty.
Refuses(s) ==
    \/ s.op \in {"make", "stamped", "link"} /\ s.objects \cap work.schema # {}
    \/ s.op \in {"drop", "unlink"} /\ ~s.objects \subseteq work.schema
    \/ /\ s.op = "stamped" /\ dialect = "sqlite"
       /\ \E r \in work.rows : r.table = s.table
    \/ s.op = "fill" /\ dialect = "postgresql" /\ \E r \in work.rows : Overlong(r)
    \/ /\ s.op = "link" /\ dialect = "postgresql"
       /\ \E fk \in s.objects, r \in work.rows :
            r.table = fk[2] /\ Dangling(work.rows, r, fk[3], fk[4])

\* Statements before which the driver of SQLite opens a transaction: those that
\* change rows, and the copy a foreign key takes there.
Begins(s) == s.op \in {"fill", "change", "delete", "detach", "link", "unlink"}

RowsAfter(rows, s) ==
    CASE s.op = "delete" ->
           {r \in rows : r.table # s.table \/ ~Dangling(rows, r, s.column, s.parent)}
      [] s.op = "detach" ->
           {IF r.table = s.table /\ Dangling(rows, r, s.column, s.parent)
              THEN [r EXCEPT ![s.column] = None] ELSE r : r \in rows}
      [] s.op = "drop" -> {r \in rows : Table(r.table) \notin s.objects}
      [] OTHER -> rows

After(db, s) ==
    [db EXCEPT !.schema = IF s.op \in {"drop", "unlink"} THEN @ \ s.objects ELSE @ \cup s.objects,
               !.rows = RowsAfter(@, s)]

-----------------------------------------------------------------------------
Migrating == pc \in {"upgrade", "downgrade"}

\* The connection is opened: nothing it sees is uncommitted.
Connect(direction, version) ==
    /\ pc' = direction /\ goal' = version /\ at' = 1
    /\ work' = disk
    /\ open' = (dialect = "postgresql")

\* The container starts, or starts again: alembic upgrade head.
Boot == /\ pc = "down"
        /\ Connect("upgrade", Newest)
        /\ UNCHANGED <<dialect, disk, crashes, downs, refused, legacy>>

\* An operator stops the engine and goes back to an earlier version.
Downgrade ==
    /\ pc = "up" /\ downs < MaxDowns
    /\ \E v \in 0..Newest - 1 : Connect("downgrade", v)
    /\ downs' = downs + 1
    /\ UNCHANGED <<dialect, disk, crashes, refused, legacy>>

\* The statements of the revision under way.
Script == IF pc = "upgrade" THEN Up[work.version + 1] ELSE Down[work.version]

\* What a downgrade commits is what the next upgrade finds.
Rebase == legacy' = IF pc = "downgrade" THEN disk'.rows ELSE legacy

\* A statement of the revision is run.  One that is refused ends the process, and
\* with it the transaction.
Execute ==
    /\ Migrating /\ work.version # goal /\ at <= Len(Script)
    /\ LET s == Script[at]
           inside == open \/ Begins(s)
       IN
       IF Refuses(s)
         THEN /\ pc' = "down" /\ refused' = TRUE /\ open' = FALSE
              /\ UNCHANGED <<disk, work, at>>
         ELSE /\ work' = After(work, s) /\ at' = at + 1
              /\ open' = inside
              /\ disk' = IF inside THEN disk ELSE After(work, s)
              /\ UNCHANGED <<pc, refused>>
    /\ Rebase
    /\ UNCHANGED <<dialect, goal, crashes, downs>>

\* alembic_version is updated; each revision is a transaction only on SQLite.
Stamp ==
    /\ Migrating /\ work.version # goal /\ at > Len(Script)
    /\ work' = [work EXCEPT !.version = IF pc = "upgrade" THEN @ + 1 ELSE @ - 1]
    /\ at' = 1
    /\ IF dialect = "sqlite" THEN disk' = work' /\ open' = FALSE
                             ELSE UNCHANGED <<disk, open>>
    /\ Rebase
    /\ UNCHANGED <<dialect, pc, goal, crashes, downs, refused>>

\* The last revision is done: commit, and uvicorn takes the place of alembic.
Finish ==
    /\ Migrating /\ work.version = goal
    /\ disk' = work /\ open' = FALSE
    /\ pc' = IF pc = "upgrade" THEN "up" ELSE "down"
    /\ Rebase
    /\ UNCHANGED <<dialect, work, at, goal, crashes, downs, refused>>

\* The process is killed; the database forgets what it did not commit.
Crash == /\ Migrating \/ pc = "up"
         /\ crashes < MaxCrashes /\ crashes' = crashes + 1
         /\ pc' = "down" /\ open' = FALSE
         /\ UNCHANGED <<dialect, disk, work, at, goal, downs, refused, legacy>>

Next == Boot \/ Downgrade \/ Execute \/ Stamp \/ Finish \/ Crash

Spec == Init /\ [][Next]_vars

\* The container is started again whenever it stops (restart: unless-stopped).
FairSpec == Spec /\ WF_vars(Boot) /\ WF_vars(Execute \/ Stamp \/ Finish)

-----------------------------------------------------------------------------
\* The rows that every link they cannot do without leads to a row that stays ...
Sound(rows, r) ==
    LET has(t, id) == \E p \in rows : p.table = t /\ p.id = id
        owned(p) == has("users", p.user)
    IN CASE r.table \in {"users", "audit_events"} -> TRUE
         [] r.table = "messages" ->
              \E c \in rows : c.table = "conversations" /\ c.id = r.conversation /\ owned(c)
         [] OTHER -> owned(r)

\* ... with the optional links that still lead somewhere.
Cleaned(rows) ==
    LET kept == {r \in rows : Sound(rows, r)}
        link(r, column, parent) == IF Dangling(kept, r, column, parent) THEN None ELSE r[column]
    IN {[r EXCEPT !.user = link(r, "user", "users"),
                  !.project = link(r, "project", "projects")] : r \in kept}

\* The foreign keys of the head revision hold in a database that has them at first.
ASSUME LinkedAssumption ==
    Newest \in DOMAIN Legacy => \A rows \in Legacy[Newest] : Cleaned(rows) = rows

\* Revision 4 removes exactly the rows whose owner or conversation is missing and
\* unlinks exactly the rest of the dangling links, in one piece: whatever crashes
\* or refuses, every committed state has the rows as they were or as they should be.
CleanupIsExact ==
    disk.rows = IF disk.version = Newest THEN Cleaned(legacy) ELSE legacy

\* On PostgreSQL a version is a schema: no crash, refusal, downgrade or repeated
\* upgrade leaves a table, column, index or foreign key too many or too few.
VersionIsSchema == dialect = "postgresql" => disk.schema = SchemaOf(disk.version)

\* Whenever the engine serves, the database has the foreign keys that the models
\* declare, with the same ON DELETE, and no other.
ModelsAgree == pc = "up" => {o \in disk.schema : o[1] = "fk"} = Relationships

\* On PostgreSQL every database, whatever its orphans, is brought to the head and
\* served, however the container is killed and restarted on the way, unless it starts
\* with an email that 0002:23 cannot copy.
UpgradeSucceeds ==
    dialect = "postgresql" /\ ~(\E r \in legacy : Overlong(r)) => <>[](pc = "up")

\* migrations/versions/0002: "This keeps the documented SQLite fallback and the
\* production database on the same migration path".
SamePath == ~refused
===============================================================================

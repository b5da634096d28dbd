----------------------------- MODULE MCMigrations -----------------------------
(* Two users at most, one of them with too long an email, one row of each     *)
(* other table at most, and ids that lead nowhere.                            *)
EXTENDS Migrations

CONSTANTS u1, u2, p1, c1, gone   \* two users, a project, a conversation; an id of no row

A(t, id, user, project, conversation) ==
    [table |-> t, id |-> id, user |-> user, project |-> project,
     conversation |-> conversation]
MCId == {u1, u2, p1, c1, gone, "m", "k", "s", "a"}

Some(rows) == {{}} \cup {{r} : r \in rows}

Users         == {{}, {A("users", u1, None, None, None)},
                   {A("users", u, None, None, None) : u \in {u1, u2}}}
Projects      == Some({A("projects", p1, o, None, None) : o \in {u1, gone}})
Conversations == Some({A("conversations", c1, o, l, None) :
                         o \in {u1, gone}, l \in {None, p1, gone}})
Messages      == Some({A("messages", "m", None, None, l) : l \in {c1, gone}})
Documents     == Some({A("knowledge_documents", "k", o, l, None) :
                         o \in {u1, gone}, l \in {None, p1, gone}})
Others        == {{A("refresh_sessions", "s", o, None, None),
                   A("audit_events", "a", o, None, None)} : o \in {u1, gone}}

First == {a \cup b \cup d \cup e :
            a \in Users, b \in Projects, d \in Conversations, e \in Messages}

\* An empty database, one of version 1 and one of version 3, which has every table.
MCLegacy == [v \in {0, 1, 3} |->
    CASE v = 0 -> {{}} [] v = 1 -> First
      [] OTHER -> {f \cup k \cup o : f \in First, k \in Documents, o \in Others}]

\* A database of version 1 in use, as far as the links go in order.
InUse == [v \in {0, 1} |->
    IF v = 0 THEN {{}} ELSE
    {{A("users", u1, None, None, None)} \cup b \cup d :
        b \in {{}, {A("projects", p1, u1, None, None)}},
        d \in {{}, {A("conversations", c1, u1, None, None)}}}]
===============================================================================

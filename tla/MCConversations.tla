-------------------------- MODULE MCConversations --------------------------
EXTENDS Conversations, TLC

CONSTANTS r1, r2, r3, r4, s1, s2, s3

Three     == {r1, r2, r3}
Symmetry  == Permutations(Three)
Apart     == [r \in Three |-> None]
\* Three requests, of which two may be chats of one socket; or two sockets with
\* two chats each, which is enough for the first messages to leave the window.
MCWirings == {Apart}
    \cup {[r \in Three |-> IF r = x THEN None ELSE s1] : x \in Three}
    \cup {[r \in Req |-> IF r \in {x, r4} THEN s2 ELSE s3] : x \in Three}
NoSocket  == {Apart}
AllKinds  == [s \in Socket \cup {None} |->
                CASE s = None -> Kind [] s = s1 -> {"chat", "start"} [] OTHER -> {"chat"}]
ChatOnly  == [s \in Socket \cup {None} |-> {"chat"}]
\* Questions are short; two answers fill the context, one and a few questions do not.
MCLengths == [role \in {"user", "assistant"} |-> IF role = "user" THEN {1} ELSE {5}]
============================================================================

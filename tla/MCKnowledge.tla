----------------------------- MODULE MCKnowledge -----------------------------
(* Two users with a project each.  b is a with other Arabic letters, c is a    *)
(* longer word around a, z is a word of its own.                               *)
EXTENDS Knowledge

CONSTANTS r1, r2, u1, u2, p1, p2, a, b, c, z

Symmetry == Permutations(Req)
MCOwner  == [p \in Project |-> IF p = p1 THEN u1 ELSE u2]
MCNorm   == [w \in Word |-> IF w = b THEN a ELSE w]
MCWithin == {<<w, w>> : w \in Word} \cup {<<a, c>>}

Text(once, often) == [w \in Word |-> (IF w \in once THEN 1 ELSE 0)
                                     + (IF w \in often THEN 5 ELSE 0)]
File(n, readable, title, text) ==
    [size |-> n, readable |-> readable, title |-> title, text |-> text]

Short  == File(3, TRUE, Text({}, {}), Text({a}, {}))
Long   == File(7, TRUE, Text({a}, {}), Text({z}, {}))
Sent(k, u, p, f) == [kind |-> k, user |-> u, project |-> p, size |-> f.size,
                     file |-> f, at |-> 0]
Bad(n, readable) == File(n, readable, Text({}, {}), Text({}, {}))
MCUploads == {Sent(k, u1, p, Short) : k \in {"create", "upload"}, p \in {p1, p2, None}}
        \cup {Sent("upload", u1, p1, Long), Sent("upload", u2, p2, Long),
              Sent("upload", u1, None, Bad(2, FALSE))}
        \cup {Sent(k, u1, None, Bad(n, TRUE)) : k \in {"create", "upload"}, n \in {8, 9}}
Held == {Short, Long,
           File(5, TRUE, Text({}, {}), Text({}, {a})),
           File(6, TRUE, Text({}, {}), Text({b}, {})),
           File(7, TRUE, Text({z}, {}), Text({a, c}, {}))}
Doc(i, f, p) == [at |-> i, user |-> u1, project |-> p,
                 took |-> f.size, file |-> f]
Shelves == {{Doc(1, f, p1), Doc(2, g, None), Doc(3, Short, p1)} : f \in Held, g \in Held}
           \cup {{}}
Messages == {<<>>, <<a>>, <<b>>, <<c>>, <<a, z>>, <<b, z, a>>}
===============================================================================

--------------------------- MODULE MCAuthSessions ---------------------------
(* Small instances of AuthSessions for TLC. *)
EXTENDS AuthSessions, TLC

\* Request slots are interchangeable in the safety properties.
Symmetry == Permutations(Req)
=============================================================================

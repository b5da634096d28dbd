------------------------------ MODULE MCWebChat ------------------------------
(* A small instance of WebChat for TLC. *)
EXTENDS WebChat

CONSTANTS c1, c2, c3    \* conversations
==============================================================================

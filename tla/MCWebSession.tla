---------------------------- MODULE MCWebSession ----------------------------
(* A small instance of WebSession for TLC. *)
EXTENDS WebSession

CONSTANTS c1, c2    \* calls in flight
=============================================================================

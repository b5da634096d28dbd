----------------------------- MODULE MCMobileApp -----------------------------
(* A small instance of MobileApp for TLC. *)
EXTENDS MobileApp, TLC

CONSTANTS c1, c2, c3,       \* conversations
          t1, t2, t3        \* tasks

MCSymmetry == Permutations(Id)
==============================================================================

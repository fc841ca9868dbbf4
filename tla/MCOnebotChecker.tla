-------------------------- MODULE MCOnebotChecker --------------------------
(* OnebotChecker for TLC. *)
EXTENDS OnebotChecker
=============================================================================

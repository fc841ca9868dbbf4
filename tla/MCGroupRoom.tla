----------------------------- MODULE MCGroupRoom -----------------------------
(* GroupRoom for TLC. *)
EXTENDS GroupRoom
=============================================================================

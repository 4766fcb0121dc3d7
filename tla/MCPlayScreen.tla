----------------------------- MODULE MCPlayScreen -----------------------------
(* Instances of PlayScreen for TLC. *)
EXTENDS PlayScreen
=============================================================================

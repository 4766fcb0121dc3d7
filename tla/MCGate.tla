------------------------------- MODULE MCGate -------------------------------
(* Instances of Gate for TLC. *)
EXTENDS Gate

CONSTANTS r1, r2  \* the requests

MCRequests == {r1, r2}

(* The Gate keeps no request of handle() or end() waiting on its own account *)
(* (see IsAnswered).  Nothing tells the requests apart: one stands for each. *)
RequestIsAnswered == IsAnswered(r1)
=============================================================================

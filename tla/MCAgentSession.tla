--------------------------- MODULE MCAgentSession ---------------------------
(* Instances of AgentSession for TLC. *)
EXTENDS AgentSession

CONSTANTS
  a1, a2  \* the activations

MCActivations == {a1, a2}
MCDeclarable == {"SUCCESS"}
=============================================================================

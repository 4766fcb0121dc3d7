--------------------------- MODULE MCSessionGroup ---------------------------
(* Instances of SessionGroup for TLC. *)
EXTENDS SessionGroup

CONSTANTS r1, r2  \* the calls of stepRound()

MCRounds == {r1, r2}

(* Members run out of ticks one after another. *)
MCTicks == [m \in 1..N |-> m]
MCMoreTicks == [m \in 1..N |-> m + 1]
=============================================================================

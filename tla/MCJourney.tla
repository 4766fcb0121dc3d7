------------------------------ MODULE MCJourney ------------------------------
(* Instances of Journey for TLC: two stages, the second with a deadline and *)
(* a decision whose ceiling is enforced.                                    *)
EXTENDS Journey, TLC

CONSTANTS s1, s2  \* the stages

MCStages == {s1, s2}
MCDeadline == s1 :> 0 @@ s2 :> 2
MCDecides == {s2}
=============================================================================

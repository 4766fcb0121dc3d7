----------------------------- MODULE JourneyLog -----------------------------
(* What a journey promises whoever reads its record: stages one at a time,  *)
(* each of them started and completed once, none after one that failed or   *)
(* was blocked, at most MaxStages of them, and an outcome the last one      *)
(* accounts for, which comes whatever the stages lead to.                   *)
EXTENDS Naturals, Sequences

CONSTANTS Stages, MaxStages, NoStage

VARIABLES
  open,    \* the stage started and not completed, or NoStage
  log,     \* the statuses of the stages completed
  outcome  \* "running", or how the journey ended

vars == <<open, log, outcome>>

Endings == {"completed", "stopped", "escalated", "handed-off"}
Passed == {"ok", "escalated"}

Init == open = NoStage /\ log = <<>> /\ outcome = "running"

Start ==
  /\ outcome = "running" /\ open = NoStage /\ Len(log) < MaxStages
  /\ open' \in Stages
  /\ UNCHANGED <<log, outcome>>

Complete(status) ==
  /\ open # NoStage
  /\ open' = NoStage
  /\ log' = Append(log, status)
  /\ outcome' \in
       CASE status = "ok" -> {"running", "completed", "handed-off"}
         [] status = "escalated" -> {"running", "completed", "handed-off", "escalated"}
         [] OTHER -> {"stopped"}

(* The most stages have been run. *)
Bound ==
  /\ outcome = "running" /\ open = NoStage /\ Len(log) = MaxStages
  /\ outcome' = "stopped"
  /\ UNCHANGED <<open, log>>

Next == Start \/ Bound \/ \E status \in Passed \union {"error", "blocked"} : Complete(status)

Spec == Init /\ [][Next]_vars /\ WF_vars(Next)
=============================================================================

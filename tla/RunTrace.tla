------------------------------ MODULE RunTrace ------------------------------
(***************************************************************************)
(* What a session promises the readers of its trace (the projection, the   *)
(* recorder, the evaluators, the group): a run opens once, its ticks are   *)
(* consecutive and one at a time, each decides, is permitted or asked      *)
(* about, acts at most once and completes, and the run ends once, with     *)
(* nothing after its end and never over an open question.                  *)
(***************************************************************************)
EXTENDS Integers

CONSTANT MaxTicks

VARIABLES
  phase,  \* "unopened", "open", "ended"
  tick,   \* ticks started
  stage   \* where the tick in hand is; "rest" between ticks

vars == <<phase, tick, stage>>

Init == phase = "unopened" /\ tick = 0 /\ stage = "rest"

Open == phase = "unopened" /\ phase' = "open" /\ UNCHANGED <<tick, stage>>

Pass(from, to) ==
  /\ phase = "open" /\ stage \in from /\ stage' \in to
  /\ UNCHANGED <<phase, tick>>

StartTick ==
  /\ phase = "open" /\ stage = "rest" /\ tick < MaxTicks
  /\ stage' = "thinking" /\ tick' = tick + 1
  /\ UNCHANGED phase

Decide   == Pass({"thinking"}, {"deciding", "done"})
Permit   == Pass({"deciding"}, {"acting", "done"})
Ask      == Pass({"deciding"}, {"asking"})
Answer   == Pass({"asking"}, {"acting", "done"})
Act      == Pass({"acting"}, {"done"})
Complete == Pass({"done"}, {"rest"})

End ==
  /\ phase # "ended" /\ stage # "asking"
  /\ phase' = "ended" /\ stage' = "rest"
  /\ UNCHANGED tick

Next == Open \/ StartTick \/ Decide \/ Permit \/ Ask \/ Answer \/ Act \/ Complete \/ End

Spec == Init /\ [][Next]_vars
=============================================================================

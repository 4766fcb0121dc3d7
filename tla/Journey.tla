------------------------------- MODULE Journey -------------------------------
(* A journey: runWorkflow() of packages/workflow/src/run.ts.  One work item   *)
(* goes from stage to stage; a stage's input and output pass a boundary chain *)
(* of guardrails, which may rewrite, hold, block or stop it, and where a      *)
(* configuration enforces its ceilings a decision above one waits for a       *)
(* person.  What an executor does, a guardrail says, a person answers and a   *)
(* stage leads to is chosen freely.                                           *)
EXTENDS Integers, Sequences

CONSTANTS
  Stages, First,  \* spec.stages, spec.first
  NoStage,        \* none of them
  MaxStages,      \* options.maxStages
  Deadline,       \* a stage's deadline in ticks, 0 for none
  Decides,        \* the stages whose decisions have an enforced ceiling
  MaxGuards,      \* the bound on a boundary's guardrails, the ceiling apart
  MaxSpan         \* the bound on an agent stage's ticks

ASSUME JourneyAssumption ==
  /\ First \in Stages /\ NoStage \notin Stages /\ Decides \subseteq Stages
  /\ MaxStages \in Nat /\ MaxGuards \in Nat /\ MaxSpan \in Nat \ {0}
  /\ Deadline \in [Stages -> Nat]

VARIABLES
  executor,  \* the executor's kind of each stage, as configured
  outcome,   \* the journey's outcome, "running" while it has none
  current,   \* the stage it is at
  input,     \* the input of that stage
  elapsed,   \* the journey's ticks
  lateStage, \* a person was late, for the loop to see
  stages,    \* the records of the stages completed
  pc,        \* where the journey is: between stages, or in one
  stage      \* the stage under way

vars == <<executor, outcome, current, input, elapsed, lateStage, stages, pc, stage>>
loopVars == <<executor, outcome, current, input, elapsed, stages>>

Kinds == {"agent", "rule", "human", "line", "reader"}
Passed == {"ok", "escalated"}

(* A value, by what guardrails see in it: something they would redact, in  *)
(* its text (it is a string or has a string `text') or out of the reach of *)
(* redactInto(); and a decision above its ceiling.                         *)
Values == [raw : {"nowhere", "text", "data"}, above : BOOLEAN]
Null == [raw |-> "nowhere", above |-> FALSE]

NoWork == [value |-> Null, output |-> Null, left |-> 0, status |-> "none", span |-> 1,
           person |-> FALSE, late |-> FALSE, confirmed |-> FALSE, redacted |-> FALSE]

Init ==
  /\ executor \in [Stages -> Kinds]
  /\ outcome = "running" /\ current = First /\ input \in Values
  /\ elapsed = 0 /\ lateStage = FALSE /\ stages = <<>>
  /\ pc = "top" /\ stage = NoWork

--------------------------------------------------------------------------------
(* runStage(), from check to check *)

(* The most stages have been run: a journey may go round in circles. *)
GiveUp ==
  /\ pc = "top" /\ outcome = "running" /\ Len(stages) >= MaxStages
  /\ outcome' = "stopped"
  /\ UNCHANGED <<executor, current, input, elapsed, lateStage, stages, pc, stage>>

(* The stage's input is rejected, or goes to the stage-in chain. *)
Enter ==
  /\ pc = "top" /\ outcome = "running" /\ Len(stages) < MaxStages
  /\ \/ /\ pc' = "close"
        /\ stage' = [NoWork EXCEPT !.status = "error"]
     \/ /\ pc' = "stage-in"
        /\ \E n \in 0 .. MaxGuards :
             stage' = [NoWork EXCEPT !.value = input, !.left = n, !.redacted = stage.redacted]
  /\ UNCHANGED <<loopVars, lateStage>>

(* redactInto() rewrites a value's text and leaves any other value as it was. *)
RedactInto(v) == IF v.raw = "text" THEN [v EXCEPT !.raw = "nowhere"] ELSE v

(* A check that lets the value on: allowed, annotated, or paused and approved, *)
(* which a pause is by itself where nobody can be asked; or judged `redact'.   *)
Went(w) == {[w EXCEPT !.left = @ - 1],
            [w EXCEPT !.left = @ - 1, !.value = RedactInto(w.value), !.redacted = TRUE]}

(* A check that halts: blocked, stopped, or paused and declined. *)
Halted(w) == [w EXCEPT !.left = 0, !.status = "blocked"]

CheckIn ==
  /\ pc = "stage-in" /\ stage.left > 0
  /\ \/ stage' \in Went(stage) /\ UNCHANGED pc
     \/ stage' = Halted(stage) /\ pc' = "close"
  /\ UNCHANGED <<loopVars, lateStage>>

(* stage.started, by the executor on the value the chain left. *)
Start ==
  /\ pc = "stage-in" /\ stage.left = 0
  /\ pc' = "work"
  /\ UNCHANGED <<loopVars, lateStage, stage>>

(* The executor is done: without an output the stage is closed, with one it *)
(* goes to the stage-out chain.                                             *)
Fails(status, w) ==
  /\ pc' = "close"
  /\ stage' = [w EXCEPT !.status = status, !.value = Null]

Produces(status, w) ==
  /\ pc' = "stage-out"
  /\ \E value \in Values, n \in 0 .. MaxGuards :
       stage' = [w EXCEPT !.status = status, !.value = value, !.output = value, !.left = n,
                          !.redacted = FALSE]

(* A session's outcome is read off the world, or it ended some other way; a *)
(* guardrail stopped it or escalated the case.                              *)
AgentWorks ==
  \E span \in 1 .. MaxSpan :
    LET w == [stage EXCEPT !.span = span]
    IN Produces("ok", w) \/ \E s \in {"error", "blocked", "escalated"} : Fails(s, w)

(* A rule, a line or a reader: an output, or an error. *)
MachineWorks == Produces("ok", stage) \/ Fails("error", stage)

(* A person, who may be late: the first option, another, or none of them. *)
PersonWorks ==
  \E late \in BOOLEAN :
    LET w == [stage EXCEPT !.person = TRUE, !.late = late]
    IN (\E s \in Passed : Produces(s, w)) \/ Fails("error", w)

(* A reader's gate hands the stage to a rule or to a person. *)
Work ==
  /\ pc = "work"
  /\ CASE executor[current] = "agent"  -> AgentWorks
       [] executor[current] = "human"  -> PersonWorks
       [] executor[current] = "reader" -> MachineWorks \/ PersonWorks
       [] OTHER -> MachineWorks
  /\ lateStage' = (lateStage \/ stage'.late)
  /\ UNCHANGED loopVars

CheckOut ==
  /\ pc = "stage-out" /\ stage.left > 0
  /\ \/ stage' \in Went(stage) /\ UNCHANGED pc
     \/ stage' = Halted(stage) /\ pc' = "close"
  /\ UNCHANGED <<loopVars, lateStage>>

(* MUTANT of Ceiling: a person's no is written and the stage goes on. *)
CeilingDeclined ==
  /\ pc = "stage-out" /\ stage.left = 0
  /\ pc' = "close"
  /\ IF current \in Decides /\ executor[current] # "human" /\ stage.value.above
     THEN stage' \in {[stage EXCEPT !.confirmed = TRUE], stage}
     ELSE UNCHANGED stage
  /\ UNCHANGED <<loopVars, lateStage>>

(* The last guardrail of a stage-out chain: a decision above its ceiling is *)
(* confirmed or declined by who answers for the host's person (a host that  *)
(* gives nobody to ask confirms), unless the executor is a person.          *)
Ceiling ==
  /\ pc = "stage-out" /\ stage.left = 0
  /\ pc' = "close"
  /\ IF current \in Decides /\ executor[current] # "human" /\ stage.value.above
     THEN stage' \in {[stage EXCEPT !.confirmed = TRUE], Halted(stage)}
     ELSE UNCHANGED stage
  /\ UNCHANGED <<loopVars, lateStage>>

--------------------------------------------------------------------------------
(* The record, and where the journey goes *)

Later(a, b) == IF a > b THEN a ELSE b

(* MUTANT of Clock: a late person's flag outlives a stage without deadline. *)
ClockKeepingLate ==
  IF lateStage /\ Deadline[current] > 0
  THEN /\ elapsed' = Later(elapsed + stage.span, Deadline[current] + 1) /\ lateStage' = FALSE
  ELSE elapsed' = elapsed + stage.span /\ UNCHANGED lateStage

(* The journey's ticks: a stage a person was late at takes up its deadline. *)
Clock ==
  /\ elapsed' = IF lateStage /\ Deadline[current] > 0
                THEN Later(elapsed + stage.span, Deadline[current] + 1)
                ELSE elapsed + stage.span
  /\ lateStage' = FALSE

Overdue == Deadline[current] > 0 /\ elapsed' > Deadline[current]

Record == [at |-> current, status |-> stage.status, span |-> stage.span, late |-> stage.late,
           overdue |-> Overdue, above |-> stage.value.above,
           person |-> stage.person, confirmed |-> stage.confirmed]

(* MUTANT of Output: the boundary's value is dropped. *)
OutputAsProduced == stage.output

(* The output the next stage is given; a chain that halted leaves it as the *)
(* executor produced it.                                                    *)
Output == IF stage.status = "blocked" THEN stage.output ELSE stage.value

(* MUTANT of Ends: only an error ends a journey. *)
EndsInError ==
  CASE stage.status = "error" -> {"stopped"}
    [] stage.status = "escalated" /\ executor[current] = "agent" -> {"escalated"}
    [] OTHER -> {"running", "completed", "handed-off"}

(* How a journey may be after the stage. *)
Ends ==
  CASE stage.status \in {"error", "blocked"} -> {"stopped"}
    [] stage.status = "escalated" /\ executor[current] = "agent" -> {"escalated"}
    [] OTHER -> {"running", "completed", "handed-off"}

(* finishStage()'s end and the rest of the loop. *)
Close ==
  /\ pc = "close"
  /\ Clock
  /\ stages' = Append(stages, Record)
  /\ outcome' \in Ends
  /\ pc' = "top"
  /\ IF outcome' = "running"
     THEN current' \in Stages /\ input' = Output
     ELSE UNCHANGED <<current, input>>
  /\ stage' = [NoWork EXCEPT !.redacted = stage.redacted]
  /\ UNCHANGED executor

Next == GiveUp \/ Enter \/ CheckIn \/ Start \/ Work \/ CheckOut \/ Ceiling \/ Close

(* Executors, guardrails and persons answer. *)
Spec == Init /\ [][Next]_vars /\ WF_vars(Next)

--------------------------------------------------------------------------------
(* Properties *)

(* "a decision [...] above its kind's ceiling pauses for a person" (run.ts):  *)
(* no journey goes on past one that no person made or confirmed, whoever the  *)
(* stage was handed to and whatever the guardrails before made of it.         *)
DecisionsWaitForAPerson ==
  \A i \in 1 .. Len(stages) :
    stages[i].status \in Passed /\ stages[i].above /\ stages[i].at \in Decides
      => stages[i].person \/ stages[i].confirmed

(* "redact rewrites the output before the next stage reads it" (83-TARGET- *)
(* DESIGN-V6.md 6.2.3), which redactInto() does for values with text and   *)
(* for no others: no executor works on text a guardrail of the last stage's *)
(* output or of its own input has redacted.                                 *)
RedactionIsRead == pc = "work" /\ stage.redacted => stage.value.raw # "text"

(* A person was late at the j-th stage, one with a deadline. *)
LateAt(j) == stages[j].late /\ Deadline[stages[j].at] > 0

(* The ticks of the stages up to the k-th, by their records. *)
TicksBy[k \in 0 .. Len(stages)] == IF k = 0 THEN 0 ELSE TicksBy[k - 1] + stages[k].span

(* A stage is overdue when the journey's ticks are past its deadline, and   *)
(* else only because a person was late, at it or before it, at a stage that *)
(* has a deadline; and always when a person was late at it (WP146, WP171).  *)
OverdueIsTrue ==
  \A i \in 1 .. Len(stages) :
    LET deadline == Deadline[stages[i].at]
        ticks == TicksBy[i]
    IN /\ deadline > 0 /\ (ticks > deadline \/ stages[i].late) => stages[i].overdue
       /\ stages[i].overdue => deadline > 0 /\ (ticks > deadline \/ \E j \in 1 .. i : LateAt(j))

(* A journey is what its record promises (see JourneyLog): one stage at a time, *)
(* none after a failed or blocked one, and an end it can account for, that      *)
(* comes even where the stages lead in a circle.                                *)
Log == INSTANCE JourneyLog WITH
  open <- IF pc \in {"work", "stage-out", "close"} THEN current ELSE NoStage,
  log <- [i \in 1 .. Len(stages) |-> stages[i].status]
KeepsAJourneyLog == Log!Spec
=============================================================================

---------------------------- MODULE JourneyProofs ----------------------------
(* That a journey's decisions wait for a person and that what a guardrail     *)
(* redacts stays redacted, for every set of stages, any ceilings and any      *)
(* number of guardrails, from one inductive invariant.                        *)
EXTENDS Journey, WellFoundedInduction, TLAPS

(* The values a journey's variables take.                                     *)
StageWork ==
  [value : Values, output : Values, left : Nat,
   status : {"none", "ok", "escalated", "error", "blocked"}, span : Nat,
   person : BOOLEAN, late : BOOLEAN, confirmed : BOOLEAN, redacted : BOOLEAN]

Entry == [at : Stages, status : {"none", "ok", "escalated", "error", "blocked"}, span : Nat,
          late : BOOLEAN, overdue : BOOLEAN, above : BOOLEAN, person : BOOLEAN,
          confirmed : BOOLEAN]

TypeInv ==
  /\ executor \in [Stages -> Kinds] /\ current \in Stages /\ input \in Values
  /\ outcome \in {"running", "completed", "handed-off", "stopped", "escalated"}
  /\ pc \in {"top", "stage-in", "work", "stage-out", "close"}
  /\ elapsed \in Nat /\ lateStage \in BOOLEAN
  /\ stage \in StageWork /\ stages \in Seq(Entry)

(* What a stage's work is before the ceiling is asked, and what it has become *)
(* when the stage is closed.                                                  *)
HumansAreAsked == pc = "stage-out" /\ executor[current] = "human" => stage.person

Confirmed ==
  pc = "close" /\ stage.status \in Passed /\ stage.value.above /\ current \in Decides
    => stage.person \/ stage.confirmed

(* Redacted text is gone from the value a stage carries, and from the input   *)
(* the next stage is to be given.                                             *)
Clean ==
  /\ pc \in {"stage-in", "work", "stage-out"} /\ stage.redacted => stage.value.raw # "text"
  /\ pc = "close" /\ stage.status # "blocked" /\ stage.redacted => stage.value.raw # "text"
  /\ pc = "top" /\ outcome = "running" /\ stage.redacted => input.raw # "text"

LEMMA NoWorkIsWork == NoWork \in StageWork
  BY DEF NoWork, StageWork, Null, Values

(* A check leaves a stage's work with less to check: as it was, redacted, or  *)
(* blocked.                                                                   *)
LEMMA WentTypes ==
  ASSUME NEW w \in StageWork, w.left > 0, NEW x \in Went(w)
  PROVE  /\ x \in StageWork /\ x.status = w.status /\ x.person = w.person
         /\ w.redacted => x.redacted
         /\ (w.redacted => w.value.raw # "text") => (x.redacted => x.value.raw # "text")
  <1>0. w.left \in Nat /\ w.left - 1 \in Nat BY DEF StageWork
  <1>1. CASE x = [w EXCEPT !.left = @ - 1]
    BY <1>0, <1>1 DEF StageWork
  <1>2. CASE x = [w EXCEPT !.left = @ - 1, !.value = RedactInto(w.value), !.redacted = TRUE]
    <2>1. RedactInto(w.value) \in Values /\ RedactInto(w.value).raw # "text"
      BY DEF StageWork, Values, RedactInto
    <2>2. x \in StageWork /\ x.status = w.status /\ x.person = w.person /\ x.redacted = TRUE
          /\ x.value = RedactInto(w.value)
      BY <1>0, <1>2, <2>1 DEF StageWork
    <2> QED BY <2>1, <2>2
  <1> QED BY <1>1, <1>2 DEF Went

LEMMA HaltedTypes ==
  ASSUME NEW w \in StageWork
  PROVE  Halted(w) \in StageWork /\ Halted(w).status = "blocked"
  BY DEF Halted, StageWork

(* A stage that fails carries no value on; one that produces a value has not  *)
(* redacted anything of it yet.                                               *)
LEMMA FailsTypes ==
  ASSUME NEW w \in StageWork, NEW s \in {"error", "blocked", "escalated"}, Fails(s, w)
  PROVE  /\ pc' = "close" /\ stage' \in StageWork
         /\ ~stage'.value.above /\ stage'.value.raw # "text"
  <1>0. Null \in Values BY DEF Null, Values
  <1>1. stage' \in StageWork /\ stage'.value = Null BY <1>0 DEF Fails, StageWork
  <1>2. pc' = "close" BY DEF Fails
  <1> QED BY <1>1, <1>2 DEF Null

LEMMA ProducesTypes ==
  ASSUME NEW w \in StageWork, NEW s \in Passed, Produces(s, w), MaxGuards \in Nat
  PROVE  /\ pc' = "stage-out" /\ stage' \in StageWork
         /\ ~stage'.redacted /\ stage'.person = w.person
  <1>0. PICK value \in Values, n \in 0 .. MaxGuards :
          stage' = [w EXCEPT !.status = s, !.value = value, !.output = value, !.left = n,
                             !.redacted = FALSE]
    BY DEF Produces
  <1>1. n \in Nat BY <1>0
  <1>2. stage' \in StageWork /\ ~stage'.redacted /\ stage'.person = w.person
    BY <1>0, <1>1 DEF StageWork, Passed
  <1>3. pc' = "stage-out" BY DEF Produces
  <1> QED BY <1>2, <1>3

(* The executor is done: a failure, or a value that a person made where the   *)
(* executor is one.                                                           *)
LEMMA WorkTypes ==
  ASSUME stage \in StageWork, executor \in [Stages -> Kinds], current \in Stages, Work
  PROVE  /\ stage' \in StageWork
         /\ \/ pc' = "close" /\ ~stage'.value.above /\ stage'.value.raw # "text"
            \/ /\ pc' = "stage-out" /\ ~stage'.redacted
               /\ executor[current] = "human" => stage'.person
  <1> DEFINE Good ==
        /\ stage' \in StageWork
        /\ \/ pc' = "close" /\ ~stage'.value.above /\ stage'.value.raw # "text"
           \/ /\ pc' = "stage-out" /\ ~stage'.redacted
              /\ executor[current] = "human" => stage'.person
  <1>0. MaxGuards \in Nat /\ MaxSpan \in Nat BY JourneyAssumption
  <1>1. AgentWorks /\ executor[current] # "human" => Good
    <2> SUFFICES ASSUME AgentWorks, executor[current] # "human" PROVE Good
      OBVIOUS
    <2>1. PICK span \in 1 .. MaxSpan :
            \/ Produces("ok", [stage EXCEPT !.span = span])
            \/ \E s \in {"error", "blocked", "escalated"} :
                 Fails(s, [stage EXCEPT !.span = span])
      BY DEF AgentWorks
    <2>2. [stage EXCEPT !.span = span] \in StageWork BY <1>0 DEF StageWork
    <2>3. CASE Produces("ok", [stage EXCEPT !.span = span])
      BY <1>0, <2>2, <2>3, ProducesTypes DEF Passed
    <2>4. CASE \E s \in {"error", "blocked", "escalated"} :
                 Fails(s, [stage EXCEPT !.span = span])
      BY <2>2, <2>4, FailsTypes
    <2> QED BY <2>1, <2>3, <2>4
  <1>2. MachineWorks /\ executor[current] # "human" => Good
    <2>1. Produces("ok", stage) /\ executor[current] # "human" => Good
      BY <1>0, ProducesTypes DEF Passed
    <2>2. Fails("error", stage) => Good BY FailsTypes
    <2> QED BY <2>1, <2>2 DEF MachineWorks
  <1>3. PersonWorks => Good
    <2> SUFFICES ASSUME PersonWorks PROVE Good
      OBVIOUS
    <2>1. PICK late \in BOOLEAN :
            \/ \E s \in Passed : Produces(s, [stage EXCEPT !.person = TRUE, !.late = late])
            \/ Fails("error", [stage EXCEPT !.person = TRUE, !.late = late])
      BY DEF PersonWorks
    <2> DEFINE w == [stage EXCEPT !.person = TRUE, !.late = late]
    <2>2. w \in StageWork /\ w.person = TRUE BY DEF StageWork
    <2> HIDE DEF w
    <2>3. CASE \E s \in Passed : Produces(s, w)
      BY <1>0, <2>2, <2>3, ProducesTypes
    <2>4. CASE Fails("error", w) BY <2>2, <2>4, FailsTypes
    <2> QED BY <2>1, <2>3, <2>4 DEF w
  <1> HIDE DEF Good
  <1>4. Good BY <1>1, <1>2, <1>3 DEF Work, Kinds
  <1> QED BY <1>4 DEF Good

--------------------------------------------------------------------------------
(* The invariant holds at first, and every step keeps it.                     *)
IInv == TypeInv /\ HumansAreAsked /\ Confirmed /\ Clean /\ DecisionsWaitForAPerson

LEMMA InitInv == Init => IInv
  <1> SUFFICES ASSUME Init PROVE IInv
    OBVIOUS
  <1>1. current \in Stages /\ stages \in Seq(Entry) /\ Len(stages) = 0
    BY JourneyAssumption DEF Init
  <1>2. stage \in StageWork /\ stage.redacted = FALSE
    BY NoWorkIsWork DEF Init, NoWork
  <1>3. TypeInv BY <1>1, <1>2 DEF Init, TypeInv
  <1>4. DecisionsWaitForAPerson BY <1>1 DEF DecisionsWaitForAPerson
  <1>5. HumansAreAsked /\ Confirmed /\ Clean
    BY <1>2 DEF Init, HumansAreAsked, Confirmed, Clean
  <1> QED BY <1>3, <1>4, <1>5 DEF IInv

(* A decision's record is kept as its stage was closed.                       *)
LEMMA CloseKeepsRecords ==
  ASSUME IInv, Close
  PROVE  stages' \in Seq(Entry) /\ DecisionsWaitForAPerson'
  <1> DEFINE r == Record
  <1>1. TypeInv /\ Confirmed /\ DecisionsWaitForAPerson /\ stages \in Seq(Entry)
    BY DEF IInv, TypeInv
  <1>2. stages' = Append(stages, r) BY DEF Close
  <1>3. r.at = current /\ r.status = stage.status /\ r.above = stage.value.above
        /\ r.person = stage.person /\ r.confirmed = stage.confirmed
    BY DEF Record
  <1>4. r \in Entry
    <2>1. stage.status \in {"none", "ok", "escalated", "error", "blocked"}
          /\ stage.span \in Nat /\ stage.late \in BOOLEAN /\ stage.person \in BOOLEAN
          /\ stage.confirmed \in BOOLEAN /\ stage.value.above \in BOOLEAN /\ current \in Stages
      BY <1>1 DEF TypeInv, StageWork, Values
    <2>2. Overdue \in BOOLEAN BY DEF Overdue
    <2> QED BY <2>1, <2>2 DEF Record, Entry
  <1>5. r.status \in Passed /\ r.above /\ r.at \in Decides => r.person \/ r.confirmed
    BY <1>1, <1>3 DEF Confirmed, Close
  <1> HIDE DEF r
  <1>6. stages' \in Seq(Entry) /\ Len(stages') = Len(stages) + 1 BY <1>1, <1>2, <1>4
  <1>7. ASSUME NEW i \in 1 .. Len(stages')
        PROVE  stages'[i].status \in Passed /\ stages'[i].above /\ stages'[i].at \in Decides
                 => stages'[i].person \/ stages'[i].confirmed
    <2>1. CASE i = Len(stages) + 1
      <3>1. stages'[i] = r BY <1>1, <1>2, <1>4, <2>1
      <3> QED BY <3>1, <1>5
    <2>2. CASE i # Len(stages) + 1
      <3>1. i \in 1 .. Len(stages) BY <1>1, <1>6, <2>2
      <3>2. stages'[i] = stages[i] BY <1>1, <1>2, <1>4, <3>1
      <3> QED BY <1>1, <3>1, <3>2 DEF DecisionsWaitForAPerson
    <2> QED BY <2>1, <2>2
  <1> QED BY <1>6, <1>7 DEF DecisionsWaitForAPerson

LEMMA CloseKeepsInv ==
  ASSUME IInv, Close
  PROVE  IInv'
  <1>1. TypeInv /\ Clean BY DEF IInv
  <1>2. stage \in StageWork /\ stage.value \in Values /\ stage.output \in Values
    BY <1>1 DEF TypeInv, StageWork
  <1>3. stage' = [NoWork EXCEPT !.redacted = stage.redacted] BY DEF Close
  <1>4. stage' \in StageWork /\ stage'.redacted = stage.redacted
    BY <1>2, <1>3, NoWorkIsWork DEF StageWork
  <1>5. executor' = executor /\ pc' = "top" BY DEF Close
  <1>6. elapsed' \in Nat /\ lateStage' = FALSE
    <2>1. stage.span \in Nat /\ elapsed \in Nat /\ Deadline[current] \in Nat
      BY <1>1, <1>2, JourneyAssumption DEF TypeInv, StageWork
    <2> QED BY <2>1 DEF Close, Clock, Later
  <1>7. outcome' \in {"running", "completed", "handed-off", "stopped", "escalated"}
        /\ (stage.status = "blocked" => outcome' = "stopped")
    BY DEF Close, Ends
  <1>8. current' \in Stages /\ input' \in Values
        /\ (outcome' = "running" => input' = stage.value)
    <2>1. CASE outcome' = "running"
      BY <1>2, <1>7, <2>1 DEF Close, Output
    <2>2. CASE outcome' # "running"
      BY <1>1, <2>2 DEF Close, TypeInv
    <2> QED BY <2>1, <2>2
  <1>9. outcome' = "running" /\ stage'.redacted => input'.raw # "text"
    BY <1>1, <1>4, <1>7, <1>8 DEF Clean, Close
  <1>10. TypeInv' BY <1>1, <1>4, <1>5, <1>6, <1>7, <1>8, CloseKeepsRecords DEF TypeInv
  <1>11. Clean' /\ HumansAreAsked' /\ Confirmed'
    BY <1>5, <1>9 DEF Clean, HumansAreAsked, Confirmed
  <1> QED BY <1>10, <1>11, CloseKeepsRecords DEF IInv

LEMMA NextInv == IInv /\ [Next]_vars => IInv'
  <1> SUFFICES ASSUME IInv, [Next]_vars PROVE IInv'
    OBVIOUS
  <1>0. /\ TypeInv /\ HumansAreAsked /\ Confirmed /\ Clean /\ DecisionsWaitForAPerson
        /\ stage \in StageWork /\ stage.left \in Nat
    BY DEF IInv, TypeInv, StageWork
  <1> DEFINE Rest == /\ executor' = executor /\ outcome' = outcome /\ current' = current
                     /\ input' = input /\ elapsed' = elapsed /\ stages' = stages
  <1>1. CASE GiveUp
    <2>1. Rest \/ outcome' = "stopped" BY <1>1 DEF GiveUp
    <2>2. TypeInv' BY <1>0, <1>1 DEF GiveUp, TypeInv
    <2>3. HumansAreAsked' /\ Confirmed' /\ Clean'
      BY <1>0, <1>1 DEF GiveUp, HumansAreAsked, Confirmed, Clean
    <2>4. DecisionsWaitForAPerson' BY <1>0, <1>1 DEF GiveUp, DecisionsWaitForAPerson
    <2> QED BY <2>2, <2>3, <2>4 DEF IInv
  <1>2. CASE Enter
    <2>1. Rest /\ lateStage' = lateStage BY <1>2 DEF Enter, loopVars
    <2>2. CASE pc' = "close" /\ stage' = [NoWork EXCEPT !.status = "error"]
      <3>1. stage' \in StageWork /\ stage'.value = Null
        BY <2>2, NoWorkIsWork DEF StageWork, NoWork
      <3> QED BY <1>0, <2>1, <2>2, <3>1
              DEF IInv, TypeInv, HumansAreAsked, Confirmed, Clean, DecisionsWaitForAPerson, Null
    <2>3. CASE pc' = "stage-in" /\ \E n \in 0 .. MaxGuards :
               stage' = [NoWork EXCEPT !.value = input, !.left = n, !.redacted = stage.redacted]
      <3>1. PICK n \in 0 .. MaxGuards :
              stage' = [NoWork EXCEPT !.value = input, !.left = n, !.redacted = stage.redacted]
        BY <2>3
      <3>2. n \in Nat /\ stage.redacted \in BOOLEAN /\ input \in Values
        BY <1>0, JourneyAssumption DEF TypeInv, StageWork
      <3>3. stage' \in StageWork /\ stage'.value = input /\ stage'.redacted = stage.redacted
        BY <3>1, <3>2, NoWorkIsWork DEF StageWork
      <3>4. stage'.redacted => stage'.value.raw # "text"
        BY <1>0, <1>2, <3>3 DEF Enter, Clean
      <3> QED BY <1>0, <2>1, <2>3, <3>3, <3>4
              DEF IInv, TypeInv, HumansAreAsked, Confirmed, Clean, DecisionsWaitForAPerson
    <2> QED BY <1>2, <2>2, <2>3 DEF Enter
  <1>3. CASE CheckIn \/ CheckOut
    <2>1. Rest /\ lateStage' = lateStage /\ pc \in {"stage-in", "stage-out"} /\ stage.left > 0
      BY <1>3 DEF CheckIn, CheckOut, loopVars
    <2>2. CASE stage' \in Went(stage) /\ pc' = pc
      <3>1. stage' \in StageWork /\ stage'.person = stage.person
            /\ (stage'.redacted => stage'.value.raw # "text")
        BY <1>0, <2>1, <2>2, WentTypes DEF Clean
      <3>2. TypeInv' BY <1>0, <2>1, <2>2, <3>1 DEF TypeInv
      <3>3. HumansAreAsked' BY <1>0, <2>1, <2>2, <3>1 DEF HumansAreAsked
      <3>4. Confirmed' /\ Clean' BY <1>0, <2>1, <2>2, <3>1 DEF Confirmed, Clean
      <3>5. DecisionsWaitForAPerson' BY <1>0, <2>1 DEF DecisionsWaitForAPerson
      <3> QED BY <3>2, <3>3, <3>4, <3>5 DEF IInv
    <2>3. CASE stage' = Halted(stage) /\ pc' = "close"
      <3>1. stage' \in StageWork /\ stage'.status = "blocked" BY <1>0, <2>3, HaltedTypes
      <3>2. TypeInv' BY <1>0, <2>1, <2>3, <3>1 DEF TypeInv
      <3>3. HumansAreAsked' /\ Confirmed' /\ Clean'
        BY <2>3, <3>1 DEF HumansAreAsked, Confirmed, Clean, Passed
      <3>4. DecisionsWaitForAPerson' BY <1>0, <2>1 DEF DecisionsWaitForAPerson
      <3> QED BY <3>2, <3>3, <3>4 DEF IInv
    <2> QED BY <1>3, <2>2, <2>3 DEF CheckIn, CheckOut
  <1>4. CASE Start
    <2>1. Rest /\ lateStage' = lateStage /\ pc = "stage-in" /\ pc' = "work" /\ stage' = stage
      BY <1>4 DEF Start, loopVars
    <2> QED BY <1>0, <2>1
            DEF IInv, TypeInv, HumansAreAsked, Confirmed, Clean, DecisionsWaitForAPerson
  <1>5. CASE Work
    <2>1. Rest BY <1>5 DEF Work, loopVars
    <2>2. /\ stage' \in StageWork
          /\ \/ pc' = "close" /\ ~stage'.value.above /\ stage'.value.raw # "text"
             \/ /\ pc' = "stage-out" /\ ~stage'.redacted
                /\ executor[current] = "human" => stage'.person
      BY <1>0, <1>5, WorkTypes DEF TypeInv
    <2>3. lateStage' \in BOOLEAN
      <3>1. lateStage' = (lateStage \/ stage'.late) BY <1>5 DEF Work
      <3>2. lateStage \in BOOLEAN /\ stage'.late \in BOOLEAN BY <1>0, <2>2 DEF TypeInv, StageWork
      <3> QED BY <3>1, <3>2
    <2>4. TypeInv' BY <1>0, <2>1, <2>2, <2>3 DEF TypeInv
    <2>5. HumansAreAsked' /\ Confirmed' /\ Clean'
      BY <2>1, <2>2 DEF HumansAreAsked, Confirmed, Clean
    <2>6. DecisionsWaitForAPerson' BY <1>0, <2>1 DEF DecisionsWaitForAPerson
    <2> QED BY <2>4, <2>5, <2>6 DEF IInv
  <1>6. CASE Ceiling
    <2>1. Rest /\ lateStage' = lateStage /\ pc = "stage-out" /\ pc' = "close"
      BY <1>6 DEF Ceiling, loopVars
    <2>2. CASE current \in Decides /\ executor[current] # "human" /\ stage.value.above
               /\ stage' = [stage EXCEPT !.confirmed = TRUE]
      <3>1. stage' \in StageWork /\ stage'.confirmed = TRUE /\ stage'.value = stage.value
            /\ stage'.redacted = stage.redacted
        BY <1>0, <2>2 DEF StageWork
      <3>2. TypeInv' BY <1>0, <2>1, <3>1 DEF TypeInv
      <3>3. HumansAreAsked' /\ Confirmed' /\ Clean'
        BY <1>0, <2>1, <3>1 DEF HumansAreAsked, Confirmed, Clean
      <3>4. DecisionsWaitForAPerson' BY <1>0, <2>1 DEF DecisionsWaitForAPerson
      <3> QED BY <3>2, <3>3, <3>4 DEF IInv
    <2>3. CASE stage' = Halted(stage)
      <3>1. stage' \in StageWork /\ stage'.status = "blocked" BY <1>0, <2>3, HaltedTypes
      <3>2. TypeInv' BY <1>0, <2>1, <3>1 DEF TypeInv
      <3>3. HumansAreAsked' /\ Confirmed' /\ Clean'
        BY <2>1, <3>1 DEF HumansAreAsked, Confirmed, Clean, Passed
      <3>4. DecisionsWaitForAPerson' BY <1>0, <2>1 DEF DecisionsWaitForAPerson
      <3> QED BY <3>2, <3>3, <3>4 DEF IInv
    <2>4. CASE /\ ~(current \in Decides /\ executor[current] # "human" /\ stage.value.above)
               /\ stage' = stage
      <3>1. TypeInv' BY <1>0, <2>1, <2>4 DEF TypeInv
      <3>2. Confirmed'
        BY <1>0, <2>1, <2>4 DEF HumansAreAsked, Confirmed
      <3>3. HumansAreAsked' /\ Clean' BY <1>0, <2>1, <2>4 DEF HumansAreAsked, Clean
      <3>4. DecisionsWaitForAPerson' BY <1>0, <2>1 DEF DecisionsWaitForAPerson
      <3> QED BY <3>1, <3>2, <3>3, <3>4 DEF IInv
    <2> QED BY <1>6, <2>2, <2>3, <2>4 DEF Ceiling
  <1>7. CASE Close BY <1>7, CloseKeepsInv
  <1>8. CASE UNCHANGED vars
    BY <1>0, <1>8
       DEF vars, IInv, TypeInv, HumansAreAsked, Confirmed, Clean, DecisionsWaitForAPerson
  <1> QED BY <1>1, <1>2, <1>3, <1>4, <1>5, <1>6, <1>7, <1>8 DEF Next

LEMMA AlwaysInv == Spec => []IInv
  BY InitInv, NextInv, PTL DEF Spec

(* Every journey's stages and records are what they are declared to be.       *)
THEOREM TypeCorrect == Spec => []TypeInv
  <1>1. IInv => TypeInv BY DEF IInv
  <1> QED BY <1>1, AlwaysInv, PTL

(* No journey goes on past a decision above an enforced ceiling that no       *)
(* person made or confirmed (run.ts, finishStage and the ceiling guardrail).  *)
THEOREM DecisionsDoWait == Spec => []DecisionsWaitForAPerson
  <1>1. IInv => DecisionsWaitForAPerson BY DEF IInv
  <1> QED BY <1>1, AlwaysInv, PTL

(* No executor works on text that was redacted before it (run.ts, runStage    *)
(* and the input that is handed to the next stage).                           *)
THEOREM RedactionsAreRead == Spec => []RedactionIsRead
  <1>1. IInv => RedactionIsRead BY DEF IInv, Clean, RedactionIsRead
  <1> QED BY <1>1, AlwaysInv, PTL

--------------------------------------------------------------------------------
(* A journey keeps the log it promises: Journey's steps are JourneyLog's,     *)
(* under the mapping of the instance Log.  It takes two more facts: a stage   *)
(* is entered only while the journey goes on and has stages left, and a stage *)
(* that is closed has a status.                                               *)
InBounds ==
  /\ Len(stages) <= MaxStages
  /\ pc # "top" => outcome = "running" /\ Len(stages) < MaxStages
  /\ pc = "stage-out" => stage.status \in Passed
  /\ pc = "close" => stage.status \in {"ok", "escalated", "error", "blocked"}

LEMMA WorkGivesStatus ==
  ASSUME stage \in StageWork, Work
  PROVE  \/ pc' = "stage-out" /\ stage'.status \in Passed
         \/ pc' = "close" /\ stage'.status \in {"ok", "escalated", "error", "blocked"}
  <1> DEFINE Good ==
        \/ pc' = "stage-out" /\ stage'.status \in Passed
        \/ pc' = "close" /\ stage'.status \in {"ok", "escalated", "error", "blocked"}
  <1>1. ASSUME NEW w \in StageWork, NEW s \in Passed, Produces(s, w) PROVE Good
    BY <1>1 DEF Produces, StageWork
  <1>2. ASSUME NEW w \in StageWork, NEW s \in {"error", "blocked", "escalated"}, Fails(s, w)
        PROVE  Good
    BY <1>2 DEF Fails, StageWork
  <1> HIDE DEF Good
  <1>3. ASSUME AgentWorks PROVE Good
    <2>1. PICK span \in 1 .. MaxSpan :
            \/ Produces("ok", [stage EXCEPT !.span = span])
            \/ \E s \in {"error", "blocked", "escalated"} :
                 Fails(s, [stage EXCEPT !.span = span])
      BY <1>3 DEF AgentWorks
    <2>2. [stage EXCEPT !.span = span] \in StageWork
      BY JourneyAssumption DEF StageWork
    <2> QED BY <1>1, <1>2, <2>1, <2>2 DEF Passed
  <1>4. ASSUME MachineWorks PROVE Good BY <1>1, <1>2, <1>4 DEF MachineWorks, Passed
  <1>5. ASSUME PersonWorks PROVE Good
    <2>1. PICK late \in BOOLEAN :
            \/ \E s \in Passed : Produces(s, [stage EXCEPT !.person = TRUE, !.late = late])
            \/ Fails("error", [stage EXCEPT !.person = TRUE, !.late = late])
      BY <1>5 DEF PersonWorks
    <2>2. [stage EXCEPT !.person = TRUE, !.late = late] \in StageWork BY DEF StageWork
    <2> QED BY <1>1, <1>2, <2>1, <2>2
  <1>6. Good BY <1>3, <1>4, <1>5 DEF Work
  <1> QED BY <1>6 DEF Good

LEMMA NextInBounds == IInv /\ InBounds /\ [Next]_vars => InBounds'
  <1> SUFFICES ASSUME IInv, InBounds, [Next]_vars PROVE InBounds'
    OBVIOUS
  <1>0. /\ stage \in StageWork /\ stages \in Seq(Entry) /\ Len(stages) \in Nat
        /\ MaxStages \in Nat
    BY JourneyAssumption DEF IInv, TypeInv
  <1>1. CASE GiveUp BY <1>1 DEF GiveUp, InBounds
  <1>2. CASE Enter
    <2>1. /\ outcome' = outcome /\ stages' = stages /\ outcome = "running"
          /\ Len(stages) < MaxStages
      BY <1>2 DEF Enter, loopVars
    <2>2. \/ pc' = "close" /\ stage'.status = "error"
          \/ pc' = "stage-in"
      BY <1>2, NoWorkIsWork DEF Enter, StageWork
    <2> QED BY <2>1, <2>2 DEF InBounds
  <1>3. CASE CheckIn \/ CheckOut
    <2>1. outcome' = outcome /\ stages' = stages /\ pc \in {"stage-in", "stage-out"}
          /\ stage.left > 0
      BY <1>3 DEF CheckIn, CheckOut, loopVars
    <2>2. CASE stage' \in Went(stage) /\ pc' = pc
      <3>1. stage'.status = stage.status BY <1>0, <2>1, <2>2, WentTypes
      <3> QED BY <2>1, <2>2, <3>1 DEF InBounds
    <2>3. CASE stage' = Halted(stage) /\ pc' = "close"
      <3>1. stage'.status = "blocked" BY <1>0, <2>3, HaltedTypes
      <3> QED BY <2>1, <2>3, <3>1 DEF InBounds
    <2> QED BY <1>3, <2>2, <2>3 DEF CheckIn, CheckOut
  <1>4. CASE Start BY <1>4 DEF Start, InBounds, loopVars
  <1>5. CASE Work
    <2>1. outcome' = outcome /\ stages' = stages /\ pc = "work"
      BY <1>5 DEF Work, loopVars
    <2> QED BY <1>0, <1>5, <2>1, WorkGivesStatus DEF InBounds
  <1>6. CASE Ceiling
    <2>1. /\ outcome' = outcome /\ stages' = stages /\ pc = "stage-out" /\ pc' = "close"
          /\ \/ stage' = [stage EXCEPT !.confirmed = TRUE]
             \/ stage' = Halted(stage)
             \/ stage' = stage
      BY <1>6 DEF Ceiling, loopVars
    <2>2. stage'.status \in {stage.status, "blocked"}
      BY <1>0, <2>1, HaltedTypes DEF StageWork
    <2> QED BY <2>1, <2>2 DEF InBounds, Passed
  <1>7. CASE Close
    <2>1. pc' = "top" /\ stages' = Append(stages, Record) /\ pc = "close"
      BY <1>7 DEF Close
    <2>2. Len(stages') = Len(stages) + 1 BY <1>0, <2>1
    <2> QED BY <1>0, <2>1, <2>2 DEF InBounds
  <1>8. CASE UNCHANGED vars BY <1>8 DEF vars, InBounds
  <1> QED BY <1>1, <1>2, <1>3, <1>4, <1>5, <1>6, <1>7, <1>8 DEF Next

(* The mapping.                                                               *)
LogOpen == IF pc \in {"work", "stage-out", "close"} THEN current ELSE NoStage
LogLog == [i \in 1 .. Len(stages) |-> stages[i].status]

LEMMA StepIsLogged == IInv /\ InBounds /\ [Next]_vars => [Log!Next]_(Log!vars)
  <1> SUFFICES ASSUME IInv, InBounds, [Next]_vars
               PROVE  \/ Log!Next
                      \/ LogOpen' = LogOpen /\ LogLog' = LogLog /\ outcome' = outcome
    BY DEF Log!vars, LogOpen, LogLog
  <1> DEFINE Still == LogOpen' = LogOpen /\ LogLog' = LogLog /\ outcome' = outcome
  <1>0. /\ stage \in StageWork /\ stages \in Seq(Entry) /\ Len(stages) \in Nat
        /\ MaxStages \in Nat /\ current \in Stages /\ NoStage \notin Stages
    BY JourneyAssumption DEF IInv, TypeInv
  <1>1. Len(LogLog) = Len(stages) /\ LogLog \in Seq({"none", "ok", "escalated", "error", "blocked"})
    <2>1. ASSUME NEW i \in 1 .. Len(stages)
          PROVE  stages[i].status \in {"none", "ok", "escalated", "error", "blocked"}
      <3>1. stages[i] \in Entry BY <1>0
      <3> QED BY <3>1 DEF Entry
    <2> QED BY <1>0, <2>1 DEF LogLog
  <1>2. stages' = stages => LogLog' = LogLog BY DEF LogLog
  <1>3. CASE GiveUp
    <2>1. /\ Len(LogLog) = MaxStages /\ LogOpen = NoStage /\ outcome = "running"
          /\ outcome' = "stopped" /\ LogOpen' = LogOpen /\ LogLog' = LogLog
      BY <1>0, <1>1, <1>2, <1>3 DEF GiveUp, InBounds, LogOpen
    <2> QED BY <2>1 DEF Log!Next, Log!Bound, LogOpen, LogLog
  <1>4. ASSUME pc \in {"top", "stage-in"}, pc' \in {"work", "close"}, outcome = "running",
               Len(stages) < MaxStages, UNCHANGED loopVars
        PROVE  Log!Next
    <2>1. /\ LogOpen = NoStage /\ LogOpen' = current /\ LogLog' = LogLog
          /\ outcome' = outcome /\ Len(LogLog) < MaxStages
      BY <1>1, <1>2, <1>4 DEF LogOpen, loopVars
    <2> QED BY <1>0, <1>4, <2>1 DEF Log!Next, Log!Start, LogOpen, LogLog
  <1>5. ASSUME UNCHANGED loopVars,
               \/ pc \in {"top", "stage-in"} /\ pc' \in {"top", "stage-in"}
               \/ pc \in {"work", "stage-out", "close"} /\ pc' \in {"work", "stage-out", "close"}
        PROVE  Still
    BY <1>2, <1>5 DEF LogOpen, loopVars
  <1> HIDE DEF Still
  <1>6. CASE Enter
    BY <1>4, <1>5, <1>6 DEF Enter, Still
  <1>7. CASE CheckIn
    BY <1>4, <1>5, <1>7 DEF CheckIn, InBounds, Still
  <1>8. CASE Start
    BY <1>4, <1>8 DEF Start, InBounds
  <1>9. CASE Work
    <2>1. pc = "work" /\ pc' \in {"stage-out", "close"} /\ UNCHANGED loopVars
      BY <1>0, <1>9, WorkGivesStatus DEF Work
    <2> QED BY <1>5, <2>1 DEF Still
  <1>10. CASE CheckOut \/ Ceiling
    BY <1>5, <1>10 DEF CheckOut, Ceiling, Still
  <1>11. CASE Close
    <2> DEFINE r == Record
    <2>1. /\ pc = "close" /\ pc' = "top" /\ stages' = Append(stages, r)
          /\ r.status = stage.status /\ outcome' \in Ends /\ stages' \in Seq(Entry)
      BY <1>11, CloseKeepsRecords DEF Close, Record
    <2> HIDE DEF r
    <2>2. Len(stages') = Len(stages) + 1 /\ stages'[Len(stages) + 1] = r
          /\ \A i \in 1 .. Len(stages) : stages'[i] = stages[i]
      BY <1>0, <2>1
    <2>3. LogLog' = Append(LogLog, stage.status)
      <3>1. LogLog' = [i \in 1 .. Len(stages) + 1 |-> stages'[i].status]
        BY <2>2 DEF LogLog
      <3>2. Append(LogLog, stage.status) =
              [i \in 1 .. Len(stages) + 1 |->
                 IF i = Len(stages) + 1 THEN stage.status ELSE LogLog[i]]
        BY <1>0, <1>1 DEF StageWork
      <3>3. \A i \in 1 .. Len(stages) + 1 :
              stages'[i].status = IF i = Len(stages) + 1 THEN stage.status ELSE LogLog[i]
        BY <1>0, <2>1, <2>2 DEF LogLog
      <3> QED BY <3>1, <3>2, <3>3
    <2>4. LogOpen = current /\ LogOpen # NoStage /\ LogOpen' = NoStage
      BY <1>0, <2>1 DEF LogOpen
    <2>5. stage.status \in {"ok", "escalated", "error", "blocked"}
      BY <2>1 DEF InBounds
    <2>6. outcome' \in
            CASE stage.status = "ok" -> {"running", "completed", "handed-off"}
              [] stage.status = "escalated" -> {"running", "completed", "handed-off", "escalated"}
              [] OTHER -> {"stopped"}
      BY <2>1, <2>5 DEF Ends
    <2> DEFINE s == stage.status
    <2>7. /\ LogLog' = Append(LogLog, s) /\ s \in {"ok", "escalated", "error", "blocked"}
          /\ outcome' \in CASE s = "ok" -> {"running", "completed", "handed-off"}
               [] s = "escalated" -> {"running", "completed", "handed-off", "escalated"}
               [] OTHER -> {"stopped"}
      BY <2>3, <2>5, <2>6
    <2>8. s \in Log!Passed \cup {"error", "blocked"} BY <2>5 DEF Log!Passed
    <2> HIDE DEF s
    <2>9. \E status \in Log!Passed \cup {"error", "blocked"} : Log!Complete(status)
      BY <2>4, <2>7, <2>8 DEF Log!Complete, LogOpen, LogLog
    <2> QED BY <2>9 DEF Log!Next
  <1>12. CASE UNCHANGED vars
    <2>1. UNCHANGED loopVars /\ pc' = pc BY <1>12 DEF vars, loopVars
    <2>2. pc \in {"top", "stage-in", "work", "stage-out", "close"} BY DEF IInv, TypeInv
    <2> QED BY <1>5, <2>1, <2>2 DEF Still
  <1> QED BY <1>3, <1>6, <1>7, <1>8, <1>9, <1>10, <1>11, <1>12 DEF Next

(* Every journey's record is a log: one stage at a time, none after a failed  *)
(* or blocked one, at most MaxStages, and an outcome the last one accounts    *)
(* for (run.ts, runWorkflow's loop).  That it ends is left to TLC.            *)
THEOREM JourneyKeepsALog == Spec => Log!Init /\ [][Log!Next]_(Log!vars)
  <1>1. Init => InBounds /\ Log!Init
    <2> SUFFICES ASSUME Init PROVE InBounds /\ Log!Init
      OBVIOUS
    <2>1. Len(stages) = 0 /\ MaxStages \in Nat /\ stages = <<>>
      BY JourneyAssumption DEF Init
    <2>2. [i \in 1 .. Len(stages) |-> stages[i].status] = <<>> BY <2>1
    <2> QED BY <2>1, <2>2 DEF Init, InBounds, Log!Init
  <1> QED BY <1>1, AlwaysInv, NextInBounds, StepIsLogged, PTL DEF Spec

--------------------------------------------------------------------------------
(* The ticks of a record, stage by stage.  The recursion is one the provers    *)
(* cannot induct over by a theorem of the library; the least counterexample    *)
(* takes the theorem's place.                                                  *)
LEMMA LeastOf ==
  ASSUME NEW T \in SUBSET Nat, T # {}
  PROVE  \E x \in T : \A y \in T : x <= y
  <1>1. PICK x \in T : \A y \in T : ~ (<<y, x>> \in OpToRel(<, Nat))
    BY NatLessThanWellFounded, WFMin
  <1>2. \A y \in T : ~ (y < x) BY <1>1 DEF OpToRel
  <1>3. \A y \in T : x <= y BY <1>2
  <1> QED BY <1>3

(* f counts the ticks of the first n records of s.                            *)
CountsTo(f, s, n) == f = [k \in 0 .. n |-> IF k = 0 THEN 0 ELSE f[k - 1] + s[k].span]

LEMMA SpanIsNat == ASSUME NEW s \in Seq(Entry), NEW i \in 1 .. Len(s) PROVE s[i].span \in Nat
  <1>1. s[i] \in Entry OBVIOUS
  <1> QED BY <1>1 DEF Entry

(* Two counts of records that begin alike agree.                              *)
Alike(s, t, n) == \A i \in 1 .. n : s[i] = t[i]

LEMMA CountsAgree ==
  ASSUME NEW s, NEW t, NEW n \in Nat, NEW m \in Nat, n <= m, NEW f, NEW g,
         CountsTo(f, s, n), CountsTo(g, t, m), Alike(s, t, n)
  PROVE  \A k \in 0 .. n : f[k] = g[k]
  <1> DEFINE T == {k \in 0 .. n : f[k] # g[k]}
  <1> SUFFICES ASSUME T # {} PROVE FALSE
    OBVIOUS
  <1>1. T \in SUBSET Nat OBVIOUS
  <1>2. PICK x \in T : \A y \in T : x <= y
    <2> HIDE DEF T
    <2> QED BY <1>1, LeastOf
  <1>3. x \in 0 .. n /\ f[x] # g[x] OBVIOUS
  <1>4. \A k \in 0 .. n : f[k] = IF k = 0 THEN 0 ELSE f[k - 1] + s[k].span BY DEF CountsTo
  <1>5. \A k \in 0 .. m : g[k] = IF k = 0 THEN 0 ELSE g[k - 1] + t[k].span BY DEF CountsTo
  <1>6. x # 0 /\ x \in 1 .. n /\ x - 1 \in 0 .. n BY <1>3, <1>4, <1>5
  <1>7. x - 1 \notin T BY <1>2, <1>6
  <1>8. f[x - 1] = g[x - 1] BY <1>6, <1>7
  <1>9. f[x] = f[x - 1] + s[x].span /\ g[x] = g[x - 1] + t[x].span
    BY <1>4, <1>5, <1>6
  <1>10. s[x] = t[x] BY <1>6 DEF Alike
  <1> QED BY <1>3, <1>6, <1>8, <1>9, <1>10

(* There is a count of every record.                                          *)
LEMMA CountExists ==
  ASSUME NEW s \in Seq(Entry)
  PROVE  \A n \in 0 .. Len(s) : \E f \in [0 .. n -> Nat] : CountsTo(f, s, n)
  <1> DEFINE T == {n \in 0 .. Len(s) : ~ \E f \in [0 .. n -> Nat] : CountsTo(f, s, n)}
  <1> SUFFICES ASSUME T # {} PROVE FALSE
    OBVIOUS
  <1>1. T \in SUBSET Nat OBVIOUS
  <1>2. PICK n \in T : \A y \in T : n <= y
    <2> HIDE DEF T
    <2> QED BY <1>1, LeastOf
  <1>3. n \in 0 .. Len(s) /\ Len(s) \in Nat OBVIOUS
  <1>4. CASE n = 0
    <2> DEFINE f == [k \in 0 .. 0 |-> 0]
    <2>1. f \in [0 .. n -> Nat] BY <1>4
    <2>2. CountsTo(f, s, n) BY <1>4 DEF CountsTo
    <2> QED BY <2>1, <2>2
  <1>5. CASE n # 0
    <2>0. n - 1 \in 0 .. Len(s) /\ ~ (n <= n - 1) BY <1>3, <1>5
    <2>1. n - 1 \in 0 .. Len(s) /\ n - 1 \notin T
      <3> HIDE DEF T
      <3> QED BY <1>2, <2>0
    <2>2. PICK f \in [0 .. n - 1 -> Nat] : CountsTo(f, s, n - 1) BY <2>1
    <2>3. s[n].span \in Nat BY <1>3, <1>5, SpanIsNat
    <2> DEFINE g == [k \in 0 .. n |-> IF k = n THEN f[n - 1] + s[n].span ELSE f[k]]
    <2>4. \A k \in 0 .. n - 1 : f[k] = IF k = 0 THEN 0 ELSE f[k - 1] + s[k].span
      BY <2>2 DEF CountsTo
    <2>5. f[n - 1] \in Nat BY <1>3, <1>5
    <2>6. \A k \in 0 .. n : g[k] \in Nat BY <1>3, <1>5, <2>3, <2>5
    <2>7. ASSUME NEW k \in 0 .. n
          PROVE  g[k] = IF k = 0 THEN 0 ELSE g[k - 1] + s[k].span
      <3>1. CASE k = n
        <4>1. g[n] = f[n - 1] + s[n].span /\ g[n - 1] = f[n - 1] BY <1>3, <1>5
        <4> QED BY <1>5, <3>1, <4>1
      <3>2. CASE k # n /\ k # 0
        <4>1. k \in 0 .. n - 1 /\ k - 1 \in 0 .. n /\ k - 1 # n BY <1>3, <3>2
        <4>2. g[k] = f[k] /\ g[k - 1] = f[k - 1] BY <3>2, <4>1
        <4> QED BY <2>4, <3>2, <4>1, <4>2
      <3>3. CASE k # n /\ k = 0
        <4>1. 0 \in 0 .. n - 1 BY <1>3, <1>5
        <4>2. f[0] = 0 BY <2>4, <4>1
        <4> QED BY <3>3, <4>2
      <3> QED BY <3>1, <3>2, <3>3
    <2>8. g = [k \in 0 .. n |-> g[k]] OBVIOUS
    <2>9. g \in [0 .. n -> Nat] BY <2>6, <2>8
    <2> HIDE DEF g
    <2>10. CountsTo(g, s, n) BY <2>7, <2>8 DEF CountsTo
    <2> QED BY <2>9, <2>10
  <1> QED BY <1>4, <1>5

(* The count the model takes is the count.                                    *)
Total(s) == CHOOSE f : CountsTo(f, s, Len(s))

LEMMA TotalIs ==
  ASSUME NEW s \in Seq(Entry)
  PROVE  /\ CountsTo(Total(s), s, Len(s))
         /\ Total(s) \in [0 .. Len(s) -> Nat]
         /\ Total(s)[0] = 0
         /\ \A k \in 1 .. Len(s) : Total(s)[k] = Total(s)[k - 1] + s[k].span
  <1>0. Len(s) \in Nat /\ Len(s) \in 0 .. Len(s) /\ 0 \in 0 .. Len(s) OBVIOUS
  <1>1. PICK f \in [0 .. Len(s) -> Nat] : CountsTo(f, s, Len(s)) BY <1>0, CountExists
  <1>2. CountsTo(Total(s), s, Len(s)) BY <1>1 DEF Total
  <1>3. \A k \in 0 .. Len(s) : Total(s)[k] = f[k]
    <2>1. Alike(s, s, Len(s)) BY DEF Alike
    <2> QED BY <1>0, <1>1, <1>2, <2>1, CountsAgree
  <1>4. Total(s) = [k \in 0 .. Len(s) |-> IF k = 0 THEN 0 ELSE Total(s)[k - 1] + s[k].span]
    BY <1>2 DEF CountsTo
  <1>5. \A k \in 0 .. Len(s) : Total(s)[k] = IF k = 0 THEN 0 ELSE Total(s)[k - 1] + s[k].span
    BY <1>4
  <1>6. Total(s) = [k \in 0 .. Len(s) |-> Total(s)[k]] BY <1>4, <1>5
  <1>7. \A k \in 0 .. Len(s) : Total(s)[k] \in Nat BY <1>1, <1>3
  <1>8. Total(s) \in [0 .. Len(s) -> Nat] BY <1>6, <1>7
  <1>9. \A k \in 1 .. Len(s) : k \in 0 .. Len(s) /\ k # 0 BY <1>0
  <1> QED BY <1>0, <1>2, <1>5, <1>8, <1>9

(* A record more adds its ticks and changes nothing before it.                *)
LEMMA TotalAppended ==
  ASSUME NEW s \in Seq(Entry), NEW e \in Entry, NEW t, t = Append(s, e)
  PROVE  /\ \A k \in 0 .. Len(s) : Total(t)[k] = Total(s)[k]
         /\ Total(t)[Len(s) + 1] = Total(s)[Len(s)] + e.span
  <1>1. /\ t \in Seq(Entry) /\ Len(t) = Len(s) + 1 /\ Len(s) \in Nat /\ Len(t) \in Nat
        /\ Len(s) <= Len(t) /\ t[Len(s) + 1] = e
        /\ \A i \in 1 .. Len(s) : s[i] = t[i]
    OBVIOUS
  <1>2. CountsTo(Total(s), s, Len(s)) /\ CountsTo(Total(t), t, Len(t)) BY <1>1, TotalIs
  <1>3. \A k \in 0 .. Len(s) : Total(s)[k] = Total(t)[k]
    <2> DEFINE f == Total(s)
               g == Total(t)
               n == Len(s)
               m == Len(t)
    <2>1. /\ n \in Nat /\ m \in Nat /\ n <= m /\ CountsTo(f, s, n) /\ CountsTo(g, t, m)
          /\ Alike(s, t, n)
      BY <1>1, <1>2 DEF Alike
    <2> HIDE DEF f, g, n, m
    <2>2. \A k \in 0 .. n : f[k] = g[k] BY <2>1, CountsAgree
    <2> QED BY <2>2 DEF f, g, n
  <1>4. Len(s) + 1 \in 1 .. Len(t) /\ Len(s) + 1 - 1 = Len(s) /\ Len(s) \in 0 .. Len(s) BY <1>1
  <1>5. Total(t)[Len(s) + 1] = Total(t)[Len(s) + 1 - 1] + t[Len(s) + 1].span BY <1>1, <1>4, TotalIs
  <1> QED BY <1>1, <1>3, <1>4, <1>5

LEMMA TicksByIs == TicksBy = Total(stages)
  BY DEF TicksBy, Total, CountsTo

(* The journey's clock: a late person's flag is up from the work to the close *)
(* of the stage it was raised in, and the clock is ahead of the records'      *)
(* ticks only where somebody was late.                                        *)
FlagFits ==
  /\ pc \in {"top", "stage-in", "work"} => ~lateStage /\ ~stage.late
  /\ pc \in {"stage-out", "close"} => lateStage = stage.late

ClockFits ==
  /\ TicksBy[Len(stages)] <= elapsed
  /\ elapsed > TicksBy[Len(stages)] => \E j \in 1 .. Len(stages) : LateAt(j)

LEMMA WorkRaisesFlag ==
  ASSUME stage \in StageWork, ~stage.late, ~lateStage, MaxGuards \in Nat, MaxSpan \in Nat, Work
  PROVE  lateStage' = stage'.late
  <1>1. lateStage' = (lateStage \/ stage'.late) BY DEF Work
  <1>2. stage'.late \in BOOLEAN
    <2>1. ASSUME NEW w \in StageWork, NEW s, Fails(s, w) PROVE stage'.late = w.late
      BY <2>1 DEF Fails, StageWork
    <2>2. ASSUME NEW w \in StageWork, NEW s, Produces(s, w) PROVE stage'.late = w.late
      BY <2>2 DEF Produces, StageWork
    <2>3. \A span \in 1 .. MaxSpan : [stage EXCEPT !.span = span] \in StageWork
      BY DEF StageWork
    <2>4. \A late \in BOOLEAN : [stage EXCEPT !.person = TRUE, !.late = late] \in StageWork
      BY DEF StageWork
    <2>5. \A w \in StageWork : w.late \in BOOLEAN BY DEF StageWork
    <2>6. CASE AgentWorks BY <2>1, <2>2, <2>3, <2>5, <2>6 DEF AgentWorks
    <2>7. CASE MachineWorks BY <2>1, <2>2, <2>5, <2>7 DEF MachineWorks
    <2>8. CASE PersonWorks BY <2>1, <2>2, <2>4, <2>5, <2>8 DEF PersonWorks
    <2> QED BY <2>6, <2>7, <2>8 DEF Work
  <1> QED BY <1>1, <1>2

(* A stage is closed at the ticks its record adds, or late.                   *)
LEMMA CloseIsPunctual ==
  ASSUME IInv, FlagFits, ClockFits, OverdueIsTrue, Close
  PROVE  FlagFits' /\ ClockFits' /\ OverdueIsTrue'
  <1> DEFINE n == Len(stages)
             r == Record
             old == Total(stages)
             now == Total(stages')
             d == Deadline[current]
             Ahead == \E j \in 1 .. n : LateAt(j)
             AheadNow == \E j \in 1 .. n + 1 : LateAt(j)'
  <1>1. /\ TypeInv /\ stages \in Seq(Entry) /\ n \in Nat /\ stage \in StageWork
        /\ stage.span \in Nat /\ elapsed \in Nat /\ current \in Stages /\ d \in Nat
        /\ stage.late \in BOOLEAN
    BY JourneyAssumption DEF IInv, TypeInv, StageWork
  <1>2. /\ stages' = Append(stages, r) /\ pc = "close" /\ pc' = "top" /\ lateStage' = FALSE
        /\ lateStage = stage.late
    BY DEF Close, Clock, FlagFits
  <1>3. r.at = current /\ r.span = stage.span /\ r.late = stage.late /\ r.overdue = Overdue
    BY DEF Record
  <1>4. r \in Entry
    <2>1. stages' \in Seq(Entry) BY CloseKeepsRecords
    <2>2. Len(stages') = n + 1 /\ stages'[n + 1] = r BY <1>1, <1>2
    <2>3. n + 1 \in 1 .. Len(stages') BY <1>1, <2>2
    <2> QED BY <2>1, <2>2, <2>3
  <1>5. elapsed' = IF stage.late /\ d > 0 THEN Later(elapsed + stage.span, d + 1)
                   ELSE elapsed + stage.span
    BY <1>2 DEF Close, Clock
  <1>6. Overdue <=> d > 0 /\ elapsed' > d BY DEF Overdue
  <1> HIDE DEF r
  <1>7. /\ stages' \in Seq(Entry) /\ Len(stages') = n + 1 /\ stages'[n + 1] = r
        /\ \A i \in 1 .. n : stages'[i] = stages[i]
    BY <1>1, <1>2, <1>4
  <1>8. (\A k \in 0 .. n : now[k] = old[k]) /\ now[n + 1] = old[n] + r.span
    BY <1>1, <1>2, <1>4, TotalAppended
  <1>9. old[n] \in Nat
    <2>1. old \in [0 .. n -> Nat] /\ n \in 0 .. n BY <1>1, TotalIs
    <2> QED BY <2>1
  <1>10. TicksBy = old /\ TicksBy' = now BY DEF TicksBy, Total, CountsTo
  <1>11. ASSUME NEW j \in 1 .. n PROVE LateAt(j)' <=> LateAt(j)
    <2>1. stages'[j] = stages[j] BY <1>7
    <2> QED BY <2>1 DEF LateAt
  <1>12. \A j \in {n + 1} : LateAt(j)' <=> stage.late /\ d > 0
    <2>1. stages'[n + 1].at = current /\ stages'[n + 1].late = stage.late BY <1>3, <1>7
    <2> QED BY <2>1 DEF LateAt
  <1>13. AheadNow <=> Ahead \/ (stage.late /\ d > 0) BY <1>1, <1>11, <1>12
  <1>14. old[n] <= elapsed /\ (elapsed > old[n] => Ahead) BY <1>10 DEF ClockFits
  <1>15. now[n + 1] = old[n] + stage.span BY <1>3, <1>8
  <1>16. /\ elapsed' \in Nat /\ now[n + 1] <= elapsed'
         /\ elapsed' > now[n + 1] => AheadNow
         /\ stage.late /\ d > 0 => elapsed' > d
    <2> HIDE DEF n, old, now, d, Ahead, AheadNow
    <2>1. elapsed + stage.span >= now[n + 1]
      BY <1>1, <1>9, <1>14, <1>15
    <2>2. elapsed + stage.span > now[n + 1] => Ahead
      BY <1>1, <1>9, <1>14, <1>15
    <2>3. CASE stage.late /\ d > 0
      BY <1>1, <1>5, <1>13, <2>1, <2>3, <1>9, <1>15 DEF Later
    <2>4. CASE ~(stage.late /\ d > 0)
      BY <1>1, <1>5, <1>13, <2>1, <2>2, <2>4
    <2> QED BY <2>3, <2>4
  <1>17. ClockFits' BY <1>7, <1>10, <1>16 DEF ClockFits
  <1>18. FlagFits'
    <2>1. stage'.late = FALSE BY NoWorkIsWork DEF Close, NoWork
    <2> QED BY <1>2, <2>1 DEF FlagFits
  <1>19. OverdueIsTrue'
    <2> DEFINE True(i) ==
          /\ Deadline[stages'[i].at] > 0 /\ (now[i] > Deadline[stages'[i].at] \/ stages'[i].late)
               => stages'[i].overdue
          /\ stages'[i].overdue
               => /\ Deadline[stages'[i].at] > 0
                  /\ now[i] > Deadline[stages'[i].at] \/ \E j \in 1 .. i : LateAt(j)'
    <2>1. ASSUME NEW i \in 1 .. n PROVE True(i)
      <3>1. i \in 0 .. n /\ \A j \in 1 .. i : j \in 1 .. n BY <1>1
      <3>2. stages'[i] = stages[i] /\ now[i] = TicksBy[i] BY <1>7, <1>8, <1>10, <3>1
      <3>3. (\E j \in 1 .. i : LateAt(j)') <=> (\E j \in 1 .. i : LateAt(j)) BY <1>11, <3>1
      <3>4. /\ Deadline[stages[i].at] > 0 /\ (TicksBy[i] > Deadline[stages[i].at] \/ stages[i].late)
                 => stages[i].overdue
            /\ stages[i].overdue
                 => /\ Deadline[stages[i].at] > 0
                    /\ TicksBy[i] > Deadline[stages[i].at] \/ \E j \in 1 .. i : LateAt(j)
        BY <2>1 DEF OverdueIsTrue
      <3> QED BY <3>2, <3>3, <3>4
    <2>2. True(n + 1)
      <3>1. stages'[n + 1].at = current /\ stages'[n + 1].late = stage.late
            /\ stages'[n + 1].overdue = Overdue
        BY <1>3, <1>7
      <3>2. Deadline[stages'[n + 1].at] = d BY <3>1
      <3>3. d > 0 /\ (now[n + 1] > d \/ stage.late) => Overdue
        <4> HIDE DEF n, old, now, d
        <4>1. now[n + 1] \in Nat BY <1>1, <1>9, <1>15
        <4>2. now[n + 1] > d => elapsed' > d BY <1>1, <1>16, <4>1
        <4> QED BY <1>6, <1>16, <4>2
      <3>4. Overdue => d > 0 /\ (now[n + 1] > d \/ AheadNow)
        <4> HIDE DEF n, old, now, d, AheadNow
        <4>1. now[n + 1] \in Nat BY <1>1, <1>9, <1>15
        <4>2. elapsed' > d /\ ~(now[n + 1] > d) => elapsed' > now[n + 1]
          BY <1>1, <1>16, <4>1
        <4> QED BY <1>6, <1>16, <4>2
      <3> QED BY <3>1, <3>2, <3>3, <3>4
    <2>3. \A i \in 1 .. Len(stages') : i \in 1 .. n \/ i = n + 1 BY <1>1, <1>7
    <2>4. \A i \in 1 .. Len(stages') : True(i) BY <2>1, <2>2, <2>3
    <2> QED BY <1>10, <2>4 DEF OverdueIsTrue
  <1> QED BY <1>17, <1>18, <1>19

LEMMA NextIsPunctual ==
  IInv /\ FlagFits /\ ClockFits /\ OverdueIsTrue /\ [Next]_vars
    => FlagFits' /\ ClockFits' /\ OverdueIsTrue'
  <1> SUFFICES ASSUME IInv, FlagFits, ClockFits, OverdueIsTrue, [Next]_vars
               PROVE  FlagFits' /\ ClockFits' /\ OverdueIsTrue'
    OBVIOUS
  <1>0. stage \in StageWork /\ lateStage \in BOOLEAN BY DEF IInv, TypeInv
  <1>1. ASSUME stages' = stages, elapsed' = elapsed
        PROVE  ClockFits' /\ OverdueIsTrue'
    <2>1. TicksBy' = TicksBy BY <1>1 DEF TicksBy
    <2>2. \A j \in 1 .. Len(stages) : LateAt(j)' <=> LateAt(j) BY <1>1 DEF LateAt
    <2>3. ClockFits' BY <1>1, <2>1, <2>2 DEF ClockFits
    <2>4. \A i \in 1 .. Len(stages) : \A j \in 1 .. i : j \in 1 .. Len(stages) 
      BY DEF IInv, TypeInv
    <2>5. \A i \in 1 .. Len(stages) :
            (\E j \in 1 .. i : LateAt(j)') <=> (\E j \in 1 .. i : LateAt(j))
      BY <2>2, <2>4
    <2>6. OverdueIsTrue' BY <1>1, <2>1, <2>5 DEF OverdueIsTrue
    <2> QED BY <2>3, <2>6
  <1>2. ASSUME lateStage' = lateStage, stage'.late = stage.late,
               pc \in {"top", "stage-in", "work"} <=> pc' \in {"top", "stage-in", "work"},
               pc \in {"stage-out", "close"} <=> pc' \in {"stage-out", "close"}
        PROVE  FlagFits'
    BY <1>2 DEF FlagFits
  <1>3. CASE GiveUp
    BY <1>1, <1>2, <1>3 DEF GiveUp
  <1>4. CASE Enter
    <2>1. stage'.late = FALSE BY <1>4, NoWorkIsWork DEF Enter, NoWork
    <2> QED BY <1>0, <1>1, <1>4, <2>1 DEF Enter, loopVars, FlagFits
  <1>5. CASE CheckIn \/ CheckOut
    <2>1. stage' \in Went(stage) \cup {Halted(stage)} BY <1>5 DEF CheckIn, CheckOut
    <2>2. stage'.late = stage.late
      BY <1>0, <2>1 DEF Went, Halted, StageWork
    <2>3. CASE CheckIn
      <3>1. lateStage = FALSE /\ stage.late = FALSE BY <1>0, <2>3 DEF CheckIn, FlagFits, StageWork
      <3> QED BY <1>1, <2>2, <2>3, <3>1 DEF CheckIn, loopVars, FlagFits
    <2>4. CASE CheckOut
      BY <1>1, <1>2, <2>2, <2>4 DEF CheckOut, loopVars
    <2> QED BY <1>5, <2>3, <2>4
  <1>6. CASE Start
    BY <1>1, <1>2, <1>6 DEF Start, loopVars
  <1>7. CASE Work
    <2>1. pc = "work" /\ pc' \in {"stage-out", "close"}
      BY <1>0, <1>7, WorkGivesStatus DEF Work
    <2>2. lateStage' = stage'.late
      BY <1>0, <1>7, <2>1, WorkRaisesFlag, JourneyAssumption DEF FlagFits
    <2> QED BY <1>1, <1>7, <2>1, <2>2 DEF Work, loopVars, FlagFits
  <1>8. CASE Ceiling
    <2>1. stage'.late = stage.late BY <1>0, <1>8 DEF Ceiling, Halted, StageWork
    <2> QED BY <1>1, <1>2, <1>8, <2>1 DEF Ceiling, loopVars
  <1>9. CASE Close BY <1>9, CloseIsPunctual
  <1>10. CASE UNCHANGED vars
    BY <1>1, <1>2, <1>10 DEF vars
  <1> QED BY <1>3, <1>4, <1>5, <1>6, <1>7, <1>8, <1>9, <1>10 DEF Next

(* A stage is overdue exactly when the ticks are past its deadline or a       *)
(* person's lateness says so, for any deadlines and any order of the stages:  *)
(* no flag outlives its stage (run.ts, lateStage and the loop's clock).       *)
THEOREM OverdueTells == Spec => []OverdueIsTrue
  <1>1. Init => FlagFits /\ ClockFits /\ OverdueIsTrue
    <2> SUFFICES ASSUME Init PROVE FlagFits /\ ClockFits /\ OverdueIsTrue
      OBVIOUS
    <2>1. stages \in Seq(Entry) /\ Len(stages) = 0 BY DEF Init
    <2>2. TicksBy[0] = 0 BY <2>1, TicksByIs, TotalIs
    <2>3. stage.late = FALSE BY DEF Init, NoWork
    <2> QED BY <2>1, <2>2, <2>3 DEF Init, FlagFits, ClockFits, OverdueIsTrue
  <1> QED BY <1>1, AlwaysInv, NextIsPunctual, PTL DEF Spec
=============================================================================

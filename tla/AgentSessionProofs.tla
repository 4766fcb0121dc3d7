------------------------- MODULE AgentSessionProofs -------------------------
(* Theorems about AgentSession, for any number of activations and budgets. *)
EXTENDS AgentSession, TLAPS

(***************************************************************************)
(* The pieces handlers share                                               *)
(***************************************************************************)

(* A tick that begins leaves what it touches of the right type (safeTick). *)
LEMMA BeginTickTypes ==
  ASSUME TypeOK, NEW a \in Activations, BeginTick(a)
  PROVE  /\ status' = "running" /\ ticks' = ticks + 1 /\ ticks' \in Nat
         /\ asked' \in [Activations -> Prompt]
         /\ pc' \in [Activations -> Label]
         /\ emitted' = {"tick.started"}
         /\ UNCHANGED <<outcome, begun, tokens, answer>>
<1>1. PICK hook \in {"reflexGuard", "preThink"} : Goto(a, hook)
  BY DEF BeginTick
<1>2. pc' \in [Activations -> Label]
  BY <1>1 DEF Goto, TypeOK, Label, InTick
<1>3. asked' \in [Activations -> Prompt]
  BY DEF BeginTick, TypeOK, Prompt
<1>4. ticks' = ticks + 1 /\ ticks' \in Nat
  BY DEF BeginTick, TypeOK
<1>5. QED
  BY <1>2, <1>3, <1>4 DEF BeginTick

(* A loop that leaves, too (playLoop). *)
LEMMA LeaveLoopTypes ==
  ASSUME TypeOK, NEW a \in Activations, LeaveLoop(a), SessionAssumption
  PROVE  /\ pc' \in [Activations -> Label]
         /\ current' \in Activations \cup {NoOne}
         /\ pauseRequested' \in BOOLEAN
         /\ status' \in Status
         /\ emitted' = {}
         /\ UNCHANGED <<mode, outcome, begun, stopRequested, declared, usage,
                  asked, answer>>
<1>1. pc' \in [Activations -> Label]
  BY DEF LeaveLoop, Goto, TypeOK, Label
<1>2. CASE current = a
  BY <1>1, <1>2 DEF LeaveLoop, TypeOK, Status
<1>3. CASE current # a
  BY <1>1, <1>3 DEF LeaveLoop, TypeOK, Status
<1>4. QED
  BY <1>2, <1>3

(***************************************************************************)
(* For any host                                                            *)
(***************************************************************************)

(* A session that has just been created is of the right type. *)
LEMMA TypesAtInit ==
  ASSUME Init
  PROVE  TypeOK
<1> USE SessionAssumption
<1>1. answer \in [Activations -> BOOLEAN]
  BY Zenon DEF Init
<1>2. pc \in [Activations -> Label] /\ kind \in [Activations -> {"step", "play",
         "start"}]
      /\ asked \in [Activations -> Prompt]
  BY DEF Init, Label, Prompt
<1>3. QED
  BY <1>1, <1>2 DEF Init, TypeOK, Status, Mode, Outcome, Event

(* Every step keeps the types, whatever the host does. *)
LEMMA TypesStep ==
  ASSUME TypeOK, [Next]_vars
  PROVE  TypeOK'
<1> USE SessionAssumption DEF TypeOK, Status, Mode, Outcome, Label, InTick,
        Prompt, Event
<1>1. ASSUME NEW a \in Activations, Open(a)
      PROVE  TypeOK'
  <2>1. CASE BeginTick(a) /\ UNCHANGED <<mode, requests, current, pending, kind>>
    BY <2>1, BeginTickTypes DEF requests
  <2>2. CASE LeaveLoop(a) /\ UNCHANGED <<pending, kind>>
    BY <2>2, LeaveLoopTypes DEF usage
  <2>3. CASE /\ Goto(a, "none") /\ status' = "paused" /\ emitted' = {}
             /\ UNCHANGED <<mode, outcome, begun, requests, usage, current,
                            asked, answer, pending, kind>>
    BY <2>3 DEF Goto, requests, usage
  <2>4. QED
    BY <1>1, <2>1, <2>2, <2>3 DEF Open
<1>2. ASSUME NEW a \in Activations, PreThink(a)
      PROVE  TypeOK'
  BY <1>2 DEF PreThink, Finish, Goto, run, requests, usage
<1>3. ASSUME NEW a \in Activations, RateLimited(a) \/ Retry(a)
      PROVE  TypeOK'
  BY <1>3 DEF RateLimited, Retry, Goto, run, requests, usage
<1>4. ASSUME NEW a \in Activations, Reply(a)
      PROVE  TypeOK'
  BY <1>4 DEF Reply, Asks, Finish, Goto, run, requests
<1>5. ASSUME NEW a \in Activations, PreAct(a)
      PROVE  TypeOK'
  BY <1>5 DEF PreAct, Finish, Goto, run, requests, usage
<1>6. ASSUME NEW a \in Activations, Answered(a) \/ Act(a)
      PROVE  TypeOK'
  BY <1>6 DEF Answered, Act, Goto, run, requests, usage
<1>7. ASSUME NEW a \in Activations, Judge(a)
      PROVE  TypeOK'
  BY <1>7 DEF Judge, Judgement, Finish, Goto, run, requests, usage
<1>8. ASSUME NEW a \in Activations, TickThrows(a)
      PROVE  TypeOK'
  BY <1>8 DEF TickThrows, Throw, Finish, Goto, requests, usage
<1>9. ASSUME NEW a \in Activations, Settle(a)
      PROVE  TypeOK'
  BY <1>9 DEF Settle, Goto, requests, usage
<1>10. ASSUME NEW a \in Activations, LoopTop(a)
       PROVE  TypeOK'
  <2>1. CASE BeginTick(a) /\ UNCHANGED <<mode, requests, current, pending, kind>>
    BY <2>1, BeginTickTypes DEF requests
  <2>2. CASE LeaveLoop(a) /\ UNCHANGED <<pending, kind>>
    BY <2>2, LeaveLoopTypes DEF usage
  <2>3. QED
    BY <1>10, <2>1, <2>2 DEF LoopTop
<1>11. ASSUME NEW a \in Activations, NEW m \in Mode, StartNew(a, m)
       PROVE  TypeOK'
  BY <1>11 DEF StartNew, StartRun, Goto, requests, usage
<1>12. ASSUME NEW a \in Activations, NEW m \in Mode, StartAgain(a, m)
       PROVE  TypeOK'
  <2>1. CASE m = "play" /\ ~stopRequested
    BY <1>12, <2>1, BeginTickTypes DEF StartAgain
  <2>2. CASE ~(m = "play" /\ ~stopRequested)
    BY <1>12, <2>2 DEF StartAgain, usage
  <2>3. QED
    BY <2>1, <2>2
<1>13. ASSUME NEW a \in Activations, Step(a)
       PROVE  TypeOK'
  <2>1. CASE status = "idle"
    BY <1>13, <2>1 DEF Step, StartRun, Goto, requests
  <2>2. CASE status # "idle"
    BY <1>13, <2>2, BeginTickTypes DEF Step, requests
  <2>3. QED
    BY <2>1, <2>2
<1>14. CASE Pause
  BY <1>14 DEF Pause, usage
<1>15. ASSUME NEW approved \in BOOLEAN, ResolveApproval(approved)
       PROVE  TypeOK'
  BY <1>15 DEF ResolveApproval, Goto, requests, usage
<1>16. CASE Stop
  BY <1>16 DEF Stop, Finish, run, usage
<1>17. ASSUME NEW o \in Declarable, DeclareOutcome(o)
       PROVE  TypeOK'
  BY <1>17 DEF DeclareOutcome, Finish, run, usage
<1>18. CASE DeliverInput
  BY <1>18 DEF DeliverInput, run, requests, usage
<1>19. CASE UNCHANGED vars
  BY <1>19 DEF vars, run, requests, usage
<1>20. QED
  BY <1>1, <1>2, <1>3, <1>4, <1>5, <1>6, <1>7, <1>8, <1>9, <1>10, <1>11, <1>12,
     <1>13, <1>14, <1>15, <1>16, <1>17, <1>18, <1>19 DEF Next, Host, Advance

(* Every state is of the right type, whatever the host does. *)
THEOREM TypeCorrect == Spec => []TypeOK
  BY TypesAtInit, TypesStep, PTL DEF Spec

(* A stretch of a tick opens a question only where it parks its own         *)
(* activation at it (PreAct, awaitApproval).                               *)
LEMMA StretchKeepsAnswers ==
  ASSUME TypeOK, AnswerFindsItsQuestion, NEW a \in Activations, Advance(a), SessionAssumption
  PROVE  AnswerFindsItsQuestion'
<1> USE DEF AnswerFindsItsQuestion, TypeOK, Goto, run, requests, usage
<1>1. ASSUME pending' = pending, pc[a] # "asking", \E label : Goto(a, label)
      PROVE  AnswerFindsItsQuestion'
  BY <1>1
<1>2. CASE PreAct(a)
  BY <1>2 DEF PreAct
<1>3. CASE Open(a) \/ LoopTop(a)
  BY <1>1, <1>3 DEF Open, LoopTop, BeginTick, LeaveLoop
<1>4. CASE PreThink(a) \/ RateLimited(a) \/ Retry(a) \/ Reply(a)
  BY <1>1, <1>4 DEF PreThink, RateLimited, Retry, Reply
<1>5. CASE Answered(a) \/ Act(a) \/ Judge(a) \/ TickThrows(a) \/ Settle(a)
  BY <1>1, <1>5 DEF Answered, Act, Judge, TickThrows, Throw, Settle
<1>6. QED
  BY <1>2, <1>3, <1>4, <1>5 DEF Advance

(* A call of the host's opens none, and an answer closes the one there is   *)
(* (start, step, resolveApproval).                                         *)
LEMMA HostKeepsAnswers ==
  ASSUME TypeOK, AnswerFindsItsQuestion, Host, SessionAssumption
  PROVE  AnswerFindsItsQuestion'
<1> USE DEF AnswerFindsItsQuestion, TypeOK, Goto, run, requests, usage
<1>1. ASSUME NEW a \in Activations, NEW m \in Mode,
             StartNew(a, m) \/ StartAgain(a, m) \/ Step(a)
      PROVE  AnswerFindsItsQuestion'
  <2>1. pc[a] = "none"
    BY <1>1 DEF StartNew, StartAgain, Step
  <2>2. pending' = pending /\ \A b \in Activations \ {a} : pc'[b] = pc[b]
    BY <1>1 DEF StartNew, StartAgain, Step, BeginTick
  <2>3. QED
    BY <2>1, <2>2
<1>2. CASE \E approved \in BOOLEAN : ResolveApproval(approved)
  BY <1>2 DEF ResolveApproval
<1>3. CASE Pause \/ Stop \/ (\E o \in Declarable : DeclareOutcome(o)) \/ DeliverInput
  BY <1>3 DEF Pause, Stop, DeclareOutcome, DeliverInput
<1>4. QED
  BY <1>1, <1>2, <1>3 DEF Host, Mode

(* Whoever resolveApproval would resume is waiting, under any host. *)
THEOREM AnswersArrive == Spec => []AnswerFindsItsQuestion
<1>1. ASSUME Init
      PROVE  AnswerFindsItsQuestion
  BY <1>1, SessionAssumption DEF Init, AnswerFindsItsQuestion
<1>2. vars' = vars /\ AnswerFindsItsQuestion => AnswerFindsItsQuestion'
  BY DEF AnswerFindsItsQuestion, vars, run, requests, usage
<1>3. TypeOK /\ AnswerFindsItsQuestion /\ [Next]_vars => AnswerFindsItsQuestion'
  BY <1>2, StretchKeepsAnswers, HostKeepsAnswers, SessionAssumption DEF Next
<1>4. QED
  BY <1>1, <1>3, TypeCorrect, PTL DEF Spec

(* The run that is idle has not begun. *)
IdleIsUnbegun == status = "idle" => ~begun /\ ticks = 0

(* One run.started in a run's trace, under any host. *)
THEOREM RunStartsOnce == Spec => StartsOnce
<1>1. Init => IdleIsUnbegun
  BY DEF Init, IdleIsUnbegun
<1>2. ASSUME [Next]_vars
      PROVE  status' = "idle" => UNCHANGED <<status, begun, ticks>>
  <2> USE DEF run, requests, usage, Goto, Finish
  <2>1. ASSUME NEW a \in Activations, Advance(a)
        PROVE  status' = "idle" => UNCHANGED <<status, begun, ticks>>
    <3>1. CASE Open(a) \/ LoopTop(a)
      BY <3>1 DEF Open, LoopTop, BeginTick, LeaveLoop
    <3>2. CASE PreThink(a) \/ RateLimited(a) \/ Retry(a) \/ Reply(a) \/ PreAct(a)
      BY <3>2 DEF PreThink, RateLimited, Retry, Reply, PreAct
    <3>3. CASE Answered(a) \/ Act(a) \/ Judge(a) \/ TickThrows(a) \/ Settle(a)
      BY <3>3 DEF Answered, Act, Judge, TickThrows, Throw, Settle
    <3>4. QED
      BY <2>1, <3>1, <3>2, <3>3 DEF Advance
  <2>2. CASE Host
    BY <2>2 DEF Host, StartNew, StartAgain, Step, Pause, ResolveApproval, Stop,
                DeclareOutcome, DeliverInput, StartRun, BeginTick
  <2>3. CASE UNCHANGED vars
    BY <2>3 DEF vars
  <2>4. QED
    BY <1>2, <2>1, <2>2, <2>3 DEF Next
<1>3. IdleIsUnbegun /\ [Next]_vars => IdleIsUnbegun'
  BY <1>2 DEF IdleIsUnbegun
<1>4. IdleIsUnbegun /\ [Next]_vars => [Emits("run.started") => ~begun /\ ticks =
         0]_vars
  <2> SUFFICES ASSUME IdleIsUnbegun, Next, "run.started" \in emitted'
               PROVE  status = "idle"
    BY DEF IdleIsUnbegun, Emits
  <2> USE DEF Goto, Finish
  <2>1. ASSUME NEW a \in Activations, Advance(a)
        PROVE  FALSE
    <3>1. CASE Open(a) \/ LoopTop(a)
      BY <3>1 DEF Open, LoopTop, BeginTick, LeaveLoop
    <3>2. CASE PreThink(a) \/ RateLimited(a) \/ Retry(a) \/ Reply(a) \/ PreAct(a)
      BY <3>2 DEF PreThink, RateLimited, Retry, Reply, PreAct
    <3>3. CASE Answered(a) \/ Act(a) \/ Judge(a) \/ TickThrows(a) \/ Settle(a)
      BY <3>3 DEF Answered, Act, Judge, TickThrows, Throw, Settle
    <3>4. QED
      BY <2>1, <3>1, <3>2, <3>3 DEF Advance
  <2>2. CASE Host
    BY <2>2 DEF Host, StartNew, StartAgain, Step, Pause, ResolveApproval, Stop,
                DeclareOutcome, DeliverInput, StartRun, BeginTick
  <2>3. QED
    BY <2>1, <2>2 DEF Next
<1>5. QED
  BY <1>1, <1>3, <1>4, PTL DEF Spec, StartsOnce

(***************************************************************************)
(* For a careful host: the inductive invariant                             *)
(***************************************************************************)
Busy(a) == pc[a] \in InTick \cup {"opened"}

(* One activation at a time is in a tick or in start(); beside it no loop  *)
(* is about to tick.                                                       *)
OneBusy ==
  /\ \A a, b \in Activations : Busy(a) /\ Busy(b) => a = b
  /\ \A a, b \in Activations : Busy(a) => ~LiveLoop(b)
  /\ \A a \in Activations : pc[a] = "loop" => kind[a] = "play"

(* The status and the place of the busy activation agree. *)
StatusFits ==
  /\ \A a \in Activations : pc[a] = "asking" <=> pending = a
  /\ status = "awaiting-approval" <=> pending # NoOne
  /\ \A a \in Activations :
       Busy(a) /\ pc[a] \notin {"asking", "judged"} => status = "running"
  /\ \A a \in Activations : pc[a] = "judged" => status \in {"running", "finished"}
  /\ status = "idle" => ~begun /\ ticks = 0 /\ \A a \in Activations : pc[a] = "none"
  /\ status = "finished" <=> outcome # "none"
  /\ status = "finished" =>
       \A a \in Activations : pc[a] \in {"none", "loop", "judged"}

(* Between two ticks of a run that goes on there is a tick left. *)
TickLeft ==
  /\ ticks <= MaxTicks
  /\ status # "finished" /\ (\A a \in Activations : pc[a] \notin InTick \
           {"judged"})
       => ticks < MaxTicks

(* What a tick may still spend, by the prompt it is at. *)
Allowance(prompt) ==
  CASE prompt = "first" -> 0 [] prompt = "reprompt" -> 1 [] prompt = "nudge" -> 2

TokensLeft ==
  /\ tokens <= MaxTokens + 2
  /\ \A a \in Activations :
       /\ pc[a] \in {"reflexGuard", "preThink"} => asked[a] = "first"
       /\ pc[a] \in {"think", "backoff", "rethink"} => tokens < MaxTokens +
                Allowance(asked[a])

CarefulInv == TypeOK /\ OneBusy /\ StatusFits /\ TickLeft /\ TokensLeft

(* Coordination is preserved by every step of a careful host's run. *)
LEMMA CarefulCoordination ==
  ASSUME SessionAssumption, Liberties = {}, TypeOK, TypeOK', OneBusy, StatusFits,
           TickLeft, [Next]_vars
  PROVE  OneBusy' /\ StatusFits'
<1> USE DEF OneBusy, StatusFits, TypeOK, Goto, LiveLoop, Busy, InTick, Label, run,
        requests, usage, Status, Outcome, Mode
<1>1. ASSUME NEW a \in Activations, Open(a)
     PROVE  OneBusy' /\ StatusFits'
  BY <1>1 DEF Open, BeginTick, LeaveLoop, StartRun, LoopGoesOn
<1>2. ASSUME NEW a \in Activations, PreThink(a)
     PROVE  OneBusy' /\ StatusFits'
  BY <1>2 DEF PreThink, Finish
<1>3. ASSUME NEW a \in Activations, RateLimited(a) \/ Retry(a)
     PROVE  OneBusy' /\ StatusFits'
  BY <1>3 DEF RateLimited, Retry
<1>4. ASSUME NEW a \in Activations, Reply(a)
     PROVE  OneBusy' /\ StatusFits'
  BY <1>4 DEF Reply, Asks, Finish
<1>5. ASSUME NEW a \in Activations, PreAct(a)
     PROVE  OneBusy' /\ StatusFits'
  BY <1>5 DEF PreAct, Finish
<1>6. ASSUME NEW a \in Activations, Answered(a) \/ Act(a)
     PROVE  OneBusy' /\ StatusFits'
  BY <1>6 DEF Answered, Act
<1>7. ASSUME NEW a \in Activations, Judge(a)
     PROVE  OneBusy' /\ StatusFits'
  BY <1>7 DEF Judge, Judgement, Finish
<1>8. ASSUME NEW a \in Activations, TickThrows(a)
     PROVE  OneBusy' /\ StatusFits'
  BY <1>8 DEF TickThrows, Throw, Finish
<1>9. ASSUME NEW a \in Activations, Settle(a)
     PROVE  OneBusy' /\ StatusFits'
  BY <1>9 DEF Settle
<1>10. ASSUME NEW a \in Activations, LoopTop(a)
       PROVE  OneBusy' /\ StatusFits'
  BY <1>10 DEF LoopTop, BeginTick, LeaveLoop, LoopGoesOn
<1>11. ASSUME NEW a \in Activations, NEW m \in Mode, StartNew(a, m)
       PROVE  OneBusy' /\ StatusFits'
  BY <1>11 DEF StartNew, StartRun
<1>12. ASSUME NEW a \in Activations, NEW m \in Mode, StartAgain(a, m)
       PROVE  OneBusy' /\ StatusFits'
  <2>1. \A b \in Activations : ~Busy(b)
    BY <1>12 DEF StartAgain
  <2>2. CASE m = "play" /\ ~stopRequested
    BY <1>12, <2>1, <2>2 DEF StartAgain, BeginTick
  <2>3. CASE ~(m = "play" /\ ~stopRequested)
    BY <1>12, <2>1, <2>3 DEF StartAgain
  <2>4. QED
    BY <2>2, <2>3
<1>13. ASSUME NEW a \in Activations, Step(a)
       PROVE  OneBusy' /\ StatusFits'
  BY <1>13 DEF Step, StartRun, BeginTick, TickInFlight, InListener, MayCall
<1>14. ASSUME Pause
       PROVE  OneBusy' /\ StatusFits'
  BY <1>14 DEF Pause, TickInFlight, InListener, MayCall
<1>15. ASSUME NEW approved \in BOOLEAN, ResolveApproval(approved)
       PROVE  OneBusy' /\ StatusFits'
  BY <1>15 DEF ResolveApproval
<1>16. ASSUME Stop
       PROVE  OneBusy' /\ StatusFits'
  BY <1>16 DEF Stop, Finish, InListener, MayCall
<1>17. ASSUME NEW o \in Declarable, DeclareOutcome(o)
       PROVE  OneBusy' /\ StatusFits'
  BY <1>17 DEF DeclareOutcome, Finish, InListener, MayCall
<1>18. ASSUME DeliverInput
       PROVE  OneBusy' /\ StatusFits'
  BY <1>18 DEF DeliverInput
<1>19. ASSUME UNCHANGED vars
       PROVE  OneBusy' /\ StatusFits'
  BY <1>19 DEF vars
<1>20. QED
  BY <1>1, <1>2, <1>3, <1>4, <1>5, <1>6, <1>7, <1>8, <1>9, <1>10, <1>11, <1>12,
     <1>13, <1>14, <1>15, <1>16, <1>17, <1>18, <1>19 DEF Next, Host, Advance

(* So are the budgets, given coordination. *)
LEMMA CarefulBudgets ==
  ASSUME SessionAssumption, Liberties = {}, TypeOK, TypeOK', OneBusy, StatusFits,
         StatusFits', TickLeft, TokensLeft, [Next]_vars
  PROVE  TickLeft' /\ TokensLeft'
<1> USE DEF TickLeft, TokensLeft, Allowance, OneBusy, StatusFits, TypeOK, Goto,
        LiveLoop, Busy, InTick, Label, Prompt,
            run, requests, usage, Status, Outcome, Mode, SessionAssumption
<1>1. ASSUME NEW a \in Activations, Open(a)
     PROVE  TickLeft' /\ TokensLeft'
  BY <1>1 DEF Open, BeginTick, LeaveLoop, StartRun, LoopGoesOn
<1>2. ASSUME NEW a \in Activations, PreThink(a)
     PROVE  TickLeft' /\ TokensLeft'
  BY <1>2 DEF PreThink, Finish
<1>3. ASSUME NEW a \in Activations, RateLimited(a) \/ Retry(a)
     PROVE  TickLeft' /\ TokensLeft'
  BY <1>3 DEF RateLimited, Retry
<1>4. ASSUME NEW a \in Activations, Reply(a)
     PROVE  TickLeft' /\ TokensLeft'
  BY <1>4 DEF Reply, Asks, Finish
<1>5. ASSUME NEW a \in Activations, PreAct(a)
     PROVE  TickLeft' /\ TokensLeft'
  BY <1>5 DEF PreAct, Finish
<1>6. ASSUME NEW a \in Activations, Answered(a) \/ Act(a)
     PROVE  TickLeft' /\ TokensLeft'
  BY <1>6 DEF Answered, Act
<1>7. ASSUME NEW a \in Activations, Judge(a)
     PROVE  TickLeft' /\ TokensLeft'
  BY <1>7 DEF Judge, Judgement, Finish
<1>8. ASSUME NEW a \in Activations, TickThrows(a)
     PROVE  TickLeft' /\ TokensLeft'
  BY <1>8 DEF TickThrows, Throw, Finish
<1>9. ASSUME NEW a \in Activations, Settle(a)
     PROVE  TickLeft' /\ TokensLeft'
  BY <1>9 DEF Settle
<1>10. ASSUME NEW a \in Activations, LoopTop(a)
       PROVE  TickLeft' /\ TokensLeft'
  BY <1>10 DEF LoopTop, BeginTick, LeaveLoop, LoopGoesOn
<1>11. ASSUME NEW a \in Activations, NEW m \in Mode, StartNew(a, m)
       PROVE  TickLeft' /\ TokensLeft'
  BY <1>11 DEF StartNew, StartRun
<1>12. ASSUME NEW a \in Activations, NEW m \in Mode, StartAgain(a, m)
       PROVE  TickLeft' /\ TokensLeft'
  <2>1. \A b \in Activations : ~Busy(b)
    BY <1>12 DEF StartAgain
  <2>2. CASE m = "play" /\ ~stopRequested
    BY <1>12, <2>1, <2>2 DEF StartAgain, BeginTick
  <2>3. CASE ~(m = "play" /\ ~stopRequested)
    <3>1. /\ pc' = pc /\ asked' = asked /\ ticks' = ticks /\ tokens' = tokens
          /\ status = "paused"
      BY <1>12, <2>3 DEF StartAgain
    <3>2. QED
      BY <2>1, <3>1
  <2>4. QED
    BY <2>2, <2>3
<1>13. ASSUME NEW a \in Activations, Step(a)
       PROVE  TickLeft' /\ TokensLeft'
  BY <1>13 DEF Step, StartRun, BeginTick, TickInFlight, InListener, MayCall
<1>14. ASSUME Pause
       PROVE  TickLeft' /\ TokensLeft'
  BY <1>14 DEF Pause, TickInFlight, InListener, MayCall
<1>15. ASSUME NEW approved \in BOOLEAN, ResolveApproval(approved)
       PROVE  TickLeft' /\ TokensLeft'
  BY <1>15 DEF ResolveApproval
<1>16. ASSUME Stop
       PROVE  TickLeft' /\ TokensLeft'
  BY <1>16 DEF Stop, Finish, InListener, MayCall
<1>17. ASSUME NEW o \in Declarable, DeclareOutcome(o)
       PROVE  TickLeft' /\ TokensLeft'
  BY <1>17 DEF DeclareOutcome, Finish, InListener, MayCall
<1>18. ASSUME DeliverInput
       PROVE  TickLeft' /\ TokensLeft'
  BY <1>18 DEF DeliverInput
<1>19. ASSUME UNCHANGED vars
       PROVE  TickLeft' /\ TokensLeft'
  BY <1>19 DEF vars
<1>20. QED
  BY <1>1, <1>2, <1>3, <1>4, <1>5, <1>6, <1>7, <1>8, <1>9, <1>10, <1>11, <1>12,
     <1>13, <1>14, <1>15, <1>16, <1>17, <1>18, <1>19 DEF Next, Host, Advance

(* It holds of a session that has just been created. *)
LEMMA CarefulAtInit ==
  ASSUME Init
  PROVE  CarefulInv
<1>1. TypeOK
  BY TypesAtInit
<1>2. OneBusy
  BY DEF Init, OneBusy, Busy, InTick, LiveLoop
<1>3. StatusFits
  BY SessionAssumption DEF Init, StatusFits, Busy, InTick
<1>4. TickLeft /\ TokensLeft
  BY SessionAssumption DEF Init, TickLeft, TokensLeft
<1>5. QED
  BY <1>1, <1>2, <1>3, <1>4 DEF CarefulInv

(* The inductive invariant: what startRun, safeTick and the play loop keep *)
(* between them for a host that overlaps no calls.                         *)
THEOREM CarefulInvariant ==
  ASSUME Liberties = {}
  PROVE  Spec => []CarefulInv
<1>1. CarefulInv /\ [Next]_vars => CarefulInv'
  BY TypesStep, CarefulCoordination, CarefulBudgets, SessionAssumption DEF
     CarefulInv
<1>2. QED
  BY <1>1, CarefulAtInit, PTL DEF Spec

(* No tick begins beside another, however steps, loops and resumed loops   *)
(* alternate (loopGeneration, safeTick).                                   *)
THEOREM OneTick ==
  ASSUME Liberties = {}
  PROVE  Spec => []OneTickAtATime
<1>1. CarefulInv => OneTickAtATime
  BY DEF CarefulInv, OneBusy, Busy, OneTickAtATime
<1>2. QED
  BY <1>1, CarefulInvariant, PTL

(* The status the host decides by is what is going on (safeTick, pause).   *)
THEOREM TrueStatus ==
  ASSUME Liberties = {}
  PROVE  Spec => []StatusIsTrue
<1>1. CarefulInv => StatusIsTrue
  <2> SUFFICES ASSUME CarefulInv
               PROVE  StatusIsTrue
    OBVIOUS
  <2>1. status \in {"idle", "paused"} => ~TickInFlight
    BY SessionAssumption DEF CarefulInv, StatusFits, OneBusy, Busy, InTick,
       TickInFlight
  <2>2. QED
    BY <2>1 DEF CarefulInv, StatusFits, StatusIsTrue
<1>2. QED
  BY <1>1, CarefulInvariant, PTL

(* Both budgets hold, for any budgets (tickBudgetExhausted,                *)
(* tokenBudgetExhausted).                                                  *)
THEOREM Budgets ==
  ASSUME Liberties = {}
  PROVE  Spec => []BudgetsHold
<1>1. CarefulInv => BudgetsHold
  BY DEF CarefulInv, TickLeft, TokensLeft, BudgetsHold
<1>2. QED
  BY <1>1, CarefulInvariant, PTL

(* Nothing follows the end of a run in its trace (finish).                 *)
THEOREM TraceIsClosed ==
  ASSUME Liberties = {}
  PROVE  Spec => ClosedTrace
<1>1. CarefulInv /\ [Next]_vars
      => [outcome # "none" => emitted' = {} /\ outcome' = outcome /\ status' =
               "finished"]_vars
  <2> SUFFICES ASSUME CarefulInv, Next, status = "finished"
               PROVE  emitted' = {} /\ outcome' = outcome /\ status' = "finished"
    BY DEF CarefulInv, StatusFits
  <2>1. pending = NoOne /\ \A a \in Activations : pc[a] \in {"none", "loop",
           "judged"}
    BY DEF CarefulInv, StatusFits
  <2>2. ASSUME NEW a \in Activations, Advance(a)
        PROVE  emitted' = {} /\ outcome' = outcome /\ status' = "finished"
    <3>1. Settle(a) \/ LoopTop(a)
      BY <2>1, <2>2 DEF Advance, Open, PreThink, RateLimited, Retry, Reply,
         PreAct, Answered,
                        Act, Judge, TickThrows
    <3>2. QED
      BY <3>1 DEF Settle, LoopTop, LoopGoesOn, LeaveLoop
  <2>3. CASE Host
    BY <2>1, <2>3 DEF Host, StartNew, StartAgain, Step, Pause, ResolveApproval,
       Stop,
                      DeclareOutcome, DeliverInput, run
  <2>4. QED
    BY <2>2, <2>3 DEF Next
<1>2. QED
  BY <1>1, CarefulInvariant, PTL DEF Spec, ClosedTrace

(* No action is performed between a question and its answer (PreAct,       *)
(* awaitApproval).                                                         *)
THEOREM ActsOnAnswers ==
  ASSUME Liberties = {}
  PROVE  Spec => ApprovalIntegrity
<1>1. CarefulInv /\ [Next]_vars
      => [Emits("action.performed") =>
            ~\E a \in Activations : pc[a] \in {"asking", "answered"}]_vars
  <2> SUFFICES ASSUME CarefulInv, Next, "action.performed" \in emitted'
               PROVE  ~\E a \in Activations : pc[a] \in {"asking", "answered"}
    BY DEF Emits
  <2> USE DEF Goto, Finish
  <2>1. ASSUME NEW a \in Activations, Advance(a)
        PROVE  pc[a] = "acting"
    <3>1. CASE Open(a) \/ LoopTop(a)
      BY <3>1 DEF Open, LoopTop, BeginTick, LeaveLoop
    <3>2. CASE PreThink(a) \/ RateLimited(a) \/ Retry(a) \/ Reply(a) \/ PreAct(a)
      BY <3>2 DEF PreThink, RateLimited, Retry, Reply, PreAct
    <3>3. CASE Answered(a) \/ Act(a) \/ Judge(a) \/ TickThrows(a) \/ Settle(a)
      BY <3>3 DEF Answered, Act, Judge, TickThrows, Throw, Settle
    <3>4. QED
      BY <2>1, <3>1, <3>2, <3>3 DEF Advance
  <2>2. CASE Host
    BY <2>2 DEF Host, StartNew, StartAgain, Step, Pause, ResolveApproval, Stop,
                DeclareOutcome, DeliverInput, StartRun, BeginTick
  <2>3. QED
    BY <2>1, <2>2 DEF Next, CarefulInv, OneBusy, Busy, InTick
<1>2. QED
  BY <1>1, CarefulInvariant, PTL DEF Spec, ApprovalIntegrity

(***************************************************************************)
(* The trace the readers are promised: AgentSession refines RunTrace       *)
(***************************************************************************)

(* A run that is under way has begun (start, step).                        *)
BegunFits == status \notin {"idle", "finished"} => begun

LEMMA BegunStep ==
  ASSUME CarefulInv, BegunFits, [Next]_vars
  PROVE  BegunFits'
<1> USE DEF BegunFits, run, Goto, Finish
<1>1. \A a \in Activations : pc[a] # "none" => status # "idle"
  BY DEF CarefulInv, StatusFits
<1>2. ASSUME NEW a \in Activations, Advance(a)
      PROVE  BegunFits'
  <2>1. CASE Open(a) \/ LoopTop(a)
    <3>1. pc[a] \in {"opened", "loop"}
      BY <2>1 DEF Open, LoopTop
    <3>2. status # "idle"
      BY <1>1, <3>1
    <3>3. begun' = begun
      BY <2>1 DEF Open, LoopTop, BeginTick, LeaveLoop
    <3>4. CASE status # "finished"
      BY <3>2, <3>3, <3>4
    <3>5. CASE status = "finished"
      <4>1. pc[a] = "loop"
        BY <3>1, <3>5 DEF CarefulInv, StatusFits
      <4>2. LeaveLoop(a)
        BY <2>1, <3>5, <4>1 DEF Open, LoopTop, LoopGoesOn
      <4>3. status' = "finished"
        BY <3>5, <4>2 DEF LeaveLoop
      <4>4. QED
        BY <4>3
    <3>6. QED
      BY <3>4, <3>5
  <2>2. CASE PreThink(a) \/ RateLimited(a) \/ Retry(a) \/ Reply(a)
    BY <2>2 DEF PreThink, RateLimited, Retry, Reply
  <2>3. CASE PreAct(a)
    BY <2>3 DEF PreAct, CarefulInv, StatusFits, Busy, InTick
  <2>4. CASE Answered(a) \/ Act(a) \/ Judge(a) \/ TickThrows(a)
    BY <2>4 DEF Answered, Act, Judge, TickThrows, Throw
  <2>5. CASE Settle(a)
    BY <1>1, <2>5 DEF Settle
  <2>6. QED
    BY <1>2, <2>1, <2>2, <2>3, <2>4, <2>5 DEF Advance
<1>3. CASE \E a \in Activations, m \in Mode : StartNew(a, m) \/ StartAgain(a, m)
  BY <1>3 DEF StartNew, StartAgain, StartRun, BeginTick
<1>4. CASE \E a \in Activations : Step(a)
  BY <1>4 DEF Step, StartRun, BeginTick
<1>5. CASE \E approved \in BOOLEAN : ResolveApproval(approved)
  BY <1>5 DEF ResolveApproval, CarefulInv, StatusFits
<1>6. CASE Pause \/ Stop \/ (\E o \in Declarable : DeclareOutcome(o)) \/ DeliverInput
  BY <1>6 DEF Pause, Stop, DeclareOutcome, DeliverInput
<1>7. CASE UNCHANGED vars
  BY <1>7 DEF vars
<1>8. QED
  BY <1>2, <1>3, <1>4, <1>5, <1>6, <1>7 DEF Next, Host

(* The stage is that of the only activation that is in a tick, if any is.  *)
LEMMA StageOfTheOne ==
  ASSUME NEW at, NEW a \in Activations,
         \A b \in Activations \ {a} : StageOf(at[b]) = "rest"
  PROVE  StageIn(at) = StageOf(at[a])
<1>1. InHand(at) \subseteq {a}
  BY DEF InHand
<1>2. CASE InHand(at) = {}
  <2>1. ~(StageOf(at[a]) # "rest")
    BY <1>2 DEF InHand
  <2>2. QED
    BY <1>2, <2>1 DEF StageIn
<1>3. CASE InHand(at) # {}
  <2>1. (CHOOSE b \in InHand(at) : TRUE) = a
    BY <1>1, <1>3
  <2>2. QED
    BY <1>3, <2>1 DEF StageIn
<1>4. QED
  BY <1>2, <1>3

(* Nor does it change when no activation's does.                           *)
LEMMA SameStage ==
  ASSUME NEW at, NEW now, \A b \in Activations : StageOf(at[b]) = StageOf(now[b])
  PROVE  StageIn(at) = StageIn(now)
<1>1. InHand(at) = InHand(now)
  BY DEF InHand
<1>2. CASE InHand(at) = {}
  BY <1>1, <1>2 DEF StageIn
<1>3. CASE InHand(at) # {}
  <2> DEFINE c == CHOOSE b \in InHand(at) : TRUE
  <2>1. c \in InHand(at)
    BY <1>3
  <2>2. StageOf(at[c]) = StageOf(now[c])
    BY <2>1 DEF InHand
  <2>3. QED
    BY <1>1, <1>3, <2>2 DEF StageIn
<1>4. QED
  BY <1>2, <1>3

(* An activation at work moves and the others are between ticks: the stage *)
(* goes from its old place to its new one.                                 *)
LEMMA StageMoves ==
  ASSUME TypeOK, NEW a \in Activations, NEW label, Goto(a, label),
         \A b \in Activations \ {a} : ~Busy(b)
  PROVE  StageIn(pc) = StageOf(pc[a]) /\ StageIn(pc') = StageOf(label)
<1>1. pc'[a] = label /\ \A b \in Activations \ {a} : pc'[b] = pc[b]
  BY DEF Goto, TypeOK
<1>2. \A b \in Activations \ {a} : StageOf(pc[b]) = "rest"
  BY DEF Busy, InTick, StageOf
<1>3. \A b \in Activations \ {a} : StageOf(pc'[b]) = "rest"
  BY <1>1, <1>2
<1>4. QED
  BY <1>1, <1>2, <1>3, StageOfTheOne

(* A step that is none of the trace's: the phase, the ticks and each       *)
(* activation's stage are kept.                                            *)
LEMMA Unseen ==
  ASSUME UNCHANGED <<outcome, begun, ticks>>,
         \A b \in Activations : StageOf(pc[b]) = StageOf(pc'[b])
  PROVE  UNCHANGED Trace!vars
<1>1. StageIn(pc') = StageIn(pc)
  BY SameStage
<1>2. RunPhase' = RunPhase
  BY DEF RunPhase
<1>3. QED
  BY <1>1, <1>2 DEF Trace!vars

(* finish, from any place but an open question.                            *)
LEMMA FinishSeen ==
  ASSUME NEW o \in Outcome, NEW before, Finish(o, before), outcome = "none",
         ticks' = ticks, StageIn(pc) # "asking", StageIn(pc') = "rest"
  PROVE  Trace!Next
<1>1. RunPhase # "ended" /\ RunPhase' = "ended"
  BY DEF RunPhase, Finish, Outcome
<1>2. Trace!End
  BY <1>1 DEF Trace!End
<1>3. QED
  BY <1>2 DEF Trace!Next

(* A tick begins in a run under way, between two ticks.                    *)
LEMMA BeginTickSeen ==
  ASSUME SessionAssumption, CarefulInv, BegunFits, NEW a \in Activations, BeginTick(a),
         status \notin {"idle", "finished"}, pc[a] \notin InTick,
         \A b \in Activations \ {a} : ~Busy(b)
  PROVE  Trace!Next
<1>1. PICK hook \in {"reflexGuard", "preThink"} : Goto(a, hook)
  BY DEF BeginTick
<1>2. StageIn(pc) = StageOf(pc[a]) /\ StageIn(pc') = StageOf(hook)
  BY <1>1, StageMoves DEF CarefulInv
<1>3. StageIn(pc) = "rest" /\ StageIn(pc') = "thinking"
  BY <1>2 DEF StageOf, InTick
<1>4. RunPhase = "open" /\ RunPhase' = "open"
  BY DEF RunPhase, BeginTick, BegunFits, CarefulInv, StatusFits
<1>5. ticks < MaxTicks
  BY DEF CarefulInv, TickLeft, Busy
<1>6. Trace!StartTick
  BY <1>3, <1>4, <1>5 DEF Trace!StartTick, BeginTick
<1>7. QED
  BY <1>6 DEF Trace!Next

(* A stretch of the tick that does not end the run takes it on.            *)
LEMMA PassSeen ==
  ASSUME NEW from, NEW to, RunPhase = "open", UNCHANGED <<outcome, begun, ticks>>,
         StageIn(pc) \in from, StageIn(pc') \in to
  PROVE  Trace!Pass(from, to)
<1>1. RunPhase' = RunPhase
  BY DEF RunPhase
<1>2. QED
  BY <1>1 DEF Trace!Pass

(***************************************************************************)
(* What each action is of the trace                                        *)
(***************************************************************************)

(* In a tick, the others are between ticks and the run is open.            *)
LEMMA AloneInTick ==
  ASSUME CarefulInv, BegunFits, NEW a \in Activations, Busy(a)
  PROVE  /\ \A b \in Activations \ {a} : ~Busy(b)
         /\ pc[a] # "judged" => RunPhase = "open" /\ outcome = "none"
<1>1. \A b \in Activations \ {a} : ~Busy(b)
  BY DEF CarefulInv, OneBusy
<1>2. ASSUME pc[a] # "judged"
      PROVE  status \in {"running", "awaiting-approval"}
  BY <1>2, SessionAssumption DEF CarefulInv, StatusFits
<1>3. ASSUME pc[a] # "judged"
      PROVE  RunPhase = "open" /\ outcome = "none"
  BY <1>2, <1>3 DEF RunPhase, BegunFits, CarefulInv, StatusFits
<1>4. QED
  BY <1>1, <1>3

(* The tick's own stretches: each decides, is permitted or asked about,    *)
(* acts, completes or ends the run.                                        *)
LEMMA TickSeen ==
  ASSUME CarefulInv, BegunFits, NEW a \in Activations,
         \/ PreThink(a) \/ RateLimited(a) \/ Retry(a) \/ Reply(a) \/ PreAct(a)
         \/ Answered(a) \/ Act(a) \/ Judge(a) \/ TickThrows(a)
  PROVE  Trace!Next \/ UNCHANGED Trace!vars
<1>1. Busy(a) /\ pc[a] \notin {"judged", "opened", "asking"}
  BY DEF PreThink, RateLimited, Retry, Reply, PreAct, Answered, Act, Judge, TickThrows,
         Busy, InTick
<1>2. /\ \A b \in Activations \ {a} : ~Busy(b)
      /\ RunPhase = "open" /\ outcome = "none"
  BY <1>1, AloneInTick
<1>3. ASSUME NEW label, Goto(a, label)
      PROVE  StageIn(pc) = StageOf(pc[a]) /\ StageIn(pc') = StageOf(label)
  BY <1>2, <1>3, StageMoves DEF CarefulInv
<1>4. ASSUME NEW label, Goto(a, label), StageOf(label) = "rest",
             NEW o \in Outcome, NEW before, Finish(o, before), ticks' = ticks,
             pc[a] # "answered"
      PROVE  Trace!Next
  <2>1. StageIn(pc) # "asking" /\ StageIn(pc') = "rest"
    BY <1>1, <1>3, <1>4 DEF StageOf
  <2>2. QED
    BY <1>2, <1>4, <2>1, FinishSeen
<1>5. ASSUME NEW label, Goto(a, label), UNCHANGED <<outcome, begun, ticks>>,
             NEW from, NEW to, StageOf(pc[a]) \in from, StageOf(label) \in to
      PROVE  Trace!Pass(from, to)
  BY <1>2, <1>3, <1>5, PassSeen
<1>6. ASSUME NEW label, Goto(a, label), UNCHANGED <<outcome, begun, ticks>>,
             StageOf(label) = StageOf(pc[a])
      PROVE  UNCHANGED Trace!vars
  <2>1. \A b \in Activations : StageOf(pc[b]) = StageOf(pc'[b])
    BY <1>6 DEF Goto, CarefulInv, TypeOK
  <2>2. QED
    BY <1>6, <2>1, Unseen
<1> USE DEF run, usage
<1>7. CASE PreThink(a)
  <2>1. StageOf(pc[a]) = "thinking" /\ pc[a] # "answered" /\ ticks' = ticks
    BY <1>7 DEF PreThink, StageOf
  <2>2. ASSUME NEW o \in Outcome, NEW before, Finish(o, before), Goto(a, "judged")
        PROVE  Trace!Next
    <3>1. StageOf("judged") = "rest"
      BY DEF StageOf
    <3>2. QED
      BY <1>4, <2>1, <2>2, <3>1
  <2>3. ASSUME Goto(a, "preAct"), UNCHANGED run
        PROVE  Trace!Next
    <3>1. StageOf("preAct") = "deciding"
      BY DEF StageOf
    <3>2. Trace!Decide
      BY <1>5, <2>1, <2>3, <3>1 DEF Trace!Decide
    <3>3. QED
      BY <3>2 DEF Trace!Next
  <2>4. ASSUME Goto(a, "think"), UNCHANGED run
        PROVE  UNCHANGED Trace!vars
    <3>1. StageOf("think") = "thinking"
      BY DEF StageOf
    <3>2. QED
      BY <1>6, <2>1, <2>4, <3>1
  <2>5. QED
    BY <1>7, <2>2, <2>3, <2>4 DEF PreThink, Outcome
<1>8. CASE RateLimited(a) \/ Retry(a)
  <2>1. PICK label \in {"backoff", "rethink"} : Goto(a, label)
    BY <1>8 DEF RateLimited, Retry
  <2>2. StageOf(label) = StageOf(pc[a])
    BY <1>8 DEF RateLimited, Retry, StageOf
  <2>3. UNCHANGED <<outcome, begun, ticks>>
    BY <1>8 DEF RateLimited, Retry
  <2>4. QED
    BY <1>6, <2>1, <2>2, <2>3
<1>9. CASE Reply(a)
  <2>1. StageOf(pc[a]) = "thinking" /\ pc[a] # "answered" /\ ticks' = ticks
    BY <1>9 DEF Reply, StageOf
  <2>2. ASSUME Finish("ERROR", {"error"}), Goto(a, "judged")
        PROVE  Trace!Next
    <3>1. StageOf("judged") = "rest" /\ "ERROR" \in Outcome
      BY DEF StageOf, Outcome
    <3>2. QED
      BY <1>4, <2>1, <2>2, <3>1
  <2>3. ASSUME NEW label \in {"preAct", "postAct"}, Goto(a, label), UNCHANGED run
        PROVE  Trace!Next
    <3>1. StageOf(label) \in {"deciding", "done"}
      BY DEF StageOf
    <3>2. Trace!Decide
      BY <1>5, <2>1, <2>3, <3>1 DEF Trace!Decide
    <3>3. QED
      BY <3>2 DEF Trace!Next
  <2>4. ASSUME Goto(a, "think"), UNCHANGED run
        PROVE  UNCHANGED Trace!vars
    <3>1. StageOf("think") = "thinking"
      BY DEF StageOf
    <3>2. QED
      BY <1>6, <2>1, <2>4, <3>1
  <2>5. QED
    BY <1>9, <2>2, <2>3, <2>4 DEF Reply
<1>10. CASE PreAct(a)
  <2>1. StageOf(pc[a]) = "deciding" /\ pc[a] # "answered" /\ ticks' = ticks
    BY <1>10 DEF PreAct, StageOf
  <2>2. ASSUME Finish("STOPPED_BY_GUARDRAIL", {}), Goto(a, "judged")
        PROVE  Trace!Next
    <3>1. StageOf("judged") = "rest" /\ "STOPPED_BY_GUARDRAIL" \in Outcome
      BY DEF StageOf, Outcome
    <3>2. QED
      BY <1>4, <2>1, <2>2, <3>1
  <2>3. ASSUME NEW label \in {"acting", "postAct"}, Goto(a, label), UNCHANGED run
        PROVE  Trace!Next
    <3>1. StageOf(label) \in {"acting", "done"}
      BY DEF StageOf
    <3>2. Trace!Permit
      BY <1>5, <2>1, <2>3, <3>1 DEF Trace!Permit
    <3>3. QED
      BY <3>2 DEF Trace!Next
  <2>4. ASSUME Goto(a, "asking"), UNCHANGED <<outcome, begun>>
        PROVE  Trace!Next
    <3>1. StageOf("asking") = "asking"
      BY DEF StageOf
    <3>2. Trace!Ask
      BY <1>5, <2>1, <2>4, <3>1 DEF Trace!Ask
    <3>3. QED
      BY <3>2 DEF Trace!Next
  <2>5. QED
    BY <1>10, <2>2, <2>3, <2>4 DEF PreAct
<1>11. CASE Answered(a)
  <2>1. StageOf(pc[a]) = "asking" /\ UNCHANGED <<outcome, begun, ticks>>
    BY <1>11 DEF Answered, StageOf
  <2>2. PICK label \in {"acting", "postAct"} : Goto(a, label)
    BY <1>11 DEF Answered
  <2>3. StageOf(label) \in {"acting", "done"}
    BY DEF StageOf
  <2>4. Trace!Answer
    BY <1>5, <2>1, <2>2, <2>3 DEF Trace!Answer
  <2>5. QED
    BY <2>4 DEF Trace!Next
<1>12. CASE Act(a)
  <2>1. /\ StageOf(pc[a]) = "acting" /\ UNCHANGED <<outcome, begun, ticks>>
        /\ Goto(a, "postAct") /\ StageOf("postAct") = "done"
    BY <1>12 DEF Act, StageOf
  <2>2. Trace!Act
    BY <1>5, <2>1 DEF Trace!Act
  <2>3. QED
    BY <2>2 DEF Trace!Next
<1>13. CASE Judge(a)
  <2>1. /\ StageOf(pc[a]) = "done" /\ ticks' = ticks /\ pc[a] # "answered"
        /\ Goto(a, "judged") /\ StageOf("judged") = "rest"
    BY <1>13 DEF Judge, StageOf
  <2>2. ASSUME NEW o \in Outcome, Finish(o, {"tick.completed"})
        PROVE  Trace!Next
    BY <1>4, <2>1, <2>2
  <2>3. ASSUME UNCHANGED run
        PROVE  Trace!Next
    <3>1. Trace!Complete
      BY <1>5, <2>1, <2>3 DEF Trace!Complete
    <3>2. QED
      BY <3>1 DEF Trace!Next
  <2>4. \A success \in BOOLEAN : Judgement(success) \in Outcome \cup {"none"}
    BY SessionAssumption DEF Judgement, CarefulInv, TypeOK, Outcome
  <2>5. QED
    BY <1>13, <2>2, <2>3, <2>4 DEF Judge, Outcome
<1>14. CASE TickThrows(a)
  <2>1. PICK label \in {"loop", "none"} : Goto(a, label)
    BY <1>14 DEF TickThrows, Throw
  <2>2. StageOf(label) = "rest"
    BY DEF StageOf
  <2>3. ticks' = ticks /\ Finish("ERROR", {"error"}) /\ pc[a] # "answered"
    BY <1>14 DEF TickThrows, Throw
  <2>4. QED
    BY <1>4, <2>1, <2>2, <2>3 DEF Outcome
<1>15. QED
  BY <1>7, <1>8, <1>9, <1>10, <1>11, <1>12, <1>13, <1>14

(* Around the tick: start() and the play loop begin ticks, and are unseen  *)
(* when they do not.                                                       *)
LEMMA AroundTheTickSeen ==
  ASSUME CarefulInv, BegunFits, NEW a \in Activations, Open(a) \/ Settle(a) \/ LoopTop(a)
  PROVE  Trace!Next \/ UNCHANGED Trace!vars
<1> USE DEF run, usage
<1>1. ASSUME NEW label, Goto(a, label), UNCHANGED <<outcome, begun, ticks>>,
             StageOf(label) = "rest", StageOf(pc[a]) = "rest"
      PROVE  UNCHANGED Trace!vars
  <2>1. \A b \in Activations : StageOf(pc[b]) = StageOf(pc'[b])
    BY <1>1 DEF Goto, CarefulInv, TypeOK
  <2>2. QED
    BY <1>1, <2>1, Unseen
<1>2. StageOf(pc[a]) = "rest" /\ StageOf("none") = "rest" /\ StageOf("loop") = "rest"
  BY DEF Open, Settle, LoopTop, StageOf
<1>3. CASE Settle(a)
  <2>1. PICK label \in {"loop", "none"} : Goto(a, label)
    BY <1>3 DEF Settle
  <2>2. UNCHANGED <<outcome, begun, ticks>>
    BY <1>3 DEF Settle
  <2>3. QED
    BY <1>1, <1>2, <2>1, <2>2
<1>4. CASE LeaveLoop(a)
  BY <1>1, <1>2, <1>4 DEF LeaveLoop
<1>5. CASE Open(a) /\ BeginTick(a)
  <2>1. pc[a] = "opened" /\ Busy(a)
    BY <1>5 DEF Open, Busy
  <2>2. status = "running"
    BY <2>1 DEF CarefulInv, StatusFits
  <2>3. \A b \in Activations \ {a} : ~Busy(b)
    BY <2>1, AloneInTick
  <2>4. QED
    BY <1>5, <2>1, <2>2, <2>3, BeginTickSeen, SessionAssumption DEF InTick
<1>6. CASE LoopGoesOn(a) /\ LoopTop(a) /\ BeginTick(a)
  <2>1. pc[a] = "loop" /\ current = a /\ status # "finished"
    BY <1>6 DEF LoopTop, LoopGoesOn
  <2>2. LiveLoop(a)
    BY <2>1 DEF LiveLoop, CarefulInv, OneBusy
  <2>3. \A b \in Activations : ~Busy(b)
    BY <2>2 DEF CarefulInv, OneBusy
  <2>4. status # "idle"
    BY <2>1 DEF CarefulInv, StatusFits
  <2>5. QED
    BY <1>6, <2>1, <2>3, <2>4, BeginTickSeen, SessionAssumption DEF InTick
<1>7. CASE Open(a) /\ kind[a] = "start"
  <2>1. Goto(a, "none") /\ UNCHANGED <<outcome, begun, ticks>>
    BY <1>7 DEF Open
  <2>2. QED
    BY <1>1, <1>2, <2>1
<1>8. QED
  BY <1>3, <1>4, <1>5, <1>6, <1>7 DEF Open, LoopTop

(* The host's calls: the run opens, a tick begins, the run ends, or the    *)
(* trace is as it was.                                                     *)
LEMMA HostSeen ==
  ASSUME SessionAssumption, Liberties = {}, CarefulInv, BegunFits, Host
  PROVE  Trace!Next \/ UNCHANGED Trace!vars
<1> USE DEF run, usage
<1>1. ASSUME UNCHANGED <<outcome, begun, ticks, pc>>
      PROVE  UNCHANGED Trace!vars
  BY <1>1, Unseen
<1>2. ASSUME NEW a \in Activations, NEW m, status = "idle", StartRun(m), Goto(a, "opened")
      PROVE  Trace!Next
  <2>1. ~begun /\ outcome = "none" /\ \A b \in Activations : pc[b] = "none"
    BY <1>2 DEF CarefulInv, StatusFits
  <2>2. \A b \in Activations \ {a} : ~Busy(b)
    BY <2>1 DEF Busy, InTick
  <2>3. StageIn(pc) = StageOf(pc[a]) /\ StageIn(pc') = StageOf("opened")
    BY <1>2, <2>2, StageMoves DEF CarefulInv
  <2>4. StageIn(pc) = "rest" /\ StageIn(pc') = "rest"
    BY <2>1, <2>3 DEF StageOf
  <2>5. RunPhase = "unopened" /\ RunPhase' = "open"
    BY <1>2, <2>1 DEF RunPhase, StartRun
  <2>6. Trace!Open
    BY <1>2, <2>4, <2>5 DEF Trace!Open, StartRun
  <2>7. QED
    BY <2>6 DEF Trace!Next
<1>3. ASSUME NEW o \in Outcome, Finish(o, {}), status # "finished", pending = NoOne,
             ~InListener, status # "running", UNCHANGED <<ticks, pc>>
      PROVE  Trace!Next
  <2>1. outcome = "none"
    BY <1>3 DEF CarefulInv, StatusFits
  <2>2. \A a \in Activations : ~Busy(a)
    BY <1>3 DEF CarefulInv, StatusFits, Busy, InTick, InListener, TypeOK
  <2>3. InHand(pc) = {}
    BY <2>2 DEF InHand, Busy, InTick, StageOf
  <2>4. StageIn(pc) = "rest" /\ StageIn(pc') = "rest"
    BY <1>3, <2>3 DEF StageIn
  <2>5. QED
    BY <1>3, <2>1, <2>4, FinishSeen
<1>4. ASSUME NEW a \in Activations, NEW m \in Mode, StartNew(a, m)
      PROVE  Trace!Next
  BY <1>2, <1>4 DEF StartNew
<1>5. ASSUME NEW a \in Activations, NEW m \in Mode, StartAgain(a, m)
      PROVE  Trace!Next \/ UNCHANGED Trace!vars
  <2>1. status = "paused" /\ pc[a] = "none"
    BY <1>5 DEF StartAgain
  <2>2. \A b \in Activations : ~Busy(b)
    BY <2>1 DEF CarefulInv, StatusFits, Busy
  <2>3. CASE BeginTick(a)
    BY <2>1, <2>2, <2>3, BeginTickSeen DEF InTick
  <2>4. CASE ~(m = "play" /\ ~stopRequested)
    BY <1>1, <1>5, <2>4 DEF StartAgain
  <2>5. QED
    BY <1>5, <2>3, <2>4 DEF StartAgain
<1>6. ASSUME NEW a \in Activations, Step(a)
      PROVE  Trace!Next
  <2>1. pc[a] = "none" /\ status # "finished" /\ ~TickInFlight /\ ~InListener
    BY <1>6 DEF Step
  <2>2. \A b \in Activations : ~Busy(b)
    BY <2>1 DEF TickInFlight, InListener, Busy
  <2>3. CASE status = "idle"
    BY <1>2, <1>6, <2>3 DEF Step
  <2>4. CASE status # "idle"
    BY <1>6, <2>1, <2>2, <2>4, BeginTickSeen DEF Step, InTick
  <2>5. QED
    BY <2>3, <2>4
<1>7. CASE Pause \/ DeliverInput
  BY <1>1, <1>7 DEF Pause, DeliverInput
<1>8. ASSUME NEW approved \in BOOLEAN, ResolveApproval(approved)
      PROVE  UNCHANGED Trace!vars
  <2>1. pending \in Activations /\ pc[pending] = "asking"
    BY <1>8 DEF ResolveApproval, CarefulInv, StatusFits, TypeOK
  <2>2. \A b \in Activations : StageOf(pc[b]) = StageOf(pc'[b])
    BY <1>8, <2>1 DEF ResolveApproval, Goto, StageOf, CarefulInv, TypeOK
  <2>3. UNCHANGED <<outcome, begun, ticks>>
    BY <1>8 DEF ResolveApproval
  <2>4. QED
    BY <2>2, <2>3, Unseen
<1>9. CASE Stop
  <2>1. pending = NoOne /\ ~InListener
    BY <1>9 DEF Stop, MayCall
  <2>2. CASE status \in {"finished", "running"}
    BY <1>1, <1>9, <2>2 DEF Stop
  <2>3. CASE status \notin {"finished", "running"}
    BY <1>3, <1>9, <2>1, <2>3 DEF Stop, Outcome
  <2>4. QED
    BY <2>2, <2>3
<1>10. ASSUME NEW o \in Declarable, DeclareOutcome(o)
       PROVE  Trace!Next \/ UNCHANGED Trace!vars
  <2>1. pending = NoOne /\ ~InListener /\ status # "finished" /\ o \in Outcome
    BY <1>10 DEF DeclareOutcome, MayCall, SessionAssumption
  <2>2. CASE status = "running"
    BY <1>1, <1>10, <2>2 DEF DeclareOutcome
  <2>3. CASE status # "running"
    BY <1>3, <1>10, <2>1, <2>3 DEF DeclareOutcome
  <2>4. QED
    BY <2>2, <2>3
<1>11. QED
  BY <1>4, <1>5, <1>6, <1>7, <1>8, <1>9, <1>10 DEF Host

(* A careful host's run writes the trace its readers are promised: it      *)
(* opens once and ends once, its ticks are consecutive, one at a time and  *)
(* within the budget, and it never ends over an open question (start,      *)
(* tick, awaitApproval, finish).                                           *)
THEOREM RunsAreTraces ==
  ASSUME Liberties = {}
  PROVE  Spec => WritesARunTrace
<1>1. Init => BegunFits /\ Trace!Init
  <2>1. ASSUME Init
        PROVE  InHand(pc) = {}
    BY <2>1 DEF Init, InHand, StageOf
  <2>2. QED
    BY <2>1 DEF Init, BegunFits, Trace!Init, StageIn, RunPhase
<1>2. CarefulInv /\ BegunFits /\ [Next]_vars => BegunFits'
  BY BegunStep
<1>3. CarefulInv /\ BegunFits /\ [Next]_vars => [Trace!Next]_(Trace!vars)
  <2> SUFFICES ASSUME CarefulInv, BegunFits, [Next]_vars
               PROVE  Trace!Next \/ UNCHANGED Trace!vars
    OBVIOUS
  <2>1. ASSUME NEW a \in Activations, Advance(a)
        PROVE  Trace!Next \/ UNCHANGED Trace!vars
    BY <2>1, TickSeen, AroundTheTickSeen DEF Advance
  <2>2. CASE UNCHANGED vars
    BY <2>2, Unseen DEF vars, run, usage
  <2>3. QED
    BY <2>1, <2>2, HostSeen, SessionAssumption DEF Next
<1>4. QED
  BY <1>1, <1>2, <1>3, CarefulInvariant, PTL DEF Spec, WritesARunTrace, Trace!Spec
=============================================================================

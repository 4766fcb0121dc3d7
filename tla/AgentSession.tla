---------------------------- MODULE AgentSession ----------------------------
(***************************************************************************)
(* One agent run: packages/core/src/session/agent-session.ts.              *)
(*                                                                         *)
(* The session is single-threaded and asynchronous.  What interleaves are  *)
(* its activations, the asynchronous calls that are under way: a step()    *)
(* that runs one tick, or a play loop that runs tick after tick.  An       *)
(* action is the code between two awaits.  The host's calls (start, step,  *)
(* pause, stop, resolveApproval, declareOutcome, deliverInput) land        *)
(* between two actions, or inside an event listener ("opened": inside a    *)
(* listener of run.started; "judged": inside one of tick.completed).       *)
(*                                                                         *)
(* Events are in `emitted`, the events of the latest step.  Only those the *)
(* properties tell apart are kept; the payloads are left out.              *)
(***************************************************************************)
EXTENDS Integers

CONSTANTS
  Activations,    \* slots for calls of step() and play loops under way
  NoOne,          \* no activation
  MaxTicks,       \* budgets.maxTicks
  MaxTokens,      \* budgets.maxTokens, in replies of the provider
  ReplyContract,  \* options.replyContract: what a reply without a call means
  Declarable,     \* outcomes a host declares
  Liberties       \* what the host allows itself: see Liberty

Outcome == {"SUCCESS", "OUT_OF_STEPS", "STOPPED_BY_USER",
            "STOPPED_BY_GUARDRAIL", "ERROR"}
Status == {"idle", "running", "paused", "awaiting-approval", "finished"}
Mode == {"step", "play"}

(***************************************************************************)
(* A careful host answers an open question before it ends the run, makes   *)
(* one call of step() at a time and none beside a play loop, does not      *)
(* pause a stepped run in mid-tick, and does not end the run from inside a *)
(* listener.  The session accepts all of it; a run of TLC grants some.     *)
(***************************************************************************)
Liberty == {"end-at-question", "step-over", "pause-mid-step", "call-in-listener", "step-at-question"}

ASSUME SessionAssumption ==
  /\ NoOne \notin Activations
  /\ MaxTicks \in Nat \ {0}
  /\ MaxTokens \in Nat
  /\ ReplyContract \in {"none", "say", "fail", "retry"}
  /\ Declarable \subseteq Outcome
  /\ Liberties \subseteq Liberty

VARIABLES
  \* the run object
  status, mode, outcome, begun,
  pauseRequested, stopRequested, declared,
  pending,          \* the activation pendingApproval would resume
  \* usage
  ticks, tokens,
  \* the play loop loopGeneration names; every other one is superseded
  current,
  \* the activations
  pc, kind,
  asked,            \* which prompt of the tick the provider is answering
  answer,           \* what the person said to the activation's question
  \* the events of the latest step
  emitted

run == <<status, mode, outcome, begun>>
requests == <<pauseRequested, stopRequested, declared>>
usage == <<ticks, tokens>>
vars == <<run, requests, pending, usage, current, pc, kind, asked, answer, emitted>>

(* Where an activation is parked while a tick of its is in flight. *)
InTick == {"reflexGuard", "preThink", "think", "backoff", "rethink", "preAct",
           "asking", "answered", "acting", "postAct", "judged"}
Label == {"none", "opened", "loop"} \cup InTick
Prompt == {"first", "reprompt", "nudge"}
Event == {"run.started", "tick.started", "provider.retried", "decision",
          "approval.requested", "approval.resolved", "action.performed",
          "tick.completed", "input.delivered", "error", "run.finished"}

(***************************************************************************)
(* Readings of the state                                                   *)
(***************************************************************************)
TickInFlight == \E a \in Activations : pc[a] \in InTick

(* The play loop that is between two ticks and will run the next. *)
LiveLoop(a) == kind[a] = "play" /\ pc[a] = "loop" /\ current = a

InListener == \E a \in Activations : pc[a] \in {"opened", "judged"}

(* A listener of run.started runs to its end before anything else does. *)
StackUnwound == \A a \in Activations : pc[a] # "opened"

MayCall == "call-in-listener" \in Liberties \/ ~InListener

Goto(a, label) == pc' = [pc EXCEPT ![a] = label]

Init ==
  /\ status = "idle" /\ mode = "step" /\ outcome = "none" /\ begun = FALSE
  /\ pauseRequested = FALSE /\ stopRequested = FALSE /\ declared = "none"
  /\ pending = NoOne
  /\ ticks = 0 /\ tokens = 0
  /\ current = NoOne
  /\ pc = [a \in Activations |-> "none"]
  /\ kind = [a \in Activations |-> "step"]
  /\ asked = [a \in Activations |-> "first"]
  /\ answer = [a \in Activations |-> FALSE]
  /\ emitted = {}

-----------------------------------------------------------------------------
(***************************************************************************)
(* Pieces several handlers share                                           *)
(***************************************************************************)

(* finish(outcome): there is no guard against a second call. *)
Finish(o, before) ==
  /\ outcome' = o
  /\ status' = "finished"
  /\ emitted' = before \cup {"run.finished"}
  /\ UNCHANGED <<mode, begun>>

(* safeTick up to the first await of tick(): SENSE, then a reflex brick   *)
(* pre-empts COMPOSE or does not, and the pre-think chain is entered.     *)
BeginTick(a) ==
  /\ status' = "running"
  /\ ticks' = ticks + 1
  /\ asked' = [asked EXCEPT ![a] = "first"]
  /\ \E hook \in {"reflexGuard", "preThink"} : Goto(a, hook)
  /\ emitted' = {"tick.started"}
  /\ UNCHANGED <<outcome, begun, tokens, answer>>

(* tick() throws: safeTick's catch says so and finishes the run. *)
Throw(a) ==
  /\ Finish("ERROR", {"error"})
  /\ Goto(a, IF kind[a] = "play" THEN "loop" ELSE "none")

(* startRun *)
StartRun(m) ==
  /\ mode' = m
  /\ status' = "running"
  /\ begun' = TRUE
  /\ emitted' = {"run.started"}
  /\ UNCHANGED <<outcome, ticks, tokens, asked, answer>>

-----------------------------------------------------------------------------
(***************************************************************************)
(* The tick, one action per stretch between awaits                         *)
(***************************************************************************)

(* Whatever the tick calls out to may throw: a guardrail, the provider (a  *)
(* second rate limit included, and the abort of a stop or of the request   *)
(* timeout), a tool, the world.                                            *)
TickThrows(a) ==
  /\ pc[a] \in {"reflexGuard", "preThink", "think", "rethink", "preAct", "acting", "postAct"}
  /\ Throw(a)
  /\ UNCHANGED <<requests, pending, usage, current, kind, asked, answer>>

(* Any verdict of the pre-think chain but allow ends the run.  A reflex    *)
(* has decided already and skips the token budget; a brain is stopped by   *)
(* it before it is asked.                                                  *)
PreThink(a) ==
  /\ pc[a] \in {"reflexGuard", "preThink"}
  /\ \/ /\ Finish("STOPPED_BY_GUARDRAIL", {})
        /\ Goto(a, "judged")
     \/ /\ pc[a] = "reflexGuard"
        /\ Goto(a, "preAct")
        /\ emitted' = {"decision"}
        /\ UNCHANGED run
     \/ /\ pc[a] = "preThink"
        /\ tokens >= MaxTokens
        /\ Finish("OUT_OF_STEPS", {})
        /\ Goto(a, "judged")
     \/ /\ pc[a] = "preThink"
        /\ tokens < MaxTokens
        /\ Goto(a, "think")
        /\ emitted' = {}
        /\ UNCHANGED run
  /\ UNCHANGED <<requests, pending, usage, current, kind, asked, answer>>

(* MUTANT of RateLimited: the retry is retried. *)
RateLimitedAgain(a) ==
  /\ pc[a] \in {"think", "rethink"}
  /\ Goto(a, "backoff")
  /\ emitted' = {"provider.retried"}
  /\ UNCHANGED <<run, requests, pending, usage, current, kind, asked, answer>>

(* callProviderWithRetry: one retry, for a rate limit only, after a wait   *)
(* nothing cuts short.                                                     *)
RateLimited(a) ==
  /\ pc[a] = "think"
  /\ Goto(a, "backoff")
  /\ emitted' = {"provider.retried"}
  /\ UNCHANGED <<run, requests, pending, usage, current, kind, asked, answer>>

Retry(a) ==
  /\ pc[a] = "backoff"
  /\ Goto(a, "rethink")
  /\ emitted' = {}
  /\ UNCHANGED <<run, requests, pending, usage, current, kind, asked, answer>>

(* What a reply decides, given the prompt it answers: ask once more after  *)
(* an empty reply, do as the reply contract says with prose, act on a call.*)
Asks(prompt, reply) ==
  CASE reply = "empty" /\ prompt = "first" -> "reprompt"
    [] reply = "prose" /\ prompt # "nudge" /\ ReplyContract = "retry" -> "nudge"
    [] OTHER -> "none"

(* The prose of a reply is a call of say, under that contract. *)
Calls(prompt, reply) ==
  \/ reply = "call"
  \/ reply = "prose" /\ prompt # "nudge" /\ ReplyContract = "say"

Reply(a) ==
  /\ pc[a] \in {"think", "rethink"}
  /\ tokens' = tokens + 1
  /\ \E reply \in {"call", "prose", "empty"} :
       \/ /\ Asks(asked[a], reply) # "none"
          /\ asked' = [asked EXCEPT ![a] = Asks(asked[a], reply)]
          /\ Goto(a, "think")
          /\ emitted' = {}
          /\ UNCHANGED run
       \/ /\ reply = "prose" /\ asked[a] # "nudge" /\ ReplyContract = "fail"
          /\ Finish("ERROR", {"error"})
          /\ Goto(a, "judged")
          /\ UNCHANGED asked
       \/ /\ Asks(asked[a], reply) = "none"
          /\ ~(reply = "prose" /\ asked[a] # "nudge" /\ ReplyContract = "fail")
          /\ Goto(a, IF Calls(asked[a], reply) THEN "preAct" ELSE "postAct")
          /\ emitted' = {"decision"}
          /\ UNCHANGED <<run, asked>>
  /\ UNCHANGED <<requests, pending, ticks, current, kind, answer>>

(* The pre-act verdict: go on, ask a person, refuse the call, end the run. *)
(* awaitApproval arms the answer before the question is announced.         *)
PreAct(a) ==
  /\ pc[a] = "preAct"
  /\ \/ /\ Goto(a, "acting")
        /\ emitted' = {}
        /\ UNCHANGED <<run, pending>>
     \/ /\ Goto(a, "asking")
        /\ pending' = a
        /\ status' = "awaiting-approval"
        /\ emitted' = {"approval.requested"}
        /\ UNCHANGED <<mode, outcome, begun>>
     \/ /\ Goto(a, "postAct")
        /\ emitted' = {}
        /\ UNCHANGED <<run, pending>>
     \/ /\ Finish("STOPPED_BY_GUARDRAIL", {})
        /\ Goto(a, "judged")
        /\ UNCHANGED pending
  /\ UNCHANGED <<requests, usage, current, kind, asked, answer>>

(* MUTANT of Answered: the refused call is put to the guardrails again. *)
AnsweredAgain(a) ==
  /\ pc[a] = "answered"
  /\ Goto(a, IF answer[a] THEN "acting" ELSE "preAct")
  /\ emitted' = {"approval.resolved"}
  /\ UNCHANGED <<run, requests, pending, usage, current, kind, asked, answer>>

(* The tick goes on with the answer it was given. *)
Answered(a) ==
  /\ pc[a] = "answered"
  /\ Goto(a, IF answer[a] THEN "acting" ELSE "postAct")
  /\ emitted' = {"approval.resolved"}
  /\ UNCHANGED <<run, requests, pending, usage, current, kind, asked, answer>>

(* performCall, then REMEMBER up to the post-act chain. *)
Act(a) ==
  /\ pc[a] = "acting"
  /\ Goto(a, "postAct")
  /\ emitted' = {"action.performed"}
  /\ UNCHANGED <<run, requests, pending, usage, current, kind, asked, answer>>

(* MUTANT of Judgement: the budget is off by one. *)
JudgementOneMore(success) ==
  IF declared # "none" THEN declared
  ELSE IF success THEN "SUCCESS"
  ELSE IF stopRequested THEN "STOPPED_BY_USER"
  ELSE IF ticks > MaxTicks THEN "OUT_OF_STEPS"
  ELSE "none"

(* MUTANT of Judgement: the stop is not read. *)
JudgementDeafToStop(success) ==
  IF declared # "none" THEN declared
  ELSE IF success THEN "SUCCESS"
  ELSE IF ticks >= MaxTicks THEN "OUT_OF_STEPS"
  ELSE "none"

(* JUDGE's order: a declared outcome, the world's own test, a stop, the    *)
(* tick budget; "none" is to go on.                                        *)
Judgement(success) ==
  IF declared # "none" THEN declared
  ELSE IF success THEN "SUCCESS"
  ELSE IF stopRequested THEN "STOPPED_BY_USER"
  ELSE IF ticks >= MaxTicks THEN "OUT_OF_STEPS"
  ELSE "none"

Judge(a) ==
  /\ pc[a] = "postAct"
  /\ Goto(a, "judged")
  /\ \/ Finish("STOPPED_BY_GUARDRAIL", {"tick.completed"})
     \/ \E success \in BOOLEAN :
          IF Judgement(success) # "none"
          THEN Finish(Judgement(success), {"tick.completed"})
          ELSE emitted' = {"tick.completed"} /\ UNCHANGED run
  /\ UNCHANGED <<requests, pending, usage, current, kind, asked, answer>>

(* MUTANT of Settle: the status is not read again after the tick. *)
SettleBlindly(a) ==
  /\ pc[a] = "judged"
  /\ Goto(a, IF kind[a] = "play" THEN "loop" ELSE "none")
  /\ status' = "paused"
  /\ emitted' = {}
  /\ UNCHANGED <<mode, outcome, begun, requests, pending, usage, current, kind, asked, answer>>

(* safeTick resumes when tick() has returned. *)
Settle(a) ==
  /\ pc[a] = "judged"
  /\ Goto(a, IF kind[a] = "play" THEN "loop" ELSE "none")
  /\ status' = IF status \in {"finished", "awaiting-approval"} THEN status ELSE "paused"
  /\ emitted' = {}
  /\ UNCHANGED <<mode, outcome, begun, requests, pending, usage, current, kind, asked, answer>>

-----------------------------------------------------------------------------
(***************************************************************************)
(* The play loop                                                           *)
(***************************************************************************)
(* MUTANT of LoopGoesOn: no generation tells a superseded loop. *)
AnyLoopGoesOn(a) == status # "finished" /\ ~pauseRequested /\ ~stopRequested

LoopGoesOn(a) ==
  current = a /\ status # "finished" /\ ~pauseRequested /\ ~stopRequested

(* The loop leaves; the one loopGeneration names lands a pause. *)
LeaveLoop(a) ==
  /\ Goto(a, "none")
  /\ IF current = a
     THEN /\ current' = NoOne
          /\ pauseRequested' = FALSE
          /\ status' = IF pauseRequested /\ status # "finished" THEN "paused" ELSE status
     ELSE UNCHANGED <<current, pauseRequested, status>>
  /\ emitted' = {}
  /\ UNCHANGED <<mode, outcome, begun, stopRequested, declared, usage, asked, answer>>

(* The top of the loop, after the delay between two ticks. *)
LoopTop(a) ==
  /\ pc[a] = "loop"
  /\ \/ /\ LoopGoesOn(a)
        /\ BeginTick(a)
        /\ UNCHANGED <<mode, requests, current>>
     \/ /\ ~LoopGoesOn(a)
        /\ LeaveLoop(a)
  /\ UNCHANGED <<pending, kind>>

(* The listeners of run.started have run: the call that began the run goes *)
(* on, to its tick, to its loop, or back to its caller.                    *)
Open(a) ==
  /\ pc[a] = "opened"
  /\ \/ /\ kind[a] = "step"
        /\ BeginTick(a)
        /\ UNCHANGED <<mode, requests, current>>
     \/ /\ kind[a] = "play"
        /\ LoopGoesOn(a)
        /\ BeginTick(a)
        /\ UNCHANGED <<mode, requests, current>>
     \/ /\ kind[a] = "play"
        /\ ~LoopGoesOn(a)
        /\ LeaveLoop(a)
     \/ /\ kind[a] = "start"
        /\ Goto(a, "none")
        /\ status' = "paused"
        /\ emitted' = {}
        /\ UNCHANGED <<mode, outcome, begun, requests, usage, current, asked, answer>>
  /\ UNCHANGED <<pending, kind>>

-----------------------------------------------------------------------------
(***************************************************************************)
(* The host's calls.  A call that returns at once changes nothing and is   *)
(* not listed; what a careful host does not do is behind its Liberties.    *)
(***************************************************************************)

(* start(mode) on a run that has not begun. *)
StartNew(a, m) ==
  /\ status = "idle"
  /\ pc[a] = "none"
  /\ StartRun(m)
  /\ Goto(a, "opened")
  /\ kind' = [kind EXCEPT ![a] = IF m = "play" THEN "play" ELSE "start"]
  /\ current' = IF m = "play" THEN a ELSE current
  /\ UNCHANGED <<requests, pending>>

(* MUTANT of StartAgain: any run that has begun and not ended goes on. *)
StartWhatever(a, m) ==
  /\ begun /\ status # "finished"
  /\ pc[a] = "none"
  /\ pauseRequested' = FALSE
  /\ mode' = m
  /\ IF m = "play" /\ ~stopRequested
     THEN /\ BeginTick(a)
          /\ kind' = [kind EXCEPT ![a] = "play"]
          /\ current' = a
     ELSE /\ status' = IF m = "play" THEN "running" ELSE status
          /\ current' = NoOne
          /\ emitted' = {}
          /\ UNCHANGED <<outcome, begun, usage, pc, kind, asked, answer>>
  /\ UNCHANGED <<stopRequested, declared, pending>>

(* start(mode) on a paused run goes on in that mode.  The loop that asked  *)
(* to pause is superseded and its request forgotten; a new loop that finds *)
(* a stop requested never ticks.                                           *)
StartAgain(a, m) ==
  /\ begun /\ status = "paused"
  /\ pc[a] = "none"
  /\ pauseRequested' = FALSE
  /\ mode' = m
  /\ IF m = "play" /\ ~stopRequested
     THEN /\ BeginTick(a)
          /\ kind' = [kind EXCEPT ![a] = "play"]
          /\ current' = a
     ELSE /\ status' = IF m = "play" THEN "running" ELSE status
          /\ current' = NoOne
          /\ emitted' = {}
          /\ UNCHANGED <<outcome, begun, usage, pc, kind, asked, answer>>
  /\ UNCHANGED <<stopRequested, declared, pending>>

(* step() does not look whether a tick is in flight. *)
Step(a) ==
  /\ status # "finished"
  /\ pc[a] = "none"
  /\ \/ ~(TickInFlight \/ InListener \/ \E b \in Activations : LiveLoop(b))
     \/ "step-at-question" \in Liberties /\ status = "awaiting-approval"
     \/ "step-over" \in Liberties /\ MayCall
  /\ kind' = [kind EXCEPT ![a] = "step"]
  /\ IF status = "idle"
     THEN StartRun("step") /\ Goto(a, "opened")
     ELSE BeginTick(a) /\ UNCHANGED mode
  /\ UNCHANGED <<requests, pending, current>>

(* pause() lands at the loop's next top; in a stepped run, at once. *)
Pause ==
  /\ \/ mode = "play" \/ ~(TickInFlight \/ InListener)
     \/ "pause-mid-step" \in Liberties /\ MayCall
  /\ pauseRequested' = TRUE
  /\ status' = IF status = "running" /\ mode = "step" THEN "paused" ELSE status
  /\ emitted' = {}
  /\ UNCHANGED <<mode, outcome, begun, stopRequested, declared, pending, usage,
                 current, pc, kind, asked, answer>>

(* MUTANT of ResolveApproval: the resolver stays armed. *)
ResolveApprovalTwice(approved) ==
  /\ pending # NoOne
  /\ status' = "running"
  /\ answer' = [answer EXCEPT ![pending] = approved]
  /\ Goto(pending, "answered")
  /\ emitted' = {}
  /\ UNCHANGED <<mode, outcome, begun, requests, pending, usage, current, kind, asked>>

(* resolveApproval(approved): the question is answered, and the run is     *)
(* running again whatever it was.                                          *)
ResolveApproval(approved) ==
  /\ pending # NoOne
  /\ pending' = NoOne
  /\ status' = "running"
  /\ answer' = [answer EXCEPT ![pending] = approved]
  /\ Goto(pending, "answered")
  /\ emitted' = {}
  /\ UNCHANGED <<mode, outcome, begun, requests, usage, current, kind, asked>>

(* stop(): a stop between ticks ends the run here, any other at JUDGE. *)
Stop ==
  /\ "end-at-question" \in Liberties \/ pending = NoOne
  /\ MayCall
  /\ stopRequested' = TRUE
  /\ IF status \in {"finished", "running"}
     THEN emitted' = {} /\ UNCHANGED run
     ELSE Finish("STOPPED_BY_USER", {})
  /\ UNCHANGED <<pauseRequested, declared, pending, usage, current, pc, kind, asked, answer>>

(* declareOutcome(outcome): as stop, and honoured at JUDGE in mid-tick. *)
DeclareOutcome(o) ==
  /\ "end-at-question" \in Liberties \/ pending = NoOne
  /\ MayCall
  /\ status # "finished"
  /\ IF status = "running"
     THEN declared' = o /\ emitted' = {} /\ UNCHANGED run
     ELSE Finish(o, {}) /\ UNCHANGED declared
  /\ UNCHANGED <<pauseRequested, stopRequested, pending, usage, current, pc, kind, asked, answer>>

DeliverInput ==
  /\ status # "finished"
  /\ emitted' = {"input.delivered"}
  /\ UNCHANGED <<run, requests, pending, usage, current, pc, kind, asked, answer>>

-----------------------------------------------------------------------------
Advance(a) ==
  \/ Open(a)
  \/ /\ StackUnwound
     /\ \/ PreThink(a) \/ RateLimited(a) \/ Retry(a) \/ Reply(a) \/ PreAct(a)
        \/ Answered(a) \/ Act(a) \/ Judge(a) \/ TickThrows(a)
        \/ Settle(a) \/ LoopTop(a)

Host ==
  \/ \E a \in Activations, m \in Mode : StartNew(a, m) \/ StartAgain(a, m)
  \/ \E a \in Activations : Step(a)
  \/ Pause
  \/ \E approved \in BOOLEAN : ResolveApproval(approved)
  \/ Stop
  \/ \E o \in Declarable : DeclareOutcome(o)
  \/ DeliverInput

Next == Host \/ \E a \in Activations : Advance(a)

(* The event loop runs every continuation that is ready; the provider      *)
(* answers or its request timeout aborts it.  A person owes nothing.       *)
Fairness == \A a \in Activations : WF_vars(Advance(a))

Spec == Init /\ [][Next]_vars /\ Fairness

-----------------------------------------------------------------------------
(***************************************************************************)
(* Correctness                                                             *)
(***************************************************************************)
TypeOK ==
  /\ status \in Status /\ mode \in Mode
  /\ outcome \in Outcome \cup {"none"} /\ declared \in Declarable \cup {"none"}
  /\ begun \in BOOLEAN /\ pauseRequested \in BOOLEAN /\ stopRequested \in BOOLEAN
  /\ pending \in Activations \cup {NoOne}
  /\ ticks \in Nat /\ tokens \in Nat
  /\ current \in Activations \cup {NoOne}
  /\ pc \in [Activations -> Label]
  /\ kind \in [Activations -> {"step", "play", "start"}]
  /\ asked \in [Activations -> Prompt]
  /\ answer \in [Activations -> BOOLEAN]
  /\ emitted \subseteq Event

Emits(e) == e \in emitted'

(* Whoever resolveApproval would resume is waiting for it: an answer is    *)
(* never given to a tick that has gone on (awaitApproval).  For any host.  *)
AnswerFindsItsQuestion == pending # NoOne => pc[pending] = "asking"

(* A run begins once: pressing Play after a pause does not write a second  *)
(* run.started into the trace (start, WP49).  For any host.                *)
StartsOnce == [][Emits("run.started") => ~begun /\ ticks = 0]_vars

(* A run writes one run.finished, whichever of the endings come first      *)
(* (finish).                                                               *)
FinishesOnce == [][Emits("run.finished") => outcome = "none"]_vars

(* A finished run's trace is closed: nothing that was under way, no late   *)
(* answer, loop or input adds to it, and the outcome it was given stands.  *)
ClosedTrace ==
  [][outcome # "none" => emitted' = {} /\ outcome' = outcome /\ status' = "finished"]_vars

(* No path performs an action between approval.requested and               *)
(* approval.resolved (PreAct, Answered, Act).                              *)
ApprovalIntegrity ==
  [][Emits("action.performed") =>
       ~\E a \in Activations : pc[a] \in {"asking", "answered"}]_vars

(* One tick at a time, whichever of step(), a loop and a resumed loop      *)
(* would run it (loopGeneration, safeTick).                                *)
OneTickAtATime ==
  \A a, b \in Activations : pc[a] \in InTick /\ pc[b] \in InTick => a = b

(* The status a host reads, and stop() and start() decide by, is what is   *)
(* going on: a question is open exactly when it says so, "paused" and      *)
(* "idle" mean no tick is in flight, "finished" that there is an outcome.  *)
StatusIsTrue ==
  /\ status = "awaiting-approval" <=> pending # NoOne
  /\ status \in {"idle", "paused"} => ~TickInFlight
  /\ status = "finished" <=> outcome # "none"
  /\ status = "finished" =>
       \A a \in Activations : pc[a] \in {"none", "loop", "judged"}

(* The tick budget holds over steps, loops and pauses, and a tick that     *)
(* began within the token budget overruns it by no more than its two       *)
(* further prompts (tickBudgetExhausted, tokenBudgetExhausted).            *)
BudgetsHold == ticks <= MaxTicks /\ tokens <= MaxTokens + 2

(* An ending that is asked for comes, a stop or a declared outcome, unless *)
(* a person is asked first (stop, declareOutcome, JUDGE).                  *)
EndIsObeyed ==
  stopRequested \/ declared # "none" ~> status = "finished" \/ pending # NoOne

(* A play loop does not run for ever: it leaves, or waits for a person.   *)
LoopsEnd ==
  \A a \in Activations :
    kind[a] = "play" /\ pc[a] # "none" ~> pc[a] \in {"none", "asking"}

-----------------------------------------------------------------------------
(***************************************************************************)
(* The session as the trace its readers are promised (RunTrace)            *)
(***************************************************************************)
StageOf(label) ==
  CASE label \in {"reflexGuard", "preThink", "think", "backoff", "rethink"} -> "thinking"
    [] label = "preAct" -> "deciding"
    [] label \in {"asking", "answered"} -> "asking"
    [] label = "acting" -> "acting"
    [] label = "postAct" -> "done"
    [] OTHER -> "rest"

InHand(at) == {a \in Activations : StageOf(at[a]) # "rest"}

(* Where the tick in hand is when the activations are parked at `at`. *)
StageIn(at) ==
  IF InHand(at) = {} THEN "rest" ELSE StageOf(at[CHOOSE a \in InHand(at) : TRUE])

RunPhase == IF outcome # "none" THEN "ended" ELSE IF begun THEN "open" ELSE "unopened"

Trace == INSTANCE RunTrace WITH
  phase <- RunPhase, tick <- ticks, stage <- StageIn(pc)

(* A careful host's run writes the trace its readers are promised: it      *)
(* opens and ends once, its ticks are consecutive and one at a time, each  *)
(* runs through its stages, and it never ends over an open question        *)
(* (start, tick, finish).                                                  *)
WritesARunTrace == Trace!Spec
=============================================================================

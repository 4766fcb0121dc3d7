# Formal models of Craft-a-Bot

Craft-a-Bot is a workbench in which agents are built from bricks, put into small
worlds, watched, guarded and judged. Its claims are about *order*: a run is a trace of
events, everything else (screens, records, evaluations, evidence) is read off the
trace, and people and guardrails stand between what a model proposes and what happens.
This directory holds TLA+ models of the parts in which order is hard: the agent
session, groups of sessions, the bank's day, the Gate, journeys through a workflow, the
play screen with what it stores, campaigns run from files with their crashes and
resumes, and the queue of campaigns that a page hands to a Worker. TLC checks each on
small instances; TLAPS proves every invariant that those runs check, and the refinements,
for every instance.

- [1. The system](#1-the-system)
- [2. The modules and the code](#2-the-modules-and-the-code)
- [3. Runs: what is checked](#3-runs-what-is-checked)
- [4. Fairness](#4-fairness)
- [5. Proofs](#5-proofs)
- [6. Where the code departs from what it says](#6-where-the-code-departs-from-what-it-says)
- [7. What is not modelled](#7-what-is-not-modelled)
- [8. The plan](#8-the-plan)

## 1. The system

All of it is TypeScript on one event loop: code between two `await`s is atomic, what
interleaves are the asynchronous calls that are parked at one. Events are delivered
synchronously to listeners, inside the call that emits them.

| Component | State it keeps | Operations | Talks to | What is hard | What makes it correct |
|---|---|---|---|---|---|
| **Agent session** (`core/session/agent-session.ts`) | run status, mode, requests (pause, stop, declared outcome), the pending approval, usage, the loop generation | `start`, `step`, `pause`, `stop`, `resolveApproval`, `declareOutcome`, `deliverInput`; the tick SENSE, THINK, JUDGE, ACT; the play loop | provider, guardrails, world, listeners | a sleeping loop woken beside its successor; a person's answer after the end; a stop at every await; retries | one tick at a time; a true status; budgets; acting only on answered questions; one opening, one ending, nothing after it |
| **Session group** (`core/session/session-group.ts`) | phase, round, who acts, members' outcomes, usage | `start`, `stepRound`, `pause`, `stop`, `resolveApproval`, `deliverInput` | one session per member, one world, group guardrails | rounds that overlap, stops that fall between the checks for them, derived outcomes | strict round robin, ceilings, an ending that stands, comes last and is everybody's |
| **Bank day** (`workflow/bank.ts`) | the desks' queues, handoffs, what was worked, counters | the clock's arrivals, the lanes, handing on, `stopAfter`, settling | journeys, sinks | lanes that look at empty queues while work may still be handed on; failures of one lane | every item worked once, books that balance, a day that settles |
| **Gate** (`gate/gate.ts`) | per conversation: turns, the pending answer, approvals, closed or not | `handle`, `approve`, `end` | client, upstream model, operator, guardrails | overlapping requests, a person's yes that is redeemed later, closing | nothing held back reaches the client without a yes; results are screened; closed is closed |
| **Journey** (`workflow/run.ts`) | stage, value handed on, elapsed ticks, lateness, records | the stage loop, boundary chains, ceilings, five kinds of executor | groups of agents, readers, people | values that exist in three versions, flags set in one place and consumed in another | deciding waits for a person, redactions are what is read, lateness is true, the record is a log |
| **Play screen** (`session.svelte.ts`, `play/[agentId]/+page.svelte`, `trace-recorder.ts`) | the view, the current recorder, buffers, stored records | Step, Play, Stop, Goal achieved, Say, the approval card, Reset; `onRunEvent`; record, flush, persist | sessions, storage | resets while a write is under way, a stop at an open question, handlers that read the view after an `await`, failing writes | the view shows one run, stored traces are prefixes, endings are filed |
| **Campaign runner** (`harness/commands/campaign.ts`, `cell-pool.ts`, `file-storage.ts`, `evals/campaign.ts`) | lanes, the pool of worker processes, one chain of writes, the run directory and `cells.jsonl` | an invocation, `--resume`, `--jobs`, `--shard`; cells that run, are reused or fail; writes; the report | sessions and journeys, the file system | killed between two writes or within one; a worker that dies; a write that fails behind the lanes' back | what a line certifies is there, what is reused is what was recorded, a filed report is whole, an invocation ends |
| **Campaign queue and Worker** (`campaign-runner.svelte.ts`, `worker/campaign-client.ts`, `worker/campaign-host.ts`) | the page's queue, its drain loop, the chain of stored runs; the Worker's chain of jobs, its current job, the cancelled ids | queue, remove, cancel, show; start, run a cell, cancel, reply | campaign runner, storage | a cancel that crosses the last reply; two queues, one in each thread; cassettes, writes and jobs that fail | one job under way; done is stored; the queue moves on |
| **Telemetry, storage, group recorder** (`telemetry/batch.ts`, `storage-idb.ts`, `group-recorder.ts`) | buffers and tables | accept, flush; append, put, evict | exporters, IndexedDB | batches that fail, several writes without a transaction | see section 7 |
| **Governance, evals, metrics, harness, desk, evidence, packs, the other screens** | none that outlives a call, or stored data only | predicates, folds, reports, command lines, content | | | not modelled, see section 7 |

The event loop also gives the picture of how the components compose: a *session* is
given turns by a *group* or by the *play screen*; a *journey* runs a group at an agent
stage; a *bank day* runs a journey per item; the *Gate* stands where the session's
guardrails would, for agents that are not sessions. A component's model represents the
component below it by what it can observe of it: a member of a group is its status,
outcome, ticks and open question; a session of the play screen is the events the
screen hears; a journey of a bank day is how it came out; a cell of a campaign is
whether it left a trace, and which writes that owes. `AgentSession` gives the session
in full.

`PROJECT.json` lists the components, and under `hazards` each place where something
could go wrong that a test would hardly reach, with the properties that watch it.

## 2. The modules and the code

| Module | Models | Abstract specification it implements |
|---|---|---|
| `AgentSession` | `agent-session.ts`, one run | `RunTrace`: what readers of a trace are promised |
| `SessionGroup` | `session-group.ts`, one group | `RoundRobin`: strict turns, nobody after the end |
| `BankDay` | `runBank()` of `bank.ts`, one day | `WorkPool`: each accepted item worked once |
| `Gate` | `createGate()` of `gate.ts`, one conversation | |
| `Journey` | `runWorkflow()` of `run.ts`, one item | `JourneyLog`: what readers of a journey's record are promised |
| `PlayScreen` | view, page handlers and recorder over storage | |
| `CampaignFile` | `runCampaignFile()`, the lanes of `runCampaign()`, the pool, the directory | |
| `CampaignQueue` | the page's runner, the client and the Worker's host, over two channels | |
| `…Proofs` | theorems about the module of that name, one for each component | |
| `MC…` | the instances for TLC | |

The component modules do not EXTEND one another: each stands beside its source files. A
component that implements an abstract specification instantiates it, with its refinement
mapping, at its end (`WritesARunTrace`, `TakesTurns`, `WorksAsAPool`, `KeepsAJourneyLog`): the
instance for TLC checks what the theorem is about.

**Actions are stretches between awaits.** An action is named for the stretch, its
guard is the code's condition, and the shared pieces (`Finish`, `BeginTick`,
`LeaveLoop`, `FinishGroup`, `Closed`, `Put`) are the code's own functions. A call parked
at an await is a control state: `pc[a]` of an activation of the session (a call of
`step()` or a play loop), of a round of the group, of a lane; `req[r].at` of a request
of the Gate; `jobs` of the play screen. `PROJECT.json`'s `map` gives the lines each
definition stands for.

**Data is what the properties tell apart.** A guardrail's verdict, the model's reply,
a person's answer and whatever a stage leads to are chosen freely. Tokens are counted
in replies (`MaxTokens`), values of a journey are two booleans ("has something to
redact", "is a decision above its ceiling"), a call of the Gate is a number.

**Liberties.** The code lets its callers do things its documentation does not
describe: call `step()` twice at once, stop a run from inside a listener, reset a run
in the middle of a tick. What holds differs with that, and this is worth saying
precisely. Each of `AgentSession`, `SessionGroup`, `Gate` and `PlayScreen` therefore has
a constant `Liberties`, the set of such things the environment may do, with a comment
for each; the code's own behaviour is modelled in full for all of them. The *careful*
runs grant none and check what the documentation promises; the *anyhost* runs grant
all and check what holds regardless; `Gate` and `PlayScreen` record what was taken in
`took`, and each property names the liberties it depends on. In `CampaignFile` the
constant `Faults` does the same for two faults of the environment. Section 6 lists what each
liberty breaks, so that the reader can reproduce it by a change of one line of a cfg.

Bounds that are the model's and not the code's are constants, named as such:
`TurnTokens` (what a turn spends), `MaxTurns`, `MaxCalls` (Gate), `MaxGuards`, `MaxSpan`
(Journey), `MaxRuns`, `MaxEvents` (PlayScreen), `MaxStarts`, `MaxFaults` (CampaignFile),
`MaxCancels` (CampaignQueue).

### AgentSession

`pc[a]` is where activation `a` is parked: in the reflex or pre-think chain, at the
provider (first prompt, reprompt or nudge, in `asked`), in the rate-limit's backoff, at
the pre-act chain, at a person's answer, in the action, in the post-act chain; `opened`
and `judged` are the points inside a listener of `run.started` and `tick.completed`, at
which a host may call back. `Judgement` is JUDGE's order of reasons. `emitted` holds the
events of the latest step, so that properties of the trace are action properties.

### SessionGroup

`pc[r]`, `at[r]` and `driver[r]` are a call of `stepRound()`: where it is, whose turn,
whether the play loop made it. `mem[m]` is what the group sees of member `m`; the ticks in
flight are the calls', so that overlapping rounds may give a member two (`doubled`), each
of which goes on whatever the other did, with one slot between them for a question
(`asks`). `Proceed` is the part of the round's loop between two turns: the skip of finished
members, the test for a stop, the guardrails, which read the usage of before they are
awaited (`seen`), the end of the round. A member's own token budget may end it in any turn.

### BankDay

`lane[l]` is what a lane does: looks for work in its desk's queue and the handoffs,
sleeps until something is queued, runs a journey, awaits a sink. `ordinal` is the number
that seeds an item's run. `settled` is the promise. A lane that throws while the clock is
still delivering has nobody who handles its rejection: the process may end there, as Node
does, or go on, as a browser does (`ProcessEnds`).

### Gate

`conv` is the `Conversation`, `req[r]` an open request, `ap` the approval of the turn.
`given`, `pausing`, `screened`, `seenAbove`, `late` and `took` are history for the
properties. A client sends the whole conversation each time; what the Gate sends up of it
are the results it finds in it, and post-act looks only at those that answer the calls of
the last turn. So a result that comes later than with the next turn goes up unscreened
(the liberty `ahead-of-answers`), and so does one over which a guardrail threw: `Throws`
is the rejection of `handle()` in any of its chains, and after post-act has moved on what is
pending and seen, the client's next request is screened no more (`post-act-throws`).

### Journey

`stage` is the stage under way with its three values (the raw input, the value after
its boundary, the executor's output); `stages` are the records. What a guardrail would
redact of a value is nowhere in it, in its text, or in data that `redactInto()` leaves
as it was. The ceiling is asked as
the last guardrail of a stage's output, as `run.ts` appends it.

### PlayScreen

`sess` are the sessions the view has built, `view` what the screen shows, `rec` a
recorder per run with its buffer and its chain of appends, `jobs` the calls of
`updateProgress()` and `finishRun()` that are parked. A session is where it is in its run
and what becomes of its tick in flight: `stop()` and `declareOutcome()` end a run whose
tick waits for a person at once and leave the tick parked (`Concludes`), and the answer,
or the reset that gives one, lets it go on (`Answer`, `Released`). A session reset is still
heard: `reset()` does not detach it. What is said before Play is emitted and has no
recorder yet (`Say`), so a run's events are counted from `opened`, its `run.started`, to
`closed`, its first `run.finished`. The page's reads of a record are answered in the order
they were asked (`Persisted`), any of its reads and writes may be rejected (`PutFails`,
`WriteFails`), and a continuation that waits for no storage runs before the person's next
click (`Quiet`).

### CampaignFile

`rows`, `events`, `summaries`, `workflows`, `lines` and `torn` are the run directory as
the next invocation can read it: the readable `run.json`s, what each `events.jsonl`
holds, the cells certified by a line, and whether `cells.jsonl` ends in a fragment. A
trace is `whole`, cut after a line (`part`) or within one (`cut`); the next attempt's first
event then joins the fragment and is lost with it (`joined`, in `Appended`).
`lane`, `worker` and `writing` are the invocation: the lanes of `runCampaign()`, the
pool, and the one promise chain all writes go through, of which `awaited` are those
whose failure somebody would hear of. A write is one action; `Crash` may cut the one
under way short. `Verified` is `reusableCells()`, `how` the report by ordinal. A cell is
its ordinal: `onTrace`'s four writes, and for a journey those of its other agent's run
(`Stage`) and the workflow run before them. A report is filed in phases, each of which may
fail or be the last: the stories, the stored report, the report's file, its renderings.

### CampaignQueue

`queue`, `status`, `pc`, `current`, `job` and `cancelRequested` are the page: `drain()` and
`runOne()` from await to await. `toWorker` and `toPage` are the channels, in order.
`chain`, `busy`, `at`, `done` and `cancelled` are the Worker: its promise chain of jobs and
the cell boundaries at which a cancel is read. `stores` are the workflow runs on the
page's chain of writes, `reports` what is stored.

## 3. Runs: what is checked

| Run | Instance | Distinct states |
|---|---|---|
| `session_careful` | two activations, two ticks, three replies | 317 k |
| `session_late_answer` | as careful, a run may be ended over an open question | violation |
| `group_careful` | three members with one, two and three ticks, two rounds, two calls, a stop also in a round's last turn | 193 k |
| `group_anyhost` | two members, every liberty, guardrails that throw | 985 k |
| `bank_day` | two desks, three lanes, five arrivals and their followers; journeys and sinks throw | 1.1 M |
| `bank_scheduling` | the same, nothing fails | violation |
| `gate_users` | two requests, two turns, two calls, both modes, every liberty | 1.9 M |
| `journey` | two stages in any order, up to three visits, five executors each | 2.3 M |
| `play_person` | two runs of up to four events, batches of two, resets with no tick in flight | 455 k |
| `campaign_file` | two cells, one a journey, one or two lanes or workers, three invocations, two faults | 2.3 M |
| `campaign_resume` | one lane, one crash, one resume | violation |
| `campaign_queue` | three campaigns, one of two cells, two of them books, two cancels | 336 k |

**Why the bounds are enough.** The session's state does not depend on how many loops
have been superseded, only on whether one that sleeps is the live one: two activations
give a superseded loop and its successor. Two ticks give a first and a last; three replies put the token ceiling inside a
tick with its reprompt and nudge. Three members and two rounds give the first, a middle
and the last turn, a member that finishes while others go on, and a second round that
starts without it. Three lanes over two desks give two lanes of one desk and one of
another, so a lane that is last at its desk and not last of the day. Two requests over
two turns give a held answer of one turn fetched in the next; a result that is late by a
turn needs a third, which the theorem about `ResultsAreScreened` covers and a run of that
size would not finish. Three visits to two stages
give a loop back. Two runs are a run and the one after a reset; a third one makes the state
space too large for TLC, and matters only for a screen that was stopped before it began
and then reset (`Unsaved`), so those two properties are proved for any number of runs.
Three invocations are one that is cut, one that resumes and is cut again, and one that
resumes what both left; the slice `2/2` beside the whole is a campaign over cells that
another left alone. Two cells over two lanes or workers let either finish first; two
faults are a crash in each of the first two invocations, or a failed write beside a dead
worker. Three campaigns are one at work, one it is followed by and one that is still to
be removed; two cancels are one for a job and one that comes late.

What each property says is written above it in its module; in short:

*Session.* `OneTickAtATime`, `StatusIsTrue`, `BudgetsHold`, `AnswerFindsItsQuestion`,
`ApprovalIntegrity` (no action between a question and its answer), `WritesARunTrace`
(refinement), `EndIsObeyed` (a stop or declared outcome comes), `LoopsEnd`.

*Group.* `SuccessIsShared`, `GroupBudgetsHold`, `GroupFinishedIsLast`, `PlayIsHeard`,
`TakesTurns` (refinement), `StopEndsTheGroup` (where a turn is still to come; a stop that
only the last turn could notice ends the round and the loop), `PlayEnds`; for any host:
`EndingStands`, and `NobodyIsAbandoned`, save a member given two turns at once.

*Bank.* `BooksBalance` (the day's figures against what became of the items), `DaySettles`,
`WorksAsAPool` (refinement).

*Gate.* `PersonSaidYes`, `ResultsAreScreened`, `NothingAfterTheEnd`, `ClosedStaysClosed`,
`RequestIsAnswered` (the Gate keeps no request waiting, upstream apart).

*Journey.* `DecisionsWaitForAPerson`, `RedactionIsRead`, `OverdueIsTrue`, `KeepsAJourneyLog`
(refinement, with the abstract specification's own fairness: a journey ends).

*Play.* `ViewIsOneRun`, `StorageIsTrue`, `CarefulEndingsAreFiled`.

*Campaign file.* `LineComesLast` (what `cells.jsonl` names is on disk), `ReusedIsVerified`,
`ReportIsWhole`, `CampaignEnds`.

*Campaign queue.* `OneJobAtATime` (page and Worker are never about two jobs), `DoneIsStored`,
`QueueMoves` (every campaign queued is settled or removed).

Type invariants and the properties that are proved and have no run of their own
(`StartsOnce`, `ClosedTrace`, `EndingsAreKept`) are in section 5.

Every property has a *mutant* in `PROJECT.json`: an operator just before the one it
stands in for, marked `MUTANT of …`, which changes it the way a plausible slip in the
code would, and under which TLC finds the property violated in the same run.

Deadlock is not checked: every one of these components may stop for good, by design
(a finished run, a settled day, a person who does not answer).

To run one: `tlc -workers 2 -config AgentSession_careful.cfg MCAgentSession.tla`.
The longest (`gate_users`, `campaign_file`) take about 150 s with two workers.

## 4. Fairness

Weak fairness is assumed of what the JavaScript event loop runs, and of what the code
bounds by a timeout: the continuation of an activation, a round, a lane, a request, a
stage or a job. The session's provider is among them since `requestTimeoutMs` aborts it;
the sleeping of a play loop is a timer; a storage request succeeds or fails. The Gate's
upstream is not: its fetch has no signal and the timeout in `run.started` is only
recorded, so `RequestIsAnswered` promises what the Gate itself owes.
**Nothing is assumed of people**: nobody has to press a button, answer a question,
approve an answer or end a conversation, and the liveness properties say "or waits for
a person" where that is so (`EndIsObeyed`, `LoopsEnd`, `PlayEnds`). In `BankDay` the clock's
iterator is fair; its items are finite. `Journey` is one sequential function: weak
fairness of its next step, its people included, because a person's seat in `run.ts` is
the seeded reviewer model, which always answers. In `CampaignFile` a lane goes on, since
a cell ends by its budgets or its deadline, and so do the writer and the end of an
invocation; no fault is owed, and nobody owes an invocation. In `CampaignQueue` the drain
loop, the page's storage, the Worker and the delivery of messages are fair: they are
promises, timers and message ports; Cancel, Remove and Show are a person's, and free.
No strong fairness is needed.

## 5. Proofs

`<component>Proofs` proves, for every value of the constants that satisfies the
component's assumption (budgets and bounds are naturals, sets of names are sets, `NoOne`,
`None`, `NoStage` are not among them; of a bank day, that its items and lanes are finitely
many and every desk has a lane, as `runBank()` starts at least one for each), which TLC
evaluates in every run. Nothing bounds
the number of activations, members, requests, stages, runs, events, cells, lanes,
invocations, faults, campaigns or cancels.

| Module | Theorem | Assuming | States |
|---|---|---|---|
| `AgentSessionProofs` | `TypeCorrect`, `AnswersArrive`, `RunStartsOnce` | any host | types, `AnswerFindsItsQuestion`, `StartsOnce` |
| | `CarefulInvariant` | `Liberties = {}` | the inductive invariant |
| | `RunsAreTraces` | `Liberties = {}` | `WritesARunTrace`: implements `RunTrace` |
| | `OneTick`, `TrueStatus`, `Budgets`, `TraceIsClosed`, `ActsOnAnswers` | `Liberties = {}` | `OneTickAtATime`, `StatusIsTrue`, `BudgetsHold`, `ClosedTrace`, `ApprovalIntegrity` |
| `SessionGroupProofs` | `TypeCorrect`, `NobodyIsLeft`, `AnEndingStands` | any host | types, `NobodyIsAbandoned`, `EndingStands` |
| | `CombinedBudgetsHold` | not `round-over` | `GroupBudgetsHold` |
| | `SuccessIsEverybodys` | not `stop-at-question` | `SuccessIsShared` |
| | `TheEndComesLast` | `Patient`: neither `round-over`, `stop-at-question` nor `stop-after-pause` | `GroupFinishedIsLast` |
| | `AlwaysInTurn` | `Orderly`: patient, and no guardrail throws | `TakesTurns`: implements `RoundRobin` |
| | `PlayIsAlwaysHeard` | `Heeding`: neither `pause-a-step`, `play-after-pause` nor a guardrail that throws | `PlayIsHeard` |
| `BankDayProofs` | `TypeCorrect`, `BooksAlwaysBalance` | whatever throws | types, `BooksBalance` |
| | `AlwaysAPool` | whatever throws | `WorksAsAPool`: implements `WorkPool` |
| `GateProofs` | `APersonSaidYes`, `TheEndIsLast`, `AClosedConversationGivesNothing`, `NothingUnscreenedGoesUp` | any user | `PersonSaidYes`, `NothingAfterTheEnd`, `ClosedStaysClosed`, `ResultsAreScreened`, which name their liberties |
| `JourneyProofs` | `TypeCorrect`, `DecisionsDoWait`, `RedactionsAreRead`, `OverdueTells` | | types, `DecisionsWaitForAPerson`, `RedactionIsRead`, `OverdueIsTrue` |
| | `JourneyKeepsALog` | | `Journey` implements the safety part of `JourneyLog` |
| `PlayScreenProofs` | `OneRunInView`, `StoredTracesAreTrue` | any person | `ViewIsOneRun`, `StorageIsTrue`, which name their liberties |
| | `NoEndingIsDropped` | who takes no liberty, no write fails | `EndingsAreKept`, the safety in `CarefulEndingsAreFiled` |
| `CampaignFileProofs` | `TypeCorrect`, `LinesComeLast`, `ReusedAreVerified`, `ReportsAreWhole` | any fault | types, `LineComesLast`, `ReusedIsVerified`, `ReportIsWhole` |
| `CampaignQueueProofs` | `OneJobOnly`, `DoneMeansStored` | any person | `OneJobAtATime`, `DoneIsStored` |

TLC checks each of these on an instance first; the proof is of the same definition. (Of
`NoEndingIsDropped`, TLC's run has the liveness that the theorem is the safety half of.)

*The session.* None of the careful properties is inductive. That one tick is in flight
needs to know why the next cannot begin: a step begins only when no loop is live and
nothing is parked in a tick, a loop ticks only when `current` names it, and a loop is
named only when it is started, by a call that finds the run idle or paused. That in turn
needs the status to be true, and the status is true because whoever sets it (the settle
of the tick, the loop that lands a pause, the answer) does so at a point at which no
other activation is in a tick. So one invariant is proved for both, *coordination*: at
most one activation in a tick; "idle" and "paused" mean none is; the live loop is the
one `current` names; a question is open exactly when the status says so; an outcome is
set exactly when the status is "finished". The budgets need one more, for the place in
the tick at which the counters are read: each prompt of a tick adds at most one reply,
so what a tick in flight may still spend depends on where it is. `CarefulCoordination`
and `CarefulBudgets` prove one step of each, with one case per action;
`CarefulInvariant` combines them; the theorems read off it. The type invariant and the
coordination facts that hold for any host need no such argument:
`AnswerFindsItsQuestion` is inductive with the types, because the resolver is armed and
disarmed in the same stretch as the control state it refers to.

That the session implements `RunTrace` is then a matter of reading a stage of the trace off
the one activation that is in a tick (`StageIn` chooses it): since there is
one at most, the choice is that activation's, and each action moves the trace from the
stage its caller was in to the next, or changes nothing that the trace shows.

*The group.* `IInv` holds for any host: members are sound (a run that has ended has an
outcome, a question is open only where the status says so), calls are where a round can
be, and a group that is finished has told every member to end, save those of `doubled`.
`TurnInv` is about the ticks in flight: a member that has never had two has one, which its
session attends to, so a turn of it is not over before its status says so. On these rest
four more. `BudgetInv`: rounds do not overlap, and a turn under way spends at most its
bound, whatever the guard that let it begin had read; it needs a host that lets a round
end before it asks for another. `SharedInv`: until the group is finished, it has recorded
what each member's run ended in, so that a success derived from the records is everybody's;
it needs a host that does not stop a member a person is being asked about (TLC finds it
broken when such a stop meets rounds that overlap). *The end* (`EndInv`): a patient host
finds the group ending between turns, with nobody in mid-tick, so every run ends at once
and no round is left to write after it. *The turns* (`TickInv`): while a round is on, a
member that is in has had as many ticks as the round's number, or one less if its turn is
still to come; a turn adds one, so who acts next is who `RoundRobin` says. *Play*
(`PauseInv`): a request to pause has a loop to land it, so a Play that finds no loop finds
nothing that would turn its own away; rounds may overlap.

*The bank day.* `Apart`: an item that was begun is known by its name, is at one lane or
recorded, and never both, so no lane can begin it again. `Gone`: a lane returns only when
the clock is done and no queue and no handoff has anything left. `Books`: the figures are
the sizes of what is queued, at work, recorded and lost, and each action moves one item
from one of these to one other; a case handed on a second time is lost with the lane that
begins it, as `workOne()` throws.

*The Gate.* That a paused call waits for a person is the fate of a call followed from
the turn that judges it: turns are counted in one step, so no two requests are busy with
one turn (`OneTurnEach`); a call is given, and an answer held, only when its turn is over
(`GivenAfterwards`, `HeldAfterwards`); and a call that paused is being judged, is held, or
was dropped with its turn (`PausesAreKept`). The end needs another invariant, `EndInv`:
but for the liberties it names, one request is open at a time, none is once the
conversation is closed, and one that is open finds it unfinished. That results are screened needs `ScreenInv`, with two
parts. `AtRest`: between requests, what the client has sent is screened, and what it was given and
has not answered are calls of the last turn's answer. `UnderWay`: what the open request
sends up is screened, or is what its post-act is still to screen; a guardrail that throws
there is where it breaks, and is excepted. `Sized` keeps these sets finite, so that an order
to screen them in exists.

*The journey.* `IInv` says of the stage under way what is known at each point of it:
of which of the three values the text is redacted, and that a stage above its ceiling that is about
to be closed was worked or confirmed by a person. The refinement needs two facts more
(`InBounds`): a stage is entered only while stages are left, and a stage that is closed
has a status; then each step is one of `JourneyLog`'s under the mapping or changes
nothing of it. That overdue is true relates each record to the ticks of those before it:
the clock is their sum, and ahead of it only where somebody was late; the flag that says so
is up only from a stage's work to its closing. The sum is a recursive function over the
records, and what it does when a record is added is proved by the least index at which
two sums would differ, since induction theorems are out of reach.

*The play screen.* Three tiers, because the code keeps less the more a person does.
`Shape` holds always. `Screen` and `Keeping` hold as long as no run is reset with a tick in
flight: a session that is not the current one is over or was never begun, with no tick
parked (`Life`), so only the current one speaks to the view; and of each run what is
written, what waits to be written and the buffer are its events from `opened` on, cut at a
sequence of positions (`InOrder`), those after `closed` being refused by a recorder that
has been stopped. `Careful` holds when runs are moreover reset only once they are saved:
what is under way is of the current run, so no record is filed under another name.

`Filing` is for what becomes of an ending: while a run plays, the page's recorder is its
own and takes every event; once it is over, also while its tick is still parked or goes
on, its recorder has all up to `closed`, and the run is filed or the call that files it is
under way, for that very recorder or after it has written all. A stop of another recorder,
or of a run already reset, would break it; `Careful` says there is none.

*The campaign file.* `Ordered` says of each write on the chain what is on disk or
chained in front of it; a crash only removes the chain, or adds a fragment, and a trace
appended behind a fragment is counted as short of one event (`TraceStored`). `ReuseIsApart`
says that no lane runs and no write touches a reusable cell. `Accounted` says where each
cell of the slice is (not taken, held by a lane, or placed) and that the writes of each
cell that ran are on disk or chained; a failed write ends the process or the invocation,
never files a report.

*The queue.* The job the page awaits is in exactly one place: handed over and not heard
(`Handed`), in line in the Worker (`InLine`), at work (`AtWork`) or told of and not heard
(`ToldOf`); when the page awaits none, nothing is anywhere. Cancels may lie before and
behind it on the channel, and change nothing of that. That a campaign that is done is
stored takes two invariants more. `Filed`: the status of each entry agrees with what the
store has of it, and the chain of writes is empty once it has been awaited. `Counted`: the
progress the page has heard and the progress on the channel (a running count over its
messages, `Leads`) make up the cells the Worker has done, which are all of them when its
last word is that it is done.

*Left to TLC*: liveness (`EndIsObeyed`, `LoopsEnd`, `StopEndsTheGroup`, `PlayEnds`,
`DaySettles`, `RequestIsAnswered`, `CarefulEndingsAreFiled`, `CampaignEnds`, `QueueMoves`)
and the fairness of `JourneyLog` in `KeepsAJourneyLog`, which are out of the prover's reach:
fairness is about ENABLED. The three departures of section 6 are counterexamples, which
only TLC can show. For the refinements and properties that name liberties, the theorems
assume the liberties not taken, and the *anyhost* runs show what holds besides.

## 6. Where the code departs from what it says

Three runs show one departure each; they expect TLC to find the violation.

1. `session_late_answer` (`FinishesOnce`). A run stopped while a question is open is finished at once,
   but `pendingApproval` stays armed; the answer that arrives later sets the run
   running again, performs the action and writes `run.finished` a second time.
2. `bank_scheduling` (`SchedulingNeverReachesAResult`). A case handed on is numbered in the order runs come out, and the
   number seeds its run; `bank.ts` says that scheduling never reaches a result.
3. `campaign_resume` (`StoredOnce`). A cell whose events were written and whose line was not runs
   again under the same run id, and its trace is appended to the first. Its new line's
   digest then never matches, so every later resume runs and appends it once more.

Others were met while modelling. They have no run of their own; adding the named
member to `Liberties` (or `Faults`) in the cfg, and the named property where the cfg
does not list it, makes TLC find them.

| Component | Liberty | Property that fails | Code | What happens |
|---|---|---|---|---|
| session | `step-at-question` | `ApprovalIntegrity` | agent-session.ts:1201 | a step over an open question begins a second tick, which may act |
| session | `pause-mid-step` | `FinishesOnce` | :1339 | a stepped run is "paused" in mid-tick, and a stop ends it there; the tick ends it again |
| session | `call-in-listener` | `EndIsObeyed` | :1349 | a stop from a listener of `tick.completed` is recorded and read by nobody |
| group | `stop-at-question` | `TakesTurns` | :501 | the member's run is ended and its turn goes on: the round waits for an answer to a run that is over |
| group | `stop-after-pause` | `GroupFinishedIsLast` | :488 | `group.finished` is written while a turn goes on |
| group | `round-over` | `GroupFinishedIsLast`; `NobodyIsAbandoned`, `SuccessIsShared` for the members they except | session-group.ts:388, agent-session.ts:1176 | two rounds in one world: an ending is written beside a turn in flight, and a member given two turns at once finishes twice, or has its first question forgotten and is left open |
| group | `play-after-pause`, `pause-a-step` | `PlayIsHeard` | :436, :487 | Play pressed before the paused loop has left is lost; a pause of a stepped round is kept for the next Play, which it stops |
| gate | `pauses-in-one-answer` | `EveryPauseIsAsked` | gate.ts:533 | an answer with two calls that pause opens one approval; the second call is delivered whatever the person says |
| gate | `post-act-throws` | `ResultsAreScreened` without the exception | gate.ts:327 | post-act moves on what is pending and seen, then a guardrail throws and the request fails; the client's retry takes the same results to the upstream unscreened |
| gate | `ahead-of-answers` | the same | gate.ts:328 | a turn begun before the last one's calls are answered consumes `pending`: their results match nothing later |
| gate | `overlap`, `call-after-end`, `redeem-after-close`, `answer-after-finish` | those that name it | gate.ts | each property's own text says which |
| play | `reset-mid-tick` | `ViewIsOneRun`, `StorageIsTrue` without the exception | session.svelte.ts:408 | the old session's events enter the new view, recorder and record; also where a stop at an open question had ended the run and the reset, long after it was saved, answers the question |
| play | `reset-unsaved` | `CarefulEndingsAreFiled` without the exception | +page.svelte:346 | resetting a paused run ends it, and blanks the view before the handler that files the ending has read it: the record stays in progress |
| campaign file | `idle-death` | `CampaignEnds` | cell-pool.ts:77 | a worker that dies with no cell stays in the pool, is handed the next cell, and never answers |
| campaign file | `torn-json` | `LineComesLast` without the exception | file-storage.ts:282 | a run's record cut short by a crash while it was rewritten cannot be read, and its line still certifies it |

Also seen, in the code the models follow, and in some part of what the properties'
exceptions are about:

- *Group*: session-group.ts:496 says that a stop "actually stops promptly". A stop during
  a round's last turn has no turn after it to be noticed before: the round and the loop
  end, and the group stays 'paused', without `group.finished`, until the next step or
  stop; so may a stop while a turn waits for a person. `StopEndsTheGroup` says how far a
  stop goes. Play pressed after a pause and before the loop leaves is lost (:436).
- *Gate*: `requestTimeoutMs` is written into `run.started` (gate.ts:429) and is given to
  nothing: an upstream that never answers keeps the request.
- *Journey*: a reader stage whose gate hands it to a person asks a person twice
  (run.ts:372); a rule's effect precedes the guardrails of its output (run.ts:1075).
  `redactInto()` leaves a value that is neither a string nor has a string `text` as it was
  (run.ts:1398), and records the redaction all the same, where 83-TARGET-DESIGN-V6.md says
  that redact rewrites the output before the next stage reads it; the model has such
  values (`raw = "data"`), and `RedactionIsRead` is about text.
- *Play*: a session stopped before it began is filed with an ending and no events
  (+page.svelte:345), and `runSaved` still says what it said of the run before: a reset in
  that moment, between the read of the stored record and its write, files the ending
  under a new random id. `Unsaved` is what a person would have to wait for, which is more
  than the page asks. One rejected write ends a run's recording (trace-recorder.ts:54),
  which `StorageIsTrue` shows leaves a prefix. What is said before Play is emitted, shown
  and never stored, where agent-session.ts:1362 says that everything the bot perceives
  has to be in the trace. After a stop or "Goal achieved!" at an open question the approval
  card stays; answering it lets the tick go on in the view of a finished run, which may
  finish once more; none of those events is stored, and a play loop whose run was declared ended
  so goes on to its next tick.
- *Campaign file*: a worker that dies in mid-cell throws out of `runCampaign()` and ends
  the campaign (`WorkerDies`), where cell-pool.ts:11 and
  docs/design-day2/57-HARNESS-AT-SCALE.md:100 say the cell is recorded as an error and the
  campaign completes. With `--jobs` a journey's workflow run is stored by nobody
  (`JourneyWrites`). A write that fails while cells run is an unhandled rejection and ends
  the process; one that fails while the campaign settles throws past `pool.close()`
  (campaign.ts:519), so the workers keep the process alive (`Exit` is never enabled). A
  reused cell is matched by its ordinal only (campaign.ts:269), whatever the campaign
  file says by now. A line written after a fragment of one joins it, and neither is read;
  and the first event appended after a fragment of `events.jsonl` joins that
  (file-storage.ts:476) and is quarantined when it is read (:321): the run's trace misses
  it, `LineComesLast` and `ReportIsWhole` say so, and since the line's digest does not match
  what is read back, the cell is never reused.
- *Campaign queue*: a cancel pressed while the last reply is on its way, while the
  workflow runs and the report are written, or while cassettes are fetched is ignored,
  and the report is stored, where campaign-runner.svelte.ts:208 says "nothing is stored
  for it"; of a book that is cancelled the workflow runs already landed stay stored, and
  are written on while the next campaign runs. A cancel that comes late leaves its id in
  the Worker's `cancelled` for good.
- *Not modelled, seen in passing*: the monitor appends an old day's arrivals to a new
  day's fold (monitor.svelte.ts:120).

## 7. What is not modelled

- **Text**: prompts, replies, parsing, redaction of strings, memory strategies. Models
  choose what comes of them.
- **Worlds and packs**: a world is what it answers to "done?".
- **Evaluations, metrics, governance reports, evidence**: pure functions over stored
  traces and cells; nothing interleaves. They are the largest part of the source by
  lines: the models cover the small part of it in which order decides.
- **The Gate's HTTP server, the command line, the other screens**: input and output.
- **Telemetry batcher, group recorder, storage**: each is written to and feeds nothing
  back into a run. A failed batch is counted and by design not sent again; a group's rows
  are written once, after the episode, and a failure between two leaves the members
  without their group row.
- *In modelled components*. Session and group: forks and replays, breakpoints. Bank:
  callbacks of the host that throw. Gate: content marks, token usage, other conversations.
  Journey: the seat group of an agent stage (it is `SessionGroup`); an approver that is
  not given counts as one that says yes, as in the code (run.ts:714), so there "a person"
  may be nobody. Play: one tick at a time per session (two at once are in `AgentSession`);
  Pause, which only decides whether the play loop's next tick comes and is the freedom of
  `GoOn`; pins, summaries, eviction, sinks. Campaign file: scoring, gates, recording, merge
  and index; the sinks' exports, which are chained with the writes and leave nothing on
  this disk; what a report cut in mid-write leaves of its file. Queue: what-if and bank
  jobs; a Worker that dies without a word or cannot be started, for which the client has
  no listener and which would stop the queue; `putWorkflowRun`'s two records as one.

## 8. The plan

Modules are written so as to be proved about: parameters are constants with named
assumptions, operations are actions, no module declares a RECURSIVE operator.

Done, in this order: `AgentSession` with `RunTrace`, `SessionGroup` with `RoundRobin`,
`BankDay` with `WorkPool`, `Gate`, `Journey` with `JourneyLog`, `PlayScreen`, `CampaignFile`,
`CampaignQueue`; proofs about all of them, and of the safety of all four refinements.

What would be worth adding, in order of worth:
1. The lanes of `runCampaign()` as another implementation of `WorkPool`.
2. A trace batcher and the play screen's recorder as two implementations of one log, of
   which `InOrder` of `PlayScreenProofs` would be the mapping's invariant.
3. `GuardrailChain`: the fold of `guardrail-chain.ts` as a function, against its
   reference definition (the first stop wins, the last rewrite stands).
4. Fork and replay: prefixes of traces as functions over sequences.

Runs are few and broad; each shares its instance among its properties.

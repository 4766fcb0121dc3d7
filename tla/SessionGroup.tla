---------------------------- MODULE SessionGroup ----------------------------
(***************************************************************************)
(* Several bots in one world: packages/core/src/session/session-group.ts.  *)
(*                                                                         *)
(* A group owns one session per member and gives them turns, one round     *)
(* after another; a play loop runs rounds.  A member's session is modelled *)
(* by what the group reads of it and tells it (AgentSession has the rest): *)
(* a turn is one tick, which may ask a person and may end the member's     *)
(* run.  What interleaves are the calls of stepRound() under way, and the  *)
(* host's calls, which land at their awaits.  Rounds that overlap may come *)
(* to one member both: its session then has two ticks in flight.           *)
(***************************************************************************)
EXTENDS Integers

CONSTANTS
  N,             \* members, in the order of their turns
  Rounds,        \* slots for calls of stepRound() and the play loop
  MaxRounds,     \* options.maxRounds
  MaxTicks,      \* each member's own tick budget, by member
  GroupMaxTokens,\* options.groupMaxTokens
  TurnTokens,    \* tokens one turn may spend: a bound of the model
  Liberties      \* what the host allows itself: see Liberty

Members == 1..N

Outcome == {"SUCCESS", "OUT_OF_STEPS", "STOPPED_BY_USER",
            "STOPPED_BY_GUARDRAIL", "ERROR"}
Phase == {"idle", "running", "paused", "finished"}

(***************************************************************************)
(* A careful host waits, once it has paused a round or while a question is *)
(* open, until the round is over before it calls step, start or stop; steps*)
(* and pauses only what is not playing and what is; stops a round while    *)
(* somebody's turn is still to come; and gives the group guardrails that   *)
(* neither throw nor pause.                                                *)
(***************************************************************************)
Liberty == {"round-over", "stop-after-pause", "play-after-pause", "stop-at-question",
            "stop-in-last-turn", "pause-a-step", "guardrail-throws"}

ASSUME GroupAssumption ==
  /\ N \in Nat \ {0}
  /\ MaxRounds \in Nat \ {0} /\ MaxTicks \in [Members -> Nat \ {0}]
  /\ GroupMaxTokens \in Nat \ {0} /\ TurnTokens \in Nat
  /\ Liberties \subseteq Liberty

VARIABLES
  phase, round, stopRequested, pauseRequested,
  actingIndex,    \* the member whose turn stop() aborts; 0 for none
  finalOutcome,
  memberOutcomes, \* what step() returned, by member; "none" while unset
  groupUsage,     \* tokens spent by all
  \* the members' sessions
  mem,            \* status, outcome, stop requested, ticks
  \* the calls of stepRound()
  pc, at, driver,
  seen,           \* groupUsage as the guardrails' context holds it
  \* the ticks they have in flight
  asks,           \* the question of each: lost when the member's next is asked
  doubled,        \* the members that have had two in flight at once
  \* the events of the latest step, and whether Play was just pressed
  emitted, pressed

control == <<stopRequested, pauseRequested>>
ending == <<phase, finalOutcome>>
turns == <<asks, doubled>>
calls == <<pc, at, driver, seen, turns>>
vars == <<ending, round, control, actingIndex, memberOutcomes, groupUsage, mem,
          calls, emitted, pressed>>

(***************************************************************************)
(* Readings of the state                                                   *)
(***************************************************************************)
InRound(r) == pc[r] \in {"check", "turn"}
RoundInFlight == \E r \in Rounds : InRound(r)
Ended(mm) == \A m \in Members : mm[m].status = "finished"
(* state.playing: set while the play loop is anywhere but gone. *)
Playing == \E r \in Rounds : driver[r] = "loop" /\ pc[r] # "none"

(* The group's status says that a person is being waited for. *)
QuestionOpen == \E m \in Members : mem[m].status = "awaiting-approval"

(* Somebody's turn is still to come in the round a stop would interrupt.   *)
TurnToCome ==
  \E r \in Rounds : \E m \in Members :
    /\ mem[m].status # "finished"
    /\ InRound(r) /\ m > at[r]

Init ==
  /\ phase = "idle" /\ round = 0 /\ finalOutcome = "none"
  /\ stopRequested = FALSE /\ pauseRequested = FALSE
  /\ actingIndex = 0
  /\ memberOutcomes = [m \in Members |-> "none"]
  /\ groupUsage = 0
  /\ mem = [m \in Members |-> [status |-> "idle", outcome |-> "none", told |-> FALSE,
                               ticks |-> 0]]
  /\ pc = [r \in Rounds |-> "none"]
  /\ at = [r \in Rounds |-> 0]
  /\ driver = [r \in Rounds |-> "host"]
  /\ seen = [r \in Rounds |-> 0]
  /\ asks = [r \in Rounds |-> "unasked"] /\ doubled = {}
  /\ emitted = {} /\ pressed = FALSE

-----------------------------------------------------------------------------
(***************************************************************************)
(* A member's session, as the group uses it                                *)
(***************************************************************************)

(* session.start('step') on each. *)
Started(mm) == [m \in Members |-> [mm[m] EXCEPT !.status = "paused"]]

(* session.stop(): in mid-tick a request, between ticks the end.           *)
StoppedMember(s) ==
  CASE s.status = "finished" -> s
    [] s.status = "running" -> [s EXCEPT !.told = TRUE]
    [] OTHER -> [s EXCEPT !.told = TRUE, !.status = "finished", !.outcome = "STOPPED_BY_USER"]

AllStopped(mm) == [m \in Members |-> StoppedMember(mm[m])]

(* The endings a change of the members writes. *)
Endings(mm, after) ==
  IF \E m \in Members : mm[m].status # "finished" /\ after[m].status = "finished"
  THEN {"run.finished"} ELSE {}

(* session.step(): a tick begins; it asks a person at most once. *)
InTick(s) == [s EXCEPT !.status = "running", !.ticks = @ + 1]

(* What a tick may end with: "none" is to go on.  Its tick budget or a     *)
(* stop is only overridden by the world, a guardrail or a failure; its     *)
(* token budget, which the first tick finds unspent, ends it before.       *)
TickOutcomes(s, limit) ==
  {"SUCCESS", "STOPPED_BY_GUARDRAIL", "ERROR"} \cup
  (IF s.ticks > 1 THEN {"OUT_OF_STEPS"} ELSE {}) \cup
  {IF s.told THEN "STOPPED_BY_USER"
   ELSE IF s.ticks >= limit THEN "OUT_OF_STEPS" ELSE "none"}

(* A tick that ends the run does so whatever the session has come to; one  *)
(* that does not leaves an end and another tick's question standing.       *)
AfterTick(s, o) ==
  IF o # "none" THEN [s EXCEPT !.status = "finished", !.outcome = o]
  ELSE IF s.status \in {"finished", "awaiting-approval"} THEN s
  ELSE [s EXCEPT !.status = "paused"]

-----------------------------------------------------------------------------
(***************************************************************************)
(* Pieces several steps share.  `ph` and `mm` are the phase and the        *)
(* members as the step has left them so far.                               *)
(***************************************************************************)

(* MUTANT of Derived: any success will do. *)
DerivedFromAny(outcomes) ==
  LET got == {outcomes[m] : m \in Members} \ {"none"} IN
  IF "SUCCESS" \in got THEN "SUCCESS"
  ELSE IF "ERROR" \in got THEN "ERROR"
  ELSE IF "STOPPED_BY_GUARDRAIL" \in got THEN "STOPPED_BY_GUARDRAIL"
  ELSE IF "STOPPED_BY_USER" \in got THEN "STOPPED_BY_USER" ELSE "OUT_OF_STEPS"

(* deriveGroupOutcome *)
Derived(outcomes) ==
  LET got == {outcomes[m] : m \in Members} \ {"none"} IN
  IF "ERROR" \in got THEN "ERROR"
  ELSE IF "STOPPED_BY_GUARDRAIL" \in got THEN "STOPPED_BY_GUARDRAIL"
  ELSE IF "STOPPED_BY_USER" \in got THEN "STOPPED_BY_USER"
  ELSE IF got = {"SUCCESS"} THEN "SUCCESS" ELSE "OUT_OF_STEPS"

(* MUTANT of FinishGroup: the other members are left as they are. *)
FinishGroupOnly(o, ph, mm, before) ==
  IF ph = "finished"
  THEN phase' = ph /\ mem' = mm /\ emitted' = before /\ UNCHANGED finalOutcome
  ELSE /\ phase' = "finished" /\ finalOutcome' = o
       /\ mem' = mm
       /\ emitted' = before \cup {"group.finished"}

(* MUTANT of FinishGroup: a group that has ended is ended again. *)
FinishGroupAgain(o, ph, mm, before) ==
  /\ phase' = "finished" /\ finalOutcome' = o
  /\ mem' = AllStopped(mm)
  /\ emitted' = before \cup Endings(mm, AllStopped(mm)) \cup {"group.finished"}

(* finishGroup *)
FinishGroup(o, ph, mm, before) ==
  IF ph = "finished"
  THEN phase' = ph /\ mem' = mm /\ emitted' = before /\ UNCHANGED finalOutcome
  ELSE /\ phase' = "finished" /\ finalOutcome' = o
       /\ mem' = AllStopped(mm)
       /\ emitted' = before \cup Endings(mm, AllStopped(mm)) \cup {"group.finished"}

(* stepRound() has returned: to the host, or to the play loop, which stops *)
(* at the group's end and sleeps otherwise.                                *)
Return(r) ==
  /\ seen' = [seen EXCEPT ![r] = 0]
  /\ IF driver'[r] = "loop" /\ phase' # "finished"
     THEN pc' = [pc EXCEPT ![r] = "delay"] /\ UNCHANGED pauseRequested
     ELSE /\ pc' = [pc EXCEPT ![r] = "none"]
          /\ pauseRequested' = (pauseRequested /\ driver'[r] # "loop")

(* MUTANT of Left: the first member still in has every turn. *)
LeftAnyone(from, mm) == {m \in Members : mm[m].status # "finished"}

(* Whose turn is still to come in a round that has come to `from`. *)
Left(from, mm) == {m \in Members : m >= from /\ mm[m].status # "finished"}

Foremost(members) == {m \in members : \A k \in members : m <= k}

(* MUTANT of Proceed: a stop is only noticed once the round is over. *)
ProceedHeedlessly(r, from, ph, mm, before) ==
  \/ /\ Left(from, mm) # {}
     /\ pc' = [pc EXCEPT ![r] = "check"]
     /\ seen' = [seen EXCEPT ![r] = groupUsage']
     /\ \E m \in Foremost(Left(from, mm)) : at' = [at EXCEPT ![r] = m]
     /\ phase' = ph /\ mem' = mm /\ emitted' = before
     /\ UNCHANGED <<finalOutcome, pauseRequested>>
  \/ /\ Left(from, mm) = {} /\ Ended(mm)
     /\ FinishGroup(Derived(memberOutcomes'), ph, mm, before)
     /\ Return(r) /\ UNCHANGED at
  \/ /\ Left(from, mm) = {} /\ ~Ended(mm)
     /\ phase' = IF ph = "finished" THEN ph ELSE "paused"
     /\ mem' = mm /\ emitted' = before
     /\ Return(r) /\ UNCHANGED <<finalOutcome, at>>

(* stepRound's loop, from member `from` to its next await, for which the   *)
(* guardrails' context is built first, or to its end.                      *)
Proceed(r, from, ph, mm, before) ==
  \/ /\ Left(from, mm) # {} /\ ~stopRequested
     /\ pc' = [pc EXCEPT ![r] = "check"]
     /\ seen' = [seen EXCEPT ![r] = groupUsage']
     /\ \E m \in Foremost(Left(from, mm)) : at' = [at EXCEPT ![r] = m]
     /\ phase' = ph /\ mem' = mm /\ emitted' = before
     /\ UNCHANGED <<finalOutcome, pauseRequested>>
  \/ /\ Left(from, mm) # {} /\ stopRequested
     /\ FinishGroup("STOPPED_BY_USER", ph, mm, before)
     /\ Return(r) /\ UNCHANGED at
  \/ /\ Left(from, mm) = {} /\ Ended(mm)
     /\ FinishGroup(Derived(memberOutcomes'), ph, mm, before)
     /\ Return(r) /\ UNCHANGED at
  \/ /\ Left(from, mm) = {} /\ ~Ended(mm)
     /\ phase' = IF ph = "finished" THEN ph ELSE "paused"
     /\ mem' = mm /\ emitted' = before
     /\ Return(r) /\ UNCHANGED <<finalOutcome, at>>

(* MUTANT of BeginRound: at the limit the round does nothing. *)
BeginRoundIdly(r, d, mm, before) ==
  /\ driver' = [driver EXCEPT ![r] = d]
  /\ IF round >= MaxRounds
     THEN /\ phase' = "paused" /\ mem' = mm /\ emitted' = before
          /\ Return(r)
          /\ UNCHANGED <<finalOutcome, round, at>>
     ELSE /\ round' = round + 1
          /\ Proceed(r, 1, "running", mm, before)

(* stepRound() as far as its first await, by the driver `d`. *)
BeginRound(r, d, mm, before) ==
  /\ driver' = [driver EXCEPT ![r] = d]
  /\ IF round >= MaxRounds
     THEN /\ FinishGroup("OUT_OF_STEPS", "running", mm, before)
          /\ Return(r)
          /\ UNCHANGED <<round, at>>
     ELSE /\ round' = round + 1
          /\ Proceed(r, 1, "running", mm, before)

LoopGoesOn == phase # "finished" /\ ~pauseRequested /\ ~stopRequested

(* MUTANT of LeaveLoop: the request to pause is left standing. *)
LeaveLoopPausing ==
  /\ phase' = IF pauseRequested /\ phase # "finished" THEN "paused" ELSE phase
  /\ UNCHANGED <<pauseRequested, finalOutcome, round, mem, at, driver, seen>>

(* The play loop leaves, and lands a pause. *)
LeaveLoop ==
  /\ pauseRequested' = FALSE
  /\ phase' = IF pauseRequested /\ phase # "finished" THEN "paused" ELSE phase
  /\ UNCHANGED <<finalOutcome, round, mem, at, driver, seen>>

-----------------------------------------------------------------------------
(***************************************************************************)
(* A round, one action per stretch between awaits                          *)
(***************************************************************************)

(* The rounds that have a tick of the member in flight. *)
TicksOf(m) == {r \in Rounds : pc[r] = "turn" /\ at[r] = m}

(* The member takes its turn. *)
TakeTurn(r) ==
  /\ mem[at[r]].status # "finished"
  /\ pc' = [pc EXCEPT ![r] = "turn"]
  /\ actingIndex' = at[r]
  /\ mem' = [mem EXCEPT ![at[r]] = InTick(@)]
  /\ doubled' = doubled \cup {m \in {at[r]} : TicksOf(m) # {}}
  /\ emitted' = {"guardrail.checked", "tick.started"}
  /\ seen' = [seen EXCEPT ![r] = 0]
  /\ UNCHANGED <<ending, memberOutcomes, at, pauseRequested>>

(* MUTANT of Checked: a turn is offered though the ceiling is reached. *)
CheckedBlindly(r) ==
  /\ pc[r] = "check"
  /\ TakeTurn(r)
  /\ UNCHANGED <<round, stopRequested, groupUsage, driver, asks>> /\ pressed' = FALSE

(* The group's guardrails have answered.  The token ceiling or any other   *)
(* stops the group; else the member takes its turn, unless its run was     *)
(* ended meanwhile: step() then returns at once.                           *)
Checked(r) ==
  /\ pc[r] = "check"
  /\ UNCHANGED <<round, stopRequested, groupUsage, driver, asks>> /\ pressed' = FALSE
  /\ \/ /\ FinishGroup("STOPPED_BY_GUARDRAIL", phase, mem, {"guardrail.checked"})
        /\ Return(r)
        /\ UNCHANGED <<actingIndex, memberOutcomes, at, doubled>>
     \/ seen[r] < GroupMaxTokens /\ TakeTurn(r)
     \/ /\ seen[r] < GroupMaxTokens
        /\ mem[at[r]].status = "finished"
        /\ memberOutcomes' = [memberOutcomes EXCEPT ![at[r]] = mem[at[r]].outcome]
        /\ actingIndex' = 0 /\ UNCHANGED doubled
        /\ Proceed(r, at[r] + 1, phase, mem, {"guardrail.checked"})

(* A guardrail of the group throws, or asks for a pause: stepRound()       *)
(* rejects, and a play loop with it.                                       *)
CheckThrows(r) ==
  /\ "guardrail-throws" \in Liberties
  /\ pc[r] = "check"
  /\ pc' = [pc EXCEPT ![r] = "none"] /\ seen' = [seen EXCEPT ![r] = 0]
  /\ emitted' = {"guardrail.checked"}
  /\ UNCHANGED <<ending, round, stopRequested, pauseRequested, actingIndex, memberOutcomes,
                 groupUsage, mem, at, driver, turns>> /\ pressed' = FALSE

(* The member's tick asks a person, whatever the session has come to: the  *)
(* round waits, and a question of another tick is answered no more.        *)
TurnAsks(r) ==
  /\ pc[r] = "turn" /\ asks[r] = "unasked"
  /\ asks' = [s \in Rounds |->
                IF s = r THEN "open"
                ELSE IF asks[s] = "open" /\ at[s] = at[r] THEN "lost" ELSE asks[s]]
  /\ mem' = [mem EXCEPT ![at[r]].status = "awaiting-approval"]
  /\ emitted' = {"approval.requested"}
  /\ UNCHANGED <<ending, round, control, actingIndex, memberOutcomes, groupUsage, pc, at,
                 driver, seen, doubled>>
  /\ pressed' = FALSE

(* The member's tick is over and step() returns. *)
TurnEnds(r) ==
  /\ pc[r] = "turn" /\ asks[r] \in {"unasked", "answered"}
  /\ asks' = [asks EXCEPT ![r] = "unasked"]
  /\ actingIndex' = 0
  /\ \E spent \in 0..TurnTokens : groupUsage' = groupUsage + spent
  /\ \E o \in TickOutcomes(mem[at[r]], MaxTicks[at[r]]) :
       /\ memberOutcomes' =
            IF o = "none" THEN memberOutcomes ELSE [memberOutcomes EXCEPT ![at[r]] = o]
       /\ driver' = driver
       /\ Proceed(r, at[r] + 1, phase, [mem EXCEPT ![at[r]] = AfterTick(@, o)],
                  {IF o = "none" THEN "tick.completed" ELSE "run.finished"})
  /\ UNCHANGED <<round, stopRequested, doubled>> /\ pressed' = FALSE

(* The top of the play loop, after the delay between two rounds. *)
LoopTop(r) ==
  /\ pc[r] = "delay"
  /\ UNCHANGED <<stopRequested, actingIndex, memberOutcomes, groupUsage, turns>>
  /\ pressed' = FALSE
  /\ \/ /\ LoopGoesOn
        /\ BeginRound(r, "loop", mem, {})
     \/ /\ ~LoopGoesOn
        /\ LeaveLoop
        /\ pc' = [pc EXCEPT ![r] = "none"]
        /\ emitted' = {}

-----------------------------------------------------------------------------
(***************************************************************************)
(* The host's calls; one that returns at once is not listed.               *)
(***************************************************************************)

(* startGroup, as far as it is not done. *)
OpenedPhase == IF phase = "idle" THEN "paused" ELSE phase
OpenedMembers == IF phase = "idle" THEN Started(mem) ELSE mem
Opening == IF phase = "idle" THEN {"group.started", "run.started"} ELSE {}

(* start('play') where no loop is driving rounds: a loop begins, beside a  *)
(* round the host stepped if there is one.                                 *)
StartPlay(r) ==
  /\ phase # "finished" /\ ~Playing
  /\ pc[r] = "none"
  /\ ~pauseRequested /\ ~stopRequested
  /\ ~RoundInFlight \/ "round-over" \in Liberties
  /\ UNCHANGED <<stopRequested, actingIndex, memberOutcomes, groupUsage, turns>>
  /\ BeginRound(r, "loop", OpenedMembers, Opening)
  /\ pressed' = TRUE

(* start('play') where a loop is, or where a request is still standing: a  *)
(* loop that begins leaves again, and takes a pause with it.               *)
StartPlayIdly ==
  /\ phase # "finished"
  /\ Playing \/ pauseRequested \/ stopRequested
  /\ ~(Playing /\ pauseRequested) \/ "play-after-pause" \in Liberties
  /\ IF Playing THEN phase' = OpenedPhase /\ UNCHANGED pauseRequested
     ELSE /\ phase' = IF pauseRequested THEN "paused" ELSE OpenedPhase
          /\ pauseRequested' = FALSE
  /\ mem' = OpenedMembers /\ emitted' = Opening
  /\ UNCHANGED <<finalOutcome, round, stopRequested, actingIndex, memberOutcomes, groupUsage,
                 calls>>
  /\ pressed' = TRUE

(* start('step') on a group that has not begun. *)
StartStep ==
  /\ phase = "idle"
  /\ phase' = OpenedPhase /\ mem' = OpenedMembers /\ emitted' = Opening
  /\ UNCHANGED <<finalOutcome, round, control, actingIndex, memberOutcomes, groupUsage, calls>>
  /\ pressed' = FALSE

(* stepRound(): nothing keeps it from running beside another round. *)
StepRound(r) ==
  /\ phase # "finished"
  /\ pc[r] = "none"
  /\ ~(Playing \/ RoundInFlight) \/ "round-over" \in Liberties
  /\ UNCHANGED <<stopRequested, actingIndex, memberOutcomes, groupUsage, turns>>
  /\ BeginRound(r, "host", OpenedMembers, Opening)
  /\ pressed' = FALSE

(* pause(): the phase says so at once, the round under way goes on. *)
Pause ==
  /\ Playing \/ "pause-a-step" \in Liberties
  /\ pauseRequested' = TRUE
  /\ phase' = IF phase = "running" THEN "paused" ELSE phase
  /\ emitted' = {}
  /\ UNCHANGED <<finalOutcome, round, stopRequested, actingIndex, memberOutcomes, groupUsage,
                 mem, calls>> /\ pressed' = FALSE

(* resolveApproval: the question asked last is answered, also where the    *)
(* run has been stopped meanwhile.                                         *)
ResolveApproval(r) ==
  /\ asks[r] = "open"
  /\ asks' = [asks EXCEPT ![r] = "answered"]
  /\ mem' = [mem EXCEPT ![at[r]].status = "running"]
  /\ emitted' = {"approval.resolved"}
  /\ UNCHANGED <<ending, round, control, actingIndex, memberOutcomes, groupUsage, pc, at,
                 driver, seen, doubled>>
  /\ pressed' = FALSE

(* What a host may stop: see Liberty. *)
MayStop ==
  \/ ~RoundInFlight
  \/ /\ phase = "running"
     /\ "stop-at-question" \in Liberties \/ ~QuestionOpen
     /\ "stop-in-last-turn" \in Liberties \/ TurnToCome
  \/ "stop-after-pause" \in Liberties /\ phase # "running"

(* MUTANT of Stop: a group is ended in the middle of a round, too. *)
StopAtOnce ==
  /\ MayStop
  /\ stopRequested' = TRUE
  /\ FinishGroup("STOPPED_BY_USER", phase, mem, {})
  /\ UNCHANGED <<round, pauseRequested, actingIndex, memberOutcomes, groupUsage, calls>>
  /\ pressed' = FALSE

(* stop(): the acting member is told, and a group between rounds ends. *)
Stop ==
  /\ MayStop
  /\ stopRequested' = TRUE
  /\ LET mm == IF actingIndex = 0 THEN mem
               ELSE [mem EXCEPT ![actingIndex] = StoppedMember(@)]
     IN IF phase \in {"finished", "running"}
        THEN phase' = phase /\ mem' = mm /\ UNCHANGED finalOutcome
             /\ emitted' = Endings(mem, mm)
        ELSE FinishGroup("STOPPED_BY_USER", phase, mm, {})
  /\ UNCHANGED <<round, pauseRequested, actingIndex, memberOutcomes, groupUsage, calls>>
  /\ pressed' = FALSE

(* deliverInput: once, through the first session that is still live. *)
DeliverInput ==
  /\ ~Ended(mem)
  /\ emitted' = {"input.delivered"}
  /\ UNCHANGED <<ending, round, control, actingIndex, memberOutcomes, groupUsage, mem, calls>>
  /\ pressed' = FALSE

-----------------------------------------------------------------------------
Advance(r) == Checked(r) \/ CheckThrows(r) \/ TurnAsks(r) \/ TurnEnds(r) \/ LoopTop(r)

Host ==
  \/ \E r \in Rounds : StartPlay(r) \/ StepRound(r) \/ ResolveApproval(r)
  \/ StartPlayIdly \/ StartStep \/ Pause \/ Stop \/ DeliverInput

Next == Host \/ \E r \in Rounds : Advance(r)

(* The event loop runs every continuation that is ready and every tick     *)
(* answers; a person owes nothing.                                         *)
Fairness == \A r \in Rounds : WF_vars(Advance(r))

Spec == Init /\ [][Next]_vars /\ Fairness

-----------------------------------------------------------------------------
(***************************************************************************)
(* Correctness                                                             *)
(***************************************************************************)
TypeOK ==
  /\ phase \in Phase /\ finalOutcome \in Outcome \cup {"none"}
  /\ round \in Nat /\ groupUsage \in Nat
  /\ stopRequested \in BOOLEAN /\ pauseRequested \in BOOLEAN /\ pressed \in BOOLEAN
  /\ actingIndex \in 0..N
  /\ memberOutcomes \in [Members -> Outcome \cup {"none"}]
  /\ mem \in [Members -> [status : Phase \cup {"awaiting-approval"},
                         outcome : Outcome \cup {"none"}, told : BOOLEAN,
                         ticks : Nat]]
  /\ pc \in [Rounds -> {"none", "check", "turn", "delay"}]
  /\ at \in [Rounds -> 0..N]
  /\ driver \in [Rounds -> {"host", "loop"}]
  /\ seen \in [Rounds -> Nat]
  /\ asks \in [Rounds -> {"unasked", "open", "lost", "answered"}] /\ doubled \subseteq Members
  /\ emitted \subseteq {"group.started", "group.finished", "guardrail.checked", "run.started",
                        "tick.started", "tick.completed", "approval.requested",
                        "approval.resolved", "input.delivered", "run.finished"}

(* A group that has ended stays ended, with the outcome it was given,      *)
(* whatever answer or turn comes late (finishGroup).                       *)
EndingStands ==
  [][phase = "finished" => phase' = "finished" /\ finalOutcome' = finalOutcome]_vars

(* The group concludes every member's run: one whose tick is under way has *)
(* been told, and no other is left open, however rounds overlap.  Not so   *)
(* of a member given two ticks at once: the second goes on after the first *)
(* has ended the run, and may leave it open (finishGroup, awaitApproval).  *)
NobodyIsAbandoned ==
  phase = "finished" =>
    \A m \in Members \ doubled : mem[m].status = "finished" \/ mem[m].told

(* The group's SUCCESS is everybody's: no member that failed, was stopped  *)
(* or ran out is hidden by it, save one that two ticks at once have ended  *)
(* differently (deriveGroupOutcome, memberOutcomes).                       *)
SuccessIsShared ==
  finalOutcome = "SUCCESS" => \A m \in Members \ doubled : mem[m].outcome = "SUCCESS"

(* The combined ceilings hold: rounds stay within theirs, and usage passes *)
(* its own by less than one turn's (checkGroupGuardrails, stepRound).      *)
GroupBudgetsHold ==
  /\ round <= MaxRounds
  /\ groupUsage < GroupMaxTokens + TurnTokens

(* group.finished comes once, and last on the merged stream: every run has *)
(* ended before it and nothing is added after it (finishGroup).            *)
GroupFinishedIsLast ==
  [][/\ "group.finished" \in emitted' => Ended(mem')
     /\ phase = "finished" => emitted' = {}]_vars

(* Pressing Play plays, and does not silently do nothing (start).          *)
PlayIsHeard ==
  [][pressed' /\ ~stopRequested =>
       (Playing' /\ ~pauseRequested') \/ phase' = "finished"]_vars

(***************************************************************************)
(* The group as its merged stream shows it: a strict round robin.          *)
(***************************************************************************)
Stage ==
  CASE phase = "idle" -> "unopened" [] phase = "finished" -> "ended" [] OTHER -> "open"

Taken == [m \in Members |-> mem[m].ticks]
Live == {m \in Members : mem[m].status # "finished"}
TurnOf == {at[r] : r \in {q \in Rounds : pc[q] = "turn"}}
Acting == IF TurnOf = {} THEN 0 ELSE CHOOSE m \in TurnOf : TRUE

Turns == INSTANCE RoundRobin WITH
  phase <- Stage, taken <- Taken, live <- Live, acting <- Acting

(* One turn at a time, the next to the first of those that have had the    *)
(* fewest, and none once the group has ended (stepRound, finishGroup).     *)
TakesTurns == Turns!Spec

(* A stop ends the group where somebody's turn is still to come, unless a  *)
(* person is asked first; a stop that only the last turn could notice ends *)
(* the round and the loop, and leaves the group paused (stop, stepRound).  *)
StopEndsTheGroup ==
  /\ stopRequested /\ TurnToCome ~> phase = "finished" \/ QuestionOpen
  /\ stopRequested ~> phase = "finished" \/ QuestionOpen \/ ~(Playing \/ RoundInFlight)

(* A play loop that nobody pauses or stops comes to the group's end, or to *)
(* a question: members sit out and rounds are bounded, but nothing waits.  *)
PlayEnds == Playing ~> ~Playing \/ QuestionOpen
=============================================================================

------------------------- MODULE SessionGroupProofs -------------------------
(***************************************************************************)
(* What a group keeps for any number of members and of calls under way.    *)
(* IInv and TurnInv hold whatever the host does.  The other invariants are *)
(* each for a restraint of the host: BudgetInv (the ceilings) where it     *)
(* lets a round end before it asks for another, SharedInv (the shared      *)
(* success) where it does not stop a member a person is being asked about, *)
(* EndInv (the ending) where it is Patient, TickInv (the round robin)      *)
(* where it is Orderly.                                                    *)
(***************************************************************************)
EXTENDS SessionGroup, TLAPS

Events == {"group.started", "group.finished", "guardrail.checked", "run.started",
           "tick.started", "tick.completed", "approval.requested", "approval.resolved",
           "input.delivered", "run.finished"}

Member ==
  [status : Phase \cup {"awaiting-approval"}, outcome : Outcome \cup {"none"},
   told : BOOLEAN, ticks : Nat]

(* The members as a step leaves them: a run that has ended has an outcome. *)
Sound(mm) ==
  /\ mm \in [Members -> Member]
  /\ \A m \in Members : mm[m].status = "finished" => mm[m].outcome # "none"

(* Every member's run has ended or has been told to, but for those of `dd`.*)
Concluded(mm, dd) == \A m \in Members \ dd : mm[m].status = "finished" \/ mm[m].told

(* A session whose tick is in flight: only a stop ends its run meanwhile.  *)
Attended(s) ==
  s.status \in {"running", "awaiting-approval"} \/ (s.status = "finished" /\ s.told)

(* A round is at a member, and only the play loop sleeps between rounds.   *)
CallsAreSound ==
  /\ pc \in [Rounds -> {"none", "check", "turn", "delay"}]
  /\ at \in [Rounds -> 0..N] /\ driver \in [Rounds -> {"host", "loop"}]
  /\ \A r \in Rounds : /\ InRound(r) => at[r] \in Members
                       /\ pc[r] = "delay" => driver[r] = "loop"

TurnsAreTyped ==
  /\ asks \in [Rounds -> {"unasked", "open", "lost", "answered"}]
  /\ doubled \subseteq Members

LEMMA MembersAreNats == N \in Nat /\ Members \subseteq 0..N /\ Members \subseteq Nat
  BY GroupAssumption DEF Members

(* Stopping all concludes every run and leaves the members sound; those    *)
(* that have ended stay as they are.                                       *)
LEMMA StoppedIsSound ==
  ASSUME NEW mm, Sound(mm), NEW m \in Members, NEW s, s = StoppedMember(mm[m])
  PROVE  /\ s \in Member
         /\ s.status = "finished" => s.outcome # "none"
         /\ s.status # "awaiting-approval"
         /\ s.status = "finished" \/ s.told
         /\ mm[m].told => s.told
         /\ mm[m].status = "finished" => s = mm[m]
         /\ mm[m].status = "running" => s = [mm[m] EXCEPT !.told = TRUE]
         /\ Attended(mm[m]) => Attended(s)
  <1> DEFINE x == mm[m]
  <1>0. /\ s = StoppedMember(x) /\ x \in Member /\ (x.status = "finished" => x.outcome # "none")
    BY DEF Sound
  <1>4. mm[m] = x OBVIOUS
  <1> HIDE DEF x
  <1>1. CASE x.status = "finished"
    <2>1. StoppedMember(x) = x BY <1>1 DEF StoppedMember
    <2>2. Attended(x) => x.told BY <1>1 DEF Attended
    <2> QED BY <1>0, <1>1, <1>4, <2>1
         DEF Attended
  <1>2. CASE x.status = "running"
    <2>1. StoppedMember(x) = [x EXCEPT !.told = TRUE] BY <1>2 DEF StoppedMember
    <2>2. StoppedMember(x) \in Member /\ StoppedMember(x).told
          /\ StoppedMember(x).status = "running"
      BY <1>0, <1>2, <2>1 DEF Member
    <2>3. Attended(StoppedMember(x)) BY <2>2 DEF Attended
    <2> QED BY <1>0, <1>2, <1>4, <2>1, <2>2, <2>3
  <1>3. CASE x.status \notin {"finished", "running"}
    <2>1. StoppedMember(x) =
            [x EXCEPT !.told = TRUE, !.status = "finished", !.outcome = "STOPPED_BY_USER"]
      BY <1>3 DEF StoppedMember
    <2>2. /\ StoppedMember(x) \in Member /\ StoppedMember(x).told
          /\ StoppedMember(x).status = "finished"
          /\ StoppedMember(x).outcome = "STOPPED_BY_USER"
      BY <1>0, <2>1 DEF Member, Phase, Outcome
    <2>3. Attended(StoppedMember(x)) BY <2>2 DEF Attended
    <2> QED BY <1>0, <1>3, <1>4, <2>2, <2>3
  <1> QED BY <1>1, <1>2, <1>3

LEMMA AllStoppedIsSound ==
  ASSUME NEW mm, Sound(mm)
  PROVE  /\ Sound(AllStopped(mm)) /\ \A dd : Concluded(AllStopped(mm), dd)
         /\ \A m \in Members : Attended(mm[m]) => Attended(AllStopped(mm)[m])
  <1>1. \A m \in Members : AllStopped(mm)[m] = StoppedMember(mm[m])
    BY DEF AllStopped
  <1>2. AllStopped(mm) \in [Members -> Member]
    <2>1. ASSUME NEW m \in Members PROVE StoppedMember(mm[m]) \in Member
      BY <2>1, StoppedIsSound
    <2> QED BY <2>1 DEF AllStopped
  <1>3. ASSUME NEW m \in Members
        PROVE  /\ AllStopped(mm)[m].status = "finished" => AllStopped(mm)[m].outcome # "none"
               /\ AllStopped(mm)[m].status = "finished" \/ AllStopped(mm)[m].told
               /\ Attended(mm[m]) => Attended(AllStopped(mm)[m])
    BY <1>1, StoppedIsSound
  <1> QED BY <1>2, <1>3 DEF Sound, Concluded

(* The end of a group concludes every member.                              *)
LEMMA FinishGroupEnds ==
  ASSUME NEW o \in Outcome, NEW ph \in Phase, NEW mm, Sound(mm),
         NEW before, before \subseteq Events,
         ph = "finished" => Concluded(mm, doubled),
         finalOutcome \in Outcome \cup {"none"}, FinishGroup(o, ph, mm, before)
  PROVE  /\ phase' = "finished" /\ Sound(mem') /\ Concluded(mem', doubled)
         /\ finalOutcome' \in Outcome \cup {"none"} /\ emitted' \subseteq Events
         /\ ph = "finished" => finalOutcome' = finalOutcome
         /\ mem' \in {mm, AllStopped(mm)}
  <1>1. CASE ph = "finished"
    BY <1>1 DEF FinishGroup
  <1>2. CASE ph # "finished"
    <2>1. mem' = AllStopped(mm) /\ phase' = "finished" /\ finalOutcome' = o
      BY <1>2 DEF FinishGroup
    <2>2. emitted' \subseteq Events
      BY <1>2 DEF FinishGroup, Endings, Events
    <2> QED BY <1>2, <2>1, <2>2, AllStoppedIsSound
  <1> QED BY <1>1, <1>2

(* A call of stepRound() that returns leaves the others where they are.    *)
LEMMA ReturnIsSound ==
  ASSUME NEW r \in Rounds, pc \in [Rounds -> {"none", "check", "turn", "delay"}],
         seen \in [Rounds -> Nat], pauseRequested \in BOOLEAN, Return(r)
  PROVE  /\ pc' \in [Rounds -> {"none", "check", "turn", "delay"}]
         /\ seen' \in [Rounds -> Nat]
         /\ pauseRequested' \in BOOLEAN
         /\ pc'[r] \in {"none", "delay"} /\ (pc'[r] = "delay" => driver'[r] = "loop")
         /\ \A s \in Rounds \ {r} : pc'[s] = pc[s]
  <1>1. seen' \in [Rounds -> Nat] BY DEF Return
  <1>2. /\ pc' \in [Rounds -> {"none", "check", "turn", "delay"}]
        /\ pauseRequested' \in BOOLEAN
        /\ pc'[r] \in {"none", "delay"} /\ (pc'[r] = "delay" => driver'[r] = "loop")
        /\ \A s \in Rounds \ {r} : pc'[s] = pc[s]
    BY DEF Return
  <1> QED BY <1>1, <1>2

LEMMA DerivedIsOutcome == \A outcomes : Derived(outcomes) \in Outcome
  BY DEF Derived, Outcome

(* What a stretch of stepRound()'s loop leaves, for the call `r` and the   *)
(* members `mm`.                                                           *)
Moved(r, ph, mm) ==
  /\ phase' \in Phase /\ Sound(mem') /\ (phase' = "finished" => Concluded(mem', doubled))
  /\ mem' \in {mm, AllStopped(mm)}
  /\ finalOutcome' \in Outcome \cup {"none"} /\ emitted' \subseteq Events
  /\ pauseRequested' \in BOOLEAN
  /\ pc' \in [Rounds -> {"none", "check", "turn", "delay"}] /\ at' \in [Rounds -> 0..N]
  /\ seen' \in [Rounds -> Nat]
  /\ pc'[r] \in {"none", "check", "delay"} /\ (pc'[r] = "delay" => driver'[r] = "loop")
  /\ pc'[r] = "check" => at'[r] \in Members
  /\ \A s \in Rounds \ {r} : pc'[s] = pc[s] /\ at'[s] = at[s]
  /\ ph = "finished" => phase' = "finished" /\ finalOutcome' = finalOutcome
  /\ ph # "idle" => phase' # "idle"

LEMMA ProceedMoves ==
  ASSUME NEW r \in Rounds, NEW from, NEW ph \in Phase, NEW mm, Sound(mm),
         NEW before, before \subseteq Events,
         ph = "finished" => Concluded(mm, doubled), finalOutcome \in Outcome \cup {"none"},
         pc \in [Rounds -> {"none", "check", "turn", "delay"}], at \in [Rounds -> 0..N],
         seen \in [Rounds -> Nat], groupUsage' \in Nat,
         pauseRequested \in BOOLEAN, Proceed(r, from, ph, mm, before)
  PROVE  Moved(r, ph, mm)
  <1>0. "STOPPED_BY_USER" \in Outcome BY DEF Outcome
  <1>1. CASE /\ \E m \in Foremost(Left(from, mm)) : at' = [at EXCEPT ![r] = m]
             /\ pc' = [pc EXCEPT ![r] = "check"] /\ seen' = [seen EXCEPT ![r] = groupUsage']
             /\ phase' = ph /\ mem' = mm /\ emitted' = before
             /\ UNCHANGED <<finalOutcome, pauseRequested>>
    <2>1. PICK m \in Members : at' = [at EXCEPT ![r] = m]
      BY <1>1 DEF Foremost, Left
    <2>2. m \in 0..N BY MembersAreNats
    <2>3. at' \in [Rounds -> 0..N] /\ at'[r] = m /\ \A s \in Rounds \ {r} : at'[s] = at[s]
      BY <2>1, <2>2
    <2>4. /\ pc' \in [Rounds -> {"none", "check", "turn", "delay"}] /\ pc'[r] = "check"
          /\ \A s \in Rounds \ {r} : pc'[s] = pc[s]
      BY <1>1
    <2>5. seen' \in [Rounds -> Nat] BY <1>1
    <2> QED BY <1>1, <2>3, <2>4, <2>5 DEF Moved
  <1>2. ASSUME NEW o \in Outcome, FinishGroup(o, ph, mm, before), Return(r), at' = at
        PROVE  Moved(r, ph, mm)
    BY <1>2, FinishGroupEnds, ReturnIsSound DEF Moved, Phase
  <1>3. CASE /\ phase' = IF ph = "finished" THEN ph ELSE "paused"
             /\ mem' = mm /\ emitted' = before
             /\ Return(r) /\ UNCHANGED <<finalOutcome, at>>
    BY <1>3, ReturnIsSound DEF Moved, Phase
  <1> QED BY <1>0, <1>1, <1>2, <1>3, DerivedIsOutcome DEF Proceed

-----------------------------------------------------------------------------
(* Whatever the host does.                                                 *)
IInv ==
  /\ phase \in Phase /\ finalOutcome \in Outcome \cup {"none"}
  /\ round \in Nat /\ groupUsage \in Nat
  /\ stopRequested \in BOOLEAN /\ pauseRequested \in BOOLEAN /\ pressed \in BOOLEAN
  /\ actingIndex \in 0..N
  /\ memberOutcomes \in [Members -> Outcome \cup {"none"}]
  /\ emitted \subseteq Events
  /\ Sound(mem) /\ CallsAreSound /\ TurnsAreTyped /\ seen \in [Rounds -> Nat]
  /\ phase = "finished" => Concluded(mem, doubled)

(* The ticks in flight: only they have questions, a member that has never  *)
(* had two has one, and its session attends to it.                         *)
TurnInv ==
  /\ phase = "idle" => \A r \in Rounds : pc[r] = "none"
  /\ \A r \in Rounds : asks[r] # "unasked" => pc[r] = "turn"
  /\ \A r, s \in Rounds :
       pc[r] = "turn" /\ pc[s] = "turn" /\ at[r] = at[s] /\ at[r] \notin doubled => r = s
  /\ \A r \in Rounds :
       pc[r] = "turn" /\ at[r] \notin doubled => Attended(mem[at[r]])

LEMMA InitInv == Init => IInv /\ TurnInv
  <1> SUFFICES ASSUME Init PROVE IInv /\ TurnInv
    OBVIOUS
  <1>1. Sound(mem)
    <2>1. [status |-> "idle", outcome |-> "none", told |-> FALSE, ticks |-> 0] \in Member
      BY DEF Member, Phase
    <2>2. mem \in [Members -> Member] BY <2>1 DEF Init
    <2>3. \A m \in Members : mem[m].status = "idle" BY DEF Init
    <2> QED BY <2>2, <2>3 DEF Sound
  <1>2. CallsAreSound BY MembersAreNats DEF Init, CallsAreSound, InRound
  <1>3. TurnsAreTyped /\ TurnInv /\ seen \in [Rounds -> Nat]
    BY DEF Init, TurnsAreTyped, TurnInv
  <1>4. actingIndex \in 0..N /\ memberOutcomes \in [Members -> Outcome \cup {"none"}]
    BY MembersAreNats DEF Init
  <1> QED BY <1>1, <1>2, <1>3, <1>4 DEF Init, IInv, Phase

(* A call `r` that has moved leaves the calls sound.                       *)
LEMMA MovedCalls ==
  ASSUME IInv, NEW r \in Rounds, NEW ph, NEW mm, Moved(r, ph, mm),
         driver' \in [Rounds -> {"host", "loop"}],
         \A s \in Rounds \ {r} : driver'[s] = driver[s]
  PROVE  CallsAreSound'
  <1>0. CallsAreSound BY DEF IInv
  <1>1. ASSUME NEW s \in Rounds
        PROVE  /\ pc'[s] \in {"check", "turn"} => at'[s] \in Members
               /\ pc'[s] = "delay" => driver'[s] = "loop"
    <2>1. CASE s = r BY <2>1 DEF Moved
    <2>2. CASE s # r BY <1>0, <2>2 DEF Moved, CallsAreSound, InRound
    <2> QED BY <2>1, <2>2
  <1> QED BY <1>1 DEF Moved, CallsAreSound, InRound

(* ... and the other ticks in flight, where `mm` does.                     *)
LEMMA MovedTurns ==
  ASSUME IInv, TurnInv, NEW r \in Rounds, NEW ph, ph # "idle", NEW mm, Sound(mm),
         Moved(r, ph, mm), doubled' = doubled,
         \A s \in Rounds : asks'[s] = IF s = r THEN "unasked" ELSE asks[s],
         \A s \in Rounds \ {r} :
           pc[s] = "turn" /\ at[s] \notin doubled => Attended(mm[at[s]])
  PROVE  TurnInv'
  <1>1. /\ pc'[r] # "turn" /\ \A s \in Rounds \ {r} : pc'[s] = pc[s] /\ at'[s] = at[s]
        /\ mem' \in {mm, AllStopped(mm)} /\ phase' # "idle"
    BY DEF Moved
  <1>2. ASSUME NEW s \in Rounds, pc'[s] = "turn", at'[s] \notin doubled'
        PROVE  Attended(mem'[at'[s]])
    <2>1. s # r /\ pc[s] = "turn" /\ at'[s] = at[s] /\ at[s] \notin doubled BY <1>1, <1>2
    <2>2. at[s] \in Members BY <2>1 DEF IInv, CallsAreSound, InRound
    <2>3. Attended(mm[at[s]]) BY <2>1
    <2>4. Attended(AllStopped(mm)[at[s]]) BY <2>2, <2>3, AllStoppedIsSound
    <2> QED BY <1>1, <2>1, <2>3, <2>4
  <1>3. ASSUME NEW p \in Rounds, NEW q \in Rounds, pc'[p] = "turn", pc'[q] = "turn",
               at'[p] = at'[q], at'[p] \notin doubled'
        PROVE  p = q
    BY <1>1, <1>3 DEF TurnInv
  <1>4. ASSUME NEW s \in Rounds, asks'[s] # "unasked" PROVE pc'[s] = "turn"
    BY <1>1, <1>4 DEF TurnInv
  <1> QED BY <1>1, <1>2, <1>3, <1>4 DEF TurnInv

(* The calls, ticks and questions are left alone, and whoever is attended  *)
(* to stays so.                                                            *)
LEMMA LeftAlone ==
  ASSUME IInv, UNCHANGED calls
  PROVE  CallsAreSound' /\ TurnsAreTyped' /\ seen' \in [Rounds -> Nat]
  BY DEF IInv, CallsAreSound, InRound, TurnsAreTyped, calls, turns

LEMMA TurnsLeftAlone ==
  ASSUME IInv, TurnInv, UNCHANGED calls, phase' = "idle" => phase = "idle",
         \A r \in Rounds : pc[r] = "turn" /\ Attended(mem[at[r]]) => Attended(mem'[at[r]])
  PROVE  TurnInv'
  <1>1. UNCHANGED <<pc, at, asks, doubled>> BY DEF calls, turns
  <1> QED BY <1>1 DEF TurnInv

(* A round that begins.                                                    *)
LEMMA BeginRoundMoves ==
  ASSUME IInv, NEW r \in Rounds, NEW d \in {"host", "loop"}, NEW mm, Sound(mm),
         NEW before, before \subseteq Events, BeginRound(r, d, mm, before),
         UNCHANGED <<stopRequested, actingIndex, memberOutcomes, groupUsage, turns>>,
         pressed' \in BOOLEAN
  PROVE  IInv' /\ Moved(r, "running", mm)
  <1>0. /\ CallsAreSound /\ finalOutcome \in Outcome \cup {"none"} /\ round \in Nat
        /\ pauseRequested \in BOOLEAN /\ seen \in [Rounds -> Nat] /\ groupUsage' \in Nat
        /\ driver \in [Rounds -> {"host", "loop"}]
        /\ pc \in [Rounds -> {"none", "check", "turn", "delay"}] /\ at \in [Rounds -> 0..N]
    BY DEF IInv, CallsAreSound
  <1>1. Moved(r, "running", mm) /\ round' \in Nat
    <2>1. CASE round >= MaxRounds
      <3>1. /\ FinishGroup("OUT_OF_STEPS", "running", mm, before) /\ Return(r)
            /\ round' = round /\ at' = at
        BY <2>1 DEF BeginRound
      <3>2. "OUT_OF_STEPS" \in Outcome /\ "running" \in Phase BY DEF Outcome, Phase
      <3>3. /\ phase' = "finished" /\ Sound(mem') /\ Concluded(mem', doubled)
            /\ finalOutcome' \in Outcome \cup {"none"} /\ emitted' \subseteq Events
            /\ mem' \in {mm, AllStopped(mm)}
        BY <1>0, <3>1, <3>2, FinishGroupEnds
      <3> QED BY <1>0, <3>1, <3>3, ReturnIsSound DEF Moved, Phase
    <2>2. CASE ~(round >= MaxRounds)
      <3>1. Proceed(r, 1, "running", mm, before) /\ round' = round + 1
        BY <2>2 DEF BeginRound
      <3>2. "running" \in Phase BY DEF Phase
      <3> QED BY <1>0, <3>1, <3>2, ProceedMoves
    <2> QED BY <2>1, <2>2
  <1>2. driver' = [driver EXCEPT ![r] = d] BY DEF BeginRound
  <1>3. CallsAreSound' BY <1>0, <1>1, <1>2, MovedCalls
  <1>4. TurnsAreTyped' /\ doubled' = doubled BY DEF IInv, TurnsAreTyped, turns
  <1>5. IInv' BY <1>1, <1>3, <1>4 DEF IInv, Moved
  <1> QED BY <1>1, <1>5

-----------------------------------------------------------------------------
(* What the turns of a member leave of its session.                        *)
LEMMA ReplacedIsSound ==
  ASSUME NEW mm, Sound(mm), NEW m \in Members, NEW x \in Member,
         x.status = "finished" => x.outcome # "none"
  PROVE  /\ Sound([mm EXCEPT ![m] = x])
         /\ \A k \in Members : [mm EXCEPT ![m] = x][k] = IF k = m THEN x ELSE mm[k]
         /\ \A dd : Concluded(mm, dd) /\ (x.status = "finished" \/ x.told \/ m \in dd)
                      => Concluded([mm EXCEPT ![m] = x], dd)
  <1> DEFINE after == [mm EXCEPT ![m] = x]
  <1>1. after \in [Members -> Member] /\ \A k \in Members : after[k] = IF k = m THEN x ELSE mm[k]
    BY DEF Sound
  <1> HIDE DEF after
  <1>2. Sound(after) BY <1>1 DEF Sound
  <1>3. ASSUME NEW dd, Concluded(mm, dd), x.status = "finished" \/ x.told \/ m \in dd
        PROVE  Concluded(after, dd)
    BY <1>1, <1>3 DEF Concluded
  <1> QED BY <1>1, <1>2, <1>3 DEF after

LEMMA TickIsSound ==
  ASSUME NEW s \in Member, NEW o \in Outcome \cup {"none"}
  PROVE  /\ InTick(s) \in Member /\ InTick(s).status = "running" /\ InTick(s).told = s.told
         /\ AfterTick(s, o) \in Member /\ AfterTick(s, o).told = s.told
         /\ AfterTick(s, o).ticks = s.ticks
         /\ AfterTick(s, o).status =
              IF o # "none" THEN "finished"
              ELSE IF s.status \in {"finished", "awaiting-approval"} THEN s.status ELSE "paused"
         /\ AfterTick(s, o).outcome = IF o # "none" THEN o ELSE s.outcome
  <1>1. InTick(s) \in Member /\ InTick(s).status = "running" /\ InTick(s).told = s.told
    <2>1. s.ticks + 1 \in Nat BY DEF Member
    <2>2. InTick(s) = [s EXCEPT !.status = "running", !.ticks = s.ticks + 1]
      BY DEF InTick, Member
    <2> QED BY <2>1, <2>2 DEF Member, Phase
  <1>2. CASE o = "none" /\ s.status \in {"finished", "awaiting-approval"}
    BY <1>1, <1>2 DEF AfterTick
  <1>3. CASE o = "none" /\ s.status \notin {"finished", "awaiting-approval"}
    <2>1. AfterTick(s, o) = [s EXCEPT !.status = "paused"] BY <1>3 DEF AfterTick
    <2> QED BY <1>1, <1>3, <2>1 DEF Member, Phase
  <1>4. CASE o # "none" BY <1>1, <1>4 DEF AfterTick, Member, Phase
  <1> QED BY <1>2, <1>3, <1>4

(* A question, and its answer. *)
LEMMA AskingIsSound ==
  ASSUME NEW s \in Member, NEW status \in {"awaiting-approval", "running"}, NEW x,
         x = [s EXCEPT !.status = status]
  PROVE  /\ x \in Member /\ x.status = status /\ x.told = s.told /\ x.ticks = s.ticks
         /\ x.outcome = s.outcome
  BY DEF Member, Phase

LEMMA TickOutcomesAreOutcomes ==
  ASSUME NEW s, NEW limit
  PROVE  TickOutcomes(s, limit) \subseteq Outcome \cup {"none"}
         /\ (s.told => "none" \notin TickOutcomes(s, limit))
  BY DEF TickOutcomes, Outcome

LEMMA OpenedIsSound ==
  ASSUME IInv
  PROVE  /\ Sound(OpenedMembers) /\ Opening \subseteq Events /\ OpenedPhase \in Phase
         /\ OpenedPhase # "idle"
         /\ phase = "finished" => OpenedMembers = mem /\ OpenedPhase = phase
         /\ phase # "idle" => OpenedMembers = mem
  <1>1. Sound(mem) /\ phase \in Phase BY DEF IInv
  <1>2. Opening \subseteq Events BY DEF Opening, Events
  <1>3. Sound(Started(mem))
    <2>1. \A m \in Members : /\ [mem[m] EXCEPT !.status = "paused"] \in Member
                             /\ [mem[m] EXCEPT !.status = "paused"].status = "paused"
      BY <1>1 DEF Sound, Member, Phase
    <2>2. Started(mem) \in [Members -> Member] BY <2>1 DEF Started
    <2>3. \A m \in Members : Started(mem)[m].status = "paused" BY <2>1 DEF Started
    <2> QED BY <2>2, <2>3 DEF Sound
  <1> QED BY <1>1, <1>2, <1>3 DEF OpenedMembers, OpenedPhase, Phase

(* Where no call is under way nobody's tick is in flight, so the opening   *)
(* touches none.                                                           *)
LEMMA OpenedAttended ==
  ASSUME TurnInv, NEW r \in Rounds, pc[r] = "turn", Attended(mem[at[r]])
  PROVE  Attended(OpenedMembers[at[r]])
  BY DEF TurnInv, OpenedMembers

(* An ending stands through the step.                                      *)
Stands == phase = "finished" => phase' = "finished" /\ finalOutcome' = finalOutcome

Kept == IInv' /\ TurnInv' /\ Stands

LEMMA BeginningKeeps ==
  ASSUME IInv, TurnInv, NEW r \in Rounds, NEW d \in {"host", "loop"}, phase # "finished",
         NEW before, before \subseteq Events, BeginRound(r, d, OpenedMembers, before),
         UNCHANGED <<stopRequested, actingIndex, memberOutcomes, groupUsage, turns>>,
         pc[r] # "turn", pressed' \in BOOLEAN
  PROVE  Kept
  <1>1. Sound(OpenedMembers) BY OpenedIsSound
  <1>2. IInv' /\ Moved(r, "running", OpenedMembers) BY <1>1, BeginRoundMoves
  <1>3. \A s \in Rounds \ {r} :
          pc[s] = "turn" /\ at[s] \notin doubled => Attended(OpenedMembers[at[s]])
    BY OpenedAttended DEF TurnInv
  <1>4. doubled' = doubled /\ \A s \in Rounds : asks'[s] = IF s = r THEN "unasked" ELSE asks[s]
    BY DEF TurnInv, turns
  <1>5. TurnInv' BY <1>1, <1>2, <1>3, <1>4, MovedTurns
  <1> QED BY <1>2, <1>5 DEF Kept, Stands

LEMMA TakeTurnKeeps ==
  ASSUME IInv, TurnInv, NEW r \in Rounds, pc[r] = "check", TakeTurn(r),
         UNCHANGED <<round, stopRequested, groupUsage, driver, asks>>, pressed' = FALSE
  PROVE  Kept
  <1>0. /\ Sound(mem) /\ CallsAreSound /\ mem \in [Members -> Member]
        /\ pc \in [Rounds -> {"none", "check", "turn", "delay"}] /\ at \in [Rounds -> 0..N]
        /\ phase = "finished" => Concluded(mem, doubled)
        /\ seen \in [Rounds -> Nat] /\ doubled \subseteq Members /\ TurnsAreTyped
    BY DEF IInv, CallsAreSound, Sound, TurnsAreTyped
  <1> DEFINE m == at[r]
  <1>1. m \in Members /\ m \in 0..N
    BY <1>0, MembersAreNats DEF CallsAreSound, InRound
  <1> DEFINE x == InTick(mem[m])
  <1>2. /\ x \in Member /\ x.status = "running" /\ x.told = mem[m].told
        /\ mem[m].status # "finished" /\ mem' = [mem EXCEPT ![m] = x]
    BY <1>0, <1>1, TickIsSound DEF TakeTurn
  <1>3. /\ pc' = [pc EXCEPT ![r] = "turn"] /\ at' = at /\ phase' = phase
        /\ finalOutcome' = finalOutcome /\ actingIndex' = m /\ seen' = [seen EXCEPT ![r] = 0]
        /\ emitted' = {"guardrail.checked", "tick.started"}
        /\ memberOutcomes' = memberOutcomes /\ pauseRequested' = pauseRequested
        /\ doubled' = doubled \cup {k \in {m} : TicksOf(k) # {}}
    BY DEF TakeTurn, ending
  <1> HIDE DEF m, x
  <1>4. doubled \subseteq doubled' /\ doubled' \subseteq Members BY <1>0, <1>1, <1>3
  <1>5. /\ Sound(mem') /\ \A k \in Members : mem'[k] = IF k = m THEN x ELSE mem[k]
        /\ phase' = "finished" => Concluded(mem', doubled')
    <2>1. Sound(mem') /\ \A k \in Members : mem'[k] = IF k = m THEN x ELSE mem[k]
      BY <1>0, <1>1, <1>2, ReplacedIsSound
    <2>2. ASSUME phase = "finished", NEW k \in Members \ doubled'
          PROVE  mem'[k].status = "finished" \/ mem'[k].told
      BY <1>0, <1>2, <1>4, <2>1, <2>2 DEF Concluded
    <2> QED BY <1>3, <2>1, <2>2 DEF Concluded
  <1>6. CallsAreSound' BY <1>0, <1>1, <1>3 DEF CallsAreSound, InRound, m
  <1>7. \A s \in Rounds : pc'[s] = IF s = r THEN "turn" ELSE pc[s] BY <1>0, <1>3
  <1>8. TurnInv'
    <2>1. ASSUME NEW s \in Rounds, pc'[s] = "turn", at'[s] \notin doubled'
          PROVE  Attended(mem'[at'[s]])
      <3>1. CASE at[s] = m
        BY <1>1, <1>2, <1>3, <1>5, <3>1 DEF Attended
      <3>2. CASE at[s] # m
        <4>1. s # r /\ pc[s] = "turn" /\ at[s] \notin doubled
          BY <1>3, <1>4, <1>7, <2>1, <3>2 DEF m
        <4>2. at[s] \in Members BY <1>0, <4>1 DEF CallsAreSound, InRound
        <4>3. mem'[at[s]] = mem[at[s]] BY <1>5, <3>2, <4>2
        <4> QED BY <1>3, <4>1, <4>3 DEF TurnInv
      <3> QED BY <3>1, <3>2
    <2>2. ASSUME NEW p \in Rounds, NEW q \in Rounds, pc'[p] = "turn", pc'[q] = "turn",
                 at'[p] = at'[q], at'[p] \notin doubled', p # q
          PROVE  FALSE
      <3>1. CASE p # r /\ q # r BY <1>3, <1>4, <1>7, <2>2, <3>1 DEF TurnInv
      <3>2. ASSUME NEW s \in Rounds, s # r, pc'[s] = "turn", at[s] = m PROVE m \in doubled'
        <4>1. s \in TicksOf(m) BY <1>7, <3>2 DEF TicksOf
        <4> QED BY <1>3, <4>1
      <3> QED BY <1>3, <2>2, <3>1, <3>2 DEF m
    <2>3. ASSUME NEW s \in Rounds, asks'[s] # "unasked" PROVE pc'[s] = "turn"
      BY <1>7, <2>3 DEF TurnInv
    <2>4. phase' # "idle" BY <1>3 DEF TurnInv
    <2> QED BY <2>1, <2>2, <2>3, <2>4 DEF TurnInv
  <1>9. seen' \in [Rounds -> Nat] /\ TurnsAreTyped' /\ emitted' \subseteq Events
    BY <1>0, <1>3, <1>4 DEF TurnsAreTyped, Events
  <1>10. IInv' BY <1>1, <1>3, <1>5, <1>6, <1>9 DEF IInv
  <1> QED BY <1>3, <1>8, <1>10 DEF Kept, Stands

(* A stretch of `r` that goes on from the members `mm`.                    *)
LEMMA StretchKeeps ==
  ASSUME IInv, TurnInv, NEW r \in Rounds, NEW mm, Sound(mm), Moved(r, phase, mm),
         phase # "idle", TurnsAreTyped', doubled' = doubled,
         \A s \in Rounds : asks'[s] = IF s = r THEN "unasked" ELSE asks[s],
         \A s \in Rounds \ {r} :
           pc[s] = "turn" /\ at[s] \notin doubled => Attended(mm[at[s]]),
         UNCHANGED <<round, stopRequested, driver>>, groupUsage' \in Nat, pressed' = FALSE,
         actingIndex' \in 0..N, memberOutcomes' \in [Members -> Outcome \cup {"none"}]
  PROVE  Kept
  <1>1. driver \in [Rounds -> {"host", "loop"}] BY DEF IInv, CallsAreSound
  <1>2. CallsAreSound' BY <1>1, MovedCalls
  <1>3. TurnInv' BY MovedTurns
  <1>4. IInv' BY <1>2 DEF IInv, Moved
  <1> QED BY <1>3, <1>4 DEF Kept, Stands, Moved

LEMMA CheckedKeeps ==
  ASSUME IInv, TurnInv, NEW r \in Rounds, Checked(r)
  PROVE  Kept
  <1>0. /\ Sound(mem) /\ CallsAreSound /\ phase \in Phase
        /\ finalOutcome \in Outcome \cup {"none"} /\ pauseRequested \in BOOLEAN
        /\ mem \in [Members -> Member] /\ seen \in [Rounds -> Nat]
        /\ pc \in [Rounds -> {"none", "check", "turn", "delay"}] /\ at \in [Rounds -> 0..N]
        /\ memberOutcomes \in [Members -> Outcome \cup {"none"}] /\ groupUsage \in Nat
        /\ phase = "finished" => Concluded(mem, doubled)
    BY DEF IInv, CallsAreSound, Sound
  <1>1. /\ pc[r] = "check" /\ at[r] \in Members
        /\ UNCHANGED <<round, stopRequested, groupUsage, driver, asks>> /\ pressed' = FALSE
    BY <1>0 DEF CallsAreSound, Checked, InRound
  <1>2. phase # "idle" /\ asks[r] = "unasked" /\ groupUsage' \in Nat
    BY <1>0, <1>1 DEF TurnInv
  <1>3. ASSUME Moved(r, phase, mem), doubled' = doubled, actingIndex' \in 0..N,
               memberOutcomes' \in [Members -> Outcome \cup {"none"}]
        PROVE  Kept
    <2>1. TurnsAreTyped' BY <1>1, <1>3 DEF IInv, TurnsAreTyped
    <2>2. \A s \in Rounds : asks'[s] = IF s = r THEN "unasked" ELSE asks[s] BY <1>1, <1>2
    <2>3. \A s \in Rounds \ {r} :
            pc[s] = "turn" /\ at[s] \notin doubled => Attended(mem[at[s]])
      BY DEF TurnInv
    <2> QED BY <1>0, <1>1, <1>2, <1>3, <2>1, <2>2, <2>3, StretchKeeps
  <1>4. CASE /\ FinishGroup("STOPPED_BY_GUARDRAIL", phase, mem, {"guardrail.checked"})
             /\ Return(r) /\ UNCHANGED <<actingIndex, memberOutcomes, at, doubled>>
    <2>1. "STOPPED_BY_GUARDRAIL" \in Outcome /\ {"guardrail.checked"} \subseteq Events
      BY DEF Outcome, Events
    <2>2. /\ phase' = "finished" /\ Sound(mem') /\ Concluded(mem', doubled)
          /\ finalOutcome' \in Outcome \cup {"none"} /\ emitted' \subseteq Events
          /\ phase = "finished" => finalOutcome' = finalOutcome
          /\ mem' \in {mem, AllStopped(mem)}
      BY <1>0, <1>4, <2>1, FinishGroupEnds
    <2>3. Moved(r, phase, mem) BY <1>0, <1>4, <2>2, ReturnIsSound DEF Moved, Phase
    <2>4. actingIndex' \in 0..N BY <1>4 DEF IInv
    <2> QED BY <1>0, <1>3, <1>4, <2>3, <2>4
  <1>5. CASE TakeTurn(r) BY <1>1, <1>5, TakeTurnKeeps
  <1>6. CASE /\ memberOutcomes' = [memberOutcomes EXCEPT ![at[r]] = mem[at[r]].outcome]
             /\ actingIndex' = 0 /\ doubled' = doubled
             /\ Proceed(r, at[r] + 1, phase, mem, {"guardrail.checked"})
    <2>1. {"guardrail.checked"} \subseteq Events BY DEF Events
    <2>2. Moved(r, phase, mem) BY <1>0, <1>2, <1>6, <2>1, ProceedMoves
    <2>3. mem[at[r]].outcome \in Outcome \cup {"none"} BY <1>0, <1>1 DEF Member
    <2>4. memberOutcomes' \in [Members -> Outcome \cup {"none"}] BY <1>0, <1>6, <2>3
    <2> QED BY <1>3, <1>6, <2>2, <2>4, MembersAreNats
  <1> QED BY <1>4, <1>5, <1>6 DEF Checked

LEMMA CheckThrowsKeeps ==
  ASSUME IInv, TurnInv, NEW r \in Rounds, CheckThrows(r)
  PROVE  Kept
  <1>0. /\ CallsAreSound /\ seen \in [Rounds -> Nat]
        /\ pc \in [Rounds -> {"none", "check", "turn", "delay"}]
    BY DEF IInv, CallsAreSound
  <1>1. /\ pc[r] = "check" /\ pc' = [pc EXCEPT ![r] = "none"] /\ at' = at /\ driver' = driver
        /\ mem' = mem /\ phase' = phase /\ finalOutcome' = finalOutcome
        /\ seen' = [seen EXCEPT ![r] = 0] /\ asks' = asks /\ doubled' = doubled
        /\ emitted' = {"guardrail.checked"} /\ pressed' = FALSE
        /\ UNCHANGED <<round, stopRequested, pauseRequested, actingIndex, memberOutcomes,
                       groupUsage>>
    BY DEF CheckThrows, ending, turns
  <1>2. \A s \in Rounds : pc'[s] = IF s = r THEN "none" ELSE pc[s] BY <1>0, <1>1
  <1>3. CallsAreSound' BY <1>0, <1>1 DEF CallsAreSound, InRound
  <1>4. TurnsAreTyped' /\ seen' \in [Rounds -> Nat] BY <1>0, <1>1 DEF IInv, TurnsAreTyped
  <1>5. TurnInv' BY <1>1, <1>2 DEF TurnInv
  <1>6. IInv' BY <1>1, <1>3, <1>4 DEF IInv, Events
  <1> QED BY <1>1, <1>5, <1>6 DEF Kept, Stands

(* A member's tick goes to or from its question.                           *)
LEMMA QuestionKeeps ==
  ASSUME IInv, TurnInv, NEW r \in Rounds, pc[r] = "turn",
         NEW status \in {"awaiting-approval", "running"},
         mem' = [mem EXCEPT ![at[r]].status = status],
         asks' \in [Rounds -> {"unasked", "open", "lost", "answered"}],
         \A s \in Rounds : asks'[s] # "unasked" => s = r \/ asks[s] # "unasked",
         UNCHANGED <<phase, finalOutcome, round, stopRequested, pauseRequested, actingIndex,
                     memberOutcomes, groupUsage, pc, at, driver, seen, doubled>>,
         emitted' \subseteq Events, pressed' = FALSE
  PROVE  Kept
  <1>0. /\ Sound(mem) /\ CallsAreSound /\ mem \in [Members -> Member]
        /\ phase = "finished" => Concluded(mem, doubled)
    BY DEF IInv, Sound
  <1> DEFINE m == at[r]
  <1>1. m \in Members BY <1>0 DEF CallsAreSound, InRound
  <1> DEFINE x == [mem[m] EXCEPT !.status = status]
  <1>2. mem' = [mem EXCEPT ![m] = x] OBVIOUS
  <1>3. x \in Member /\ x.status = status /\ x.told = mem[m].told
    BY <1>0, <1>1, AskingIsSound
  <1>4. m \in doubled \/ Attended(mem[m]) BY DEF TurnInv
  <1> HIDE DEF m, x
  <1>5. /\ Sound(mem') /\ \A k \in Members : mem'[k] = IF k = m THEN x ELSE mem[k]
        /\ Concluded(mem, doubled) => Concluded(mem', doubled)
    <2>1. ASSUME Concluded(mem, doubled), m \notin doubled PROVE mem[m].told
      <3>1. mem[m].status = "finished" \/ mem[m].told BY <1>1, <2>1 DEF Concluded
      <3>2. mem[m].status = "finished" => mem[m].told BY <1>4, <2>1 DEF Attended
      <3> QED BY <3>1, <3>2
    <2>2. mem[m].told = x.told BY <1>3
    <2>3. Concluded(mem, doubled) => x.told \/ m \in doubled BY <2>1, <2>2
    <2>4. x.status = "finished" => x.outcome # "none" BY <1>3
    <2> DEFINE after == [mem EXCEPT ![m] = x]
    <2>5. /\ Sound(after) /\ \A k \in Members : after[k] = IF k = m THEN x ELSE mem[k]
          /\ \A dd : Concluded(mem, dd) /\ (x.status = "finished" \/ x.told \/ m \in dd)
                       => Concluded(after, dd)
      BY <1>0, <1>1, <1>3, <2>4, ReplacedIsSound
    <2>6. mem' = after BY <1>2
    <2> HIDE DEF after
    <2>7. Concluded(mem, doubled) => Concluded(after, doubled) BY <2>3, <2>5
    <2> QED BY <2>5, <2>6, <2>7
  <1>6. CallsAreSound' /\ TurnsAreTyped' /\ seen' \in [Rounds -> Nat]
    BY DEF IInv, CallsAreSound, InRound, TurnsAreTyped
  <1>7. ASSUME NEW s \in Rounds, pc[s] = "turn", at[s] \notin doubled
        PROVE  Attended(mem'[at[s]])
    <2>1. at[s] \in Members /\ Attended(mem[at[s]])
      BY <1>0, <1>7 DEF CallsAreSound, InRound, TurnInv
    <2>2. Attended(x) BY <1>3 DEF Attended
    <2> QED BY <1>5, <2>1, <2>2
  <1>8. TurnInv' BY <1>7 DEF TurnInv
  <1>9. IInv' BY <1>5, <1>6 DEF IInv
  <1> QED BY <1>8, <1>9 DEF Kept, Stands

LEMMA TurnAsksKeeps ==
  ASSUME IInv, TurnInv, NEW r \in Rounds, TurnAsks(r)
  PROVE  Kept
  <1>1. /\ pc[r] = "turn" /\ mem' = [mem EXCEPT ![at[r]].status = "awaiting-approval"]
        /\ UNCHANGED <<phase, finalOutcome, round, stopRequested, pauseRequested, actingIndex,
                       memberOutcomes, groupUsage, pc, at, driver, seen, doubled>>
        /\ emitted' \subseteq Events /\ pressed' = FALSE
    BY DEF TurnAsks, ending, control, Events
  <1>2. \A s \in Rounds :
          asks'[s] = IF s = r THEN "open"
                     ELSE IF asks[s] = "open" /\ at[s] = at[r] THEN "lost" ELSE asks[s]
    BY DEF TurnAsks
  <1>3. asks' \in [Rounds -> {"unasked", "open", "lost", "answered"}]
    BY DEF TurnAsks, IInv, TurnsAreTyped
  <1>4. \A s \in Rounds : asks'[s] # "unasked" => s = r \/ asks[s] # "unasked"
    BY <1>2
  <1> QED BY <1>1, <1>3, <1>4, QuestionKeeps

LEMMA ResolveKeeps ==
  ASSUME IInv, TurnInv, NEW r \in Rounds, ResolveApproval(r)
  PROVE  Kept
  <1>1. /\ asks[r] = "open" /\ mem' = [mem EXCEPT ![at[r]].status = "running"]
        /\ UNCHANGED <<phase, finalOutcome, round, stopRequested, pauseRequested, actingIndex,
                       memberOutcomes, groupUsage, pc, at, driver, seen, doubled>>
        /\ emitted' \subseteq Events /\ pressed' = FALSE
    BY DEF ResolveApproval, ending, control, Events
  <1>2. pc[r] = "turn" BY <1>1 DEF TurnInv
  <1>3. asks' = [asks EXCEPT ![r] = "answered"] BY DEF ResolveApproval
  <1>4. /\ asks' \in [Rounds -> {"unasked", "open", "lost", "answered"}]
        /\ \A s \in Rounds : asks'[s] # "unasked" => s = r \/ asks[s] # "unasked"
    BY <1>3 DEF IInv, TurnsAreTyped
  <1> QED BY <1>1, <1>2, <1>4, QuestionKeeps

LEMMA TurnEndsKeeps ==
  ASSUME IInv, TurnInv, NEW r \in Rounds, TurnEnds(r)
  PROVE  Kept
  <1>0. /\ Sound(mem) /\ CallsAreSound /\ phase \in Phase
        /\ finalOutcome \in Outcome \cup {"none"} /\ pauseRequested \in BOOLEAN
        /\ mem \in [Members -> Member] /\ seen \in [Rounds -> Nat]
        /\ pc \in [Rounds -> {"none", "check", "turn", "delay"}] /\ at \in [Rounds -> 0..N]
        /\ memberOutcomes \in [Members -> Outcome \cup {"none"}] /\ TurnsAreTyped
        /\ phase = "finished" => Concluded(mem, doubled)
    BY DEF IInv, CallsAreSound, Sound
  <1> DEFINE m == at[r]
  <1>1. m \in Members /\ mem[m] \in Member
    BY <1>0 DEF CallsAreSound, TurnEnds, InRound
  <1>2. PICK o \in TickOutcomes(mem[m], MaxTicks[m]) :
          /\ memberOutcomes' =
               IF o = "none" THEN memberOutcomes ELSE [memberOutcomes EXCEPT ![m] = o]
          /\ driver' = driver
          /\ Proceed(r, m + 1, phase, [mem EXCEPT ![m] = AfterTick(mem[m], o)],
                     {IF o = "none" THEN "tick.completed" ELSE "run.finished"})
    BY DEF TurnEnds
  <1>3. /\ pc[r] = "turn" /\ round' = round /\ stopRequested' = stopRequested /\ pressed' = FALSE
        /\ actingIndex' = 0 /\ groupUsage' \in Nat /\ doubled' = doubled
        /\ asks' = [asks EXCEPT ![r] = "unasked"]
    <2>1. PICK spent \in 0..TurnTokens : groupUsage' = groupUsage + spent BY DEF TurnEnds
    <2>2. groupUsage' \in Nat BY <2>1, GroupAssumption DEF IInv
    <2> QED BY <2>2 DEF TurnEnds
  <1>4. o \in Outcome \cup {"none"} /\ (mem[m].told => o # "none")
    BY <1>2, TickOutcomesAreOutcomes
  <1>5. phase # "idle" /\ (m \in doubled \/ Attended(mem[m])) BY <1>3 DEF TurnInv
  <1>6. \A s \in Rounds \ {r} : pc[s] = "turn" /\ at[s] \notin doubled =>
          at[s] # m /\ at[s] \in Members /\ Attended(mem[at[s]])
    BY <1>0, <1>3 DEF TurnInv, CallsAreSound, InRound
  <1> HIDE DEF m
  <1> DEFINE x == AfterTick(mem[m], o)
  <1> DEFINE after == [mem EXCEPT ![m] = x]
  <1>7. /\ x \in Member /\ x.told = mem[m].told
        /\ x.status = (IF o # "none" THEN "finished"
                       ELSE IF mem[m].status \in {"finished", "awaiting-approval"}
                            THEN mem[m].status ELSE "paused")
        /\ x.outcome = (IF o # "none" THEN o ELSE mem[m].outcome)
    BY <1>1, <1>4, TickIsSound
  <1>8. Proceed(r, m + 1, phase, after,
                {IF o = "none" THEN "tick.completed" ELSE "run.finished"})
    BY <1>2
  <1>9. mem[m].status = "finished" => mem[m].outcome # "none" BY <1>0, <1>1 DEF Sound
  <1> HIDE DEF x
  <1>10. x.status = "finished" => x.outcome # "none" BY <1>7, <1>9
  <1>11. /\ Sound(after) /\ \A k \in Members : after[k] = IF k = m THEN x ELSE mem[k]
         /\ Concluded(mem, doubled) => Concluded(after, doubled)
    <2>1. Concluded(mem, doubled) => x.status = "finished" \/ m \in doubled
      BY <1>1, <1>4, <1>5, <1>7 DEF Concluded, Attended
    <2> QED BY <1>0, <1>1, <1>7, <1>10, <2>1, ReplacedIsSound
  <1> HIDE DEF after
  <1>12. {IF o = "none" THEN "tick.completed" ELSE "run.finished"} \subseteq Events
    BY DEF Events
  <1>13. Moved(r, phase, after) BY <1>0, <1>3, <1>8, <1>11, <1>12, ProceedMoves
  <1>14. memberOutcomes' \in [Members -> Outcome \cup {"none"}] BY <1>0, <1>1, <1>2, <1>4
  <1>15. /\ TurnsAreTyped'
         /\ \A s \in Rounds : asks'[s] = IF s = r THEN "unasked" ELSE asks[s]
    BY <1>0, <1>3 DEF TurnsAreTyped
  <1>16. \A s \in Rounds \ {r} :
           pc[s] = "turn" /\ at[s] \notin doubled => Attended(after[at[s]])
    BY <1>6, <1>11
  <1>17. actingIndex' \in 0..N BY <1>3, MembersAreNats
  <1> QED BY <1>2, <1>3, <1>5, <1>11, <1>13, <1>14, <1>15, <1>16, <1>17, StretchKeeps

LEMMA LoopTopKeeps ==
  ASSUME IInv, TurnInv, NEW r \in Rounds, LoopTop(r)
  PROVE  Kept
  <1>0. /\ Sound(mem) /\ CallsAreSound /\ phase \in Phase
        /\ pc \in [Rounds -> {"none", "check", "turn", "delay"}]
    BY DEF IInv, CallsAreSound
  <1>1. pc[r] = "delay" /\ pressed' = FALSE /\ phase # "idle"
        /\ UNCHANGED <<stopRequested, actingIndex, memberOutcomes, groupUsage, turns>>
    BY DEF LoopTop, TurnInv
  <1>2. CASE LoopGoesOn /\ BeginRound(r, "loop", mem, {})
    <2>1. phase # "finished" /\ mem = OpenedMembers BY <1>1, <1>2 DEF LoopGoesOn, OpenedMembers
    <2>2. {} \subseteq Events /\ pressed' \in BOOLEAN BY <1>1
    <2> QED BY <1>1, <1>2, <2>1, <2>2, BeginningKeeps
  <1>3. CASE ~LoopGoesOn /\ LeaveLoop /\ pc' = [pc EXCEPT ![r] = "none"] /\ emitted' = {}
    <2>1. /\ at' = at /\ driver' = driver /\ mem' = mem /\ finalOutcome' = finalOutcome
          /\ round' = round /\ pauseRequested' = FALSE /\ seen' = seen
          /\ phase' \in {phase, "paused"} /\ (phase = "finished" => phase' = phase)
          /\ (phase' = "finished" => phase = "finished") /\ asks' = asks /\ doubled' = doubled
      BY <1>1, <1>3 DEF LeaveLoop, turns
    <2>2. CallsAreSound' /\ TurnsAreTyped'
      BY <1>0, <1>3, <2>1 DEF CallsAreSound, InRound, IInv, TurnsAreTyped
    <2>3. \A s \in Rounds : pc'[s] = IF s = r THEN "none" ELSE pc[s] BY <1>0, <1>3
    <2>4. phase' # "idle" BY <1>1, <2>1
    <2>5. TurnInv' BY <1>1, <2>1, <2>3, <2>4 DEF TurnInv
    <2>6. IInv' BY <1>0, <1>1, <1>3, <2>1, <2>2 DEF IInv, Phase
    <2> QED BY <2>1, <2>5, <2>6 DEF Kept, Stands
  <1> QED BY <1>2, <1>3 DEF LoopTop


LEMMA HostSteps ==
  ASSUME IInv, TurnInv, Host
  PROVE  Kept
  <1>0. /\ Sound(mem) /\ CallsAreSound /\ phase \in Phase /\ mem \in [Members -> Member]
        /\ finalOutcome \in Outcome \cup {"none"} /\ pauseRequested \in BOOLEAN
        /\ phase = "finished" => Concluded(mem, doubled)
    BY DEF IInv, Sound
  <1>1. ASSUME NEW r \in Rounds, StartPlay(r) PROVE Kept
    <2>1. /\ BeginRound(r, "loop", OpenedMembers, Opening) /\ pc[r] = "none" /\ pressed' = TRUE
          /\ UNCHANGED <<stopRequested, actingIndex, memberOutcomes, groupUsage, turns>>
          /\ phase # "finished"
      BY <1>1 DEF StartPlay
    <2> QED BY <2>1, OpenedIsSound, BeginningKeeps
  <1>2. ASSUME NEW r \in Rounds, StepRound(r) PROVE Kept
    <2>1. /\ BeginRound(r, "host", OpenedMembers, Opening) /\ pc[r] = "none" /\ pressed' = FALSE
          /\ UNCHANGED <<stopRequested, actingIndex, memberOutcomes, groupUsage, turns>>
          /\ phase # "finished"
      BY <1>2 DEF StepRound
    <2> QED BY <2>1, OpenedIsSound, BeginningKeeps
  (* A call that leaves the rounds alone and opens the group, or not.      *)
  <1>3. ASSUME UNCHANGED calls, mem' \in {mem, OpenedMembers},
               phase' \in Phase, phase' = "idle" => phase = "idle",
               phase = "finished" => phase' = phase, phase' = "finished" => phase = "finished",
               pauseRequested' \in BOOLEAN, stopRequested' \in BOOLEAN, pressed' \in BOOLEAN,
               emitted' \subseteq Events,
               UNCHANGED <<finalOutcome, round, actingIndex, memberOutcomes, groupUsage>>
        PROVE  Kept
    <2>1. doubled' = doubled BY <1>3 DEF calls, turns
    <2>2. Sound(mem') /\ (phase' = "finished" => Concluded(mem', doubled'))
      BY <1>0, <1>3, <2>1, OpenedIsSound
    <2>3. CallsAreSound' /\ TurnsAreTyped' /\ seen' \in [Rounds -> Nat] BY <1>3, LeftAlone
    <2>4. \A r \in Rounds : pc[r] = "turn" /\ Attended(mem[at[r]]) => Attended(mem'[at[r]])
      BY <1>3, OpenedAttended
    <2>5. TurnInv' BY <1>3, <2>4, TurnsLeftAlone
    <2>6. IInv' BY <1>3, <2>2, <2>3 DEF IInv
    <2> QED BY <1>3, <2>5, <2>6 DEF Kept, Stands
  <1>4. CASE StartPlayIdly
    <2>1. /\ phase # "finished" /\ phase' \in {OpenedPhase, "paused"}
          /\ pauseRequested' \in {pauseRequested, FALSE} /\ stopRequested' = stopRequested
          /\ mem' = OpenedMembers /\ emitted' = Opening /\ pressed' = TRUE
          /\ UNCHANGED <<finalOutcome, round, actingIndex, memberOutcomes, groupUsage>>
          /\ UNCHANGED calls
      BY <1>4 DEF StartPlayIdly
    <2>2. phase' \in Phase /\ phase' # "idle" /\ phase' # "finished"
      BY <1>0, <2>1 DEF OpenedPhase, Phase
    <2>3. stopRequested' \in BOOLEAN /\ pauseRequested' \in BOOLEAN BY <1>0, <2>1 DEF IInv
    <2> QED BY <1>3, <2>1, <2>2, <2>3, OpenedIsSound
  <1>5. CASE StartStep
    <2>1. /\ phase = "idle" /\ phase' = "paused" /\ mem' = OpenedMembers /\ emitted' = Opening
          /\ pressed' = FALSE /\ UNCHANGED <<pauseRequested, stopRequested>>
          /\ UNCHANGED <<finalOutcome, round, actingIndex, memberOutcomes, groupUsage>>
          /\ UNCHANGED calls
      BY <1>5 DEF StartStep, control, OpenedPhase
    <2>2. stopRequested' \in BOOLEAN /\ pauseRequested' \in BOOLEAN BY <1>0, <2>1 DEF IInv
    <2>3. phase' \in Phase BY <2>1 DEF Phase
    <2> QED BY <1>3, <2>1, <2>2, <2>3, OpenedIsSound
  <1>6. CASE Pause
    <2>1. /\ phase' \in {phase, "paused"} /\ (phase = "finished" <=> phase' = "finished")
          /\ pauseRequested' = TRUE /\ emitted' = {} /\ pressed' = FALSE
          /\ UNCHANGED <<finalOutcome, round, stopRequested, actingIndex, memberOutcomes,
                         groupUsage, mem, calls>>
      BY <1>6 DEF Pause
    <2>2. stopRequested' \in BOOLEAN BY <2>1 DEF IInv
    <2>3. phase' \in Phase /\ emitted' \subseteq Events BY <1>0, <2>1 DEF Phase
    <2> QED BY <1>3, <2>1, <2>2, <2>3
  <1>7. CASE DeliverInput
    <2>1. /\ UNCHANGED <<phase, finalOutcome, round, stopRequested, pauseRequested, actingIndex,
                         memberOutcomes, groupUsage, mem, calls>>
          /\ emitted' = {"input.delivered"} /\ pressed' = FALSE
      BY <1>7 DEF DeliverInput, ending, control
    <2>2. stopRequested' \in BOOLEAN /\ pauseRequested' \in BOOLEAN BY <1>0, <2>1 DEF IInv
    <2>3. phase' \in Phase /\ emitted' \subseteq Events BY <1>0, <2>1 DEF Events
    <2> QED BY <1>3, <2>1, <2>2, <2>3
  <1>8. CASE Stop
    <2> DEFINE mm == IF actingIndex = 0 THEN mem
                     ELSE [mem EXCEPT ![actingIndex] = StoppedMember(@)]
    <2>1. /\ stopRequested' = TRUE /\ pressed' = FALSE
          /\ UNCHANGED <<round, pauseRequested, actingIndex, memberOutcomes, groupUsage, calls>>
          /\ IF phase \in {"finished", "running"}
             THEN phase' = phase /\ mem' = mm /\ finalOutcome' = finalOutcome
                  /\ emitted' = Endings(mem, mm)
             ELSE FinishGroup("STOPPED_BY_USER", phase, mm, {})
      BY <1>8 DEF Stop
    <2>2. /\ Sound(mm) /\ (Concluded(mem, doubled) => Concluded(mm, doubled))
          /\ \A m \in Members : Attended(mem[m]) => Attended(mm[m])
      <3>1. CASE actingIndex = 0 BY <1>0, <3>1
      <3>2. CASE actingIndex # 0
        <4> DEFINE x == StoppedMember(mem[actingIndex])
        <4>1. actingIndex \in Members BY <3>2, MembersAreNats DEF IInv, Members
        <4>2. /\ x \in Member /\ (x.status = "finished" => x.outcome # "none")
              /\ x.status = "finished" \/ x.told
              /\ Attended(mem[actingIndex]) => Attended(x)
          BY <1>0, <4>1, StoppedIsSound
        <4>3. mm = [mem EXCEPT ![actingIndex] = x] BY <3>2
        <4> HIDE DEF x
        <4> DEFINE after == [mem EXCEPT ![actingIndex] = x]
        <4>4. /\ Sound(after)
              /\ \A k \in Members : after[k] = IF k = actingIndex THEN x ELSE mem[k]
              /\ \A dd : Concluded(mem, dd)
                           /\ (x.status = "finished" \/ x.told \/ actingIndex \in dd)
                           => Concluded(after, dd)
          BY <1>0, <4>1, <4>2, ReplacedIsSound
        <4>5. mm = after BY <4>3
        <4> HIDE DEF mm, after
        <4>6. Concluded(mem, doubled) => Concluded(after, doubled) BY <4>2, <4>4
        <4> QED BY <4>2, <4>4, <4>5, <4>6
      <3> QED BY <3>1, <3>2
    <2> HIDE DEF mm
    <2>3. CallsAreSound' /\ TurnsAreTyped' /\ seen' \in [Rounds -> Nat] /\ doubled' = doubled
      BY <2>1, LeftAlone DEF calls, turns
    <2>4. CASE phase \in {"finished", "running"}
      <3>1. Endings(mem, mm) \subseteq Events BY DEF Endings, Events
      <3>2. IInv' BY <1>0, <2>1, <2>2, <2>3, <2>4, <3>1 DEF IInv
      <3>3. \A r \in Rounds : pc[r] = "turn" /\ Attended(mem[at[r]]) => Attended(mem'[at[r]])
        BY <1>0, <2>1, <2>2, <2>4 DEF CallsAreSound, InRound
      <3>4. TurnInv' BY <2>1, <2>4, <3>3, TurnsLeftAlone
      <3> QED BY <2>1, <2>4, <3>2, <3>4 DEF Kept, Stands
    <2>5. CASE phase \notin {"finished", "running"}
      <3>1. "STOPPED_BY_USER" \in Outcome /\ {} \subseteq Events BY DEF Outcome
      <3>2. /\ phase' = "finished" /\ Sound(mem') /\ Concluded(mem', doubled)
            /\ finalOutcome' \in Outcome \cup {"none"} /\ emitted' \subseteq Events
        BY <1>0, <2>1, <2>2, <2>5, <3>1, FinishGroupEnds
      <3>3. IInv' BY <2>1, <2>3, <3>2 DEF IInv, Phase
      <3>4. mem' = AllStopped(mm) BY <2>1, <2>5 DEF FinishGroup
      <3>5. \A r \in Rounds : pc[r] = "turn" /\ Attended(mem[at[r]]) => Attended(mem'[at[r]])
        BY <1>0, <2>2, <3>4, AllStoppedIsSound DEF CallsAreSound, InRound
      <3>6. TurnInv' BY <2>1, <3>2, <3>5, TurnsLeftAlone
      <3> QED BY <2>5, <3>3, <3>6 DEF Kept, Stands
    <2> QED BY <2>4, <2>5
  <1>9. ASSUME NEW r \in Rounds, ResolveApproval(r) PROVE Kept
    BY <1>9, ResolveKeeps
  <1> QED BY <1>1, <1>2, <1>4, <1>5, <1>6, <1>7, <1>8, <1>9 DEF Host

LEMMA NextInv == IInv /\ TurnInv /\ [Next]_vars => Kept
  <1> SUFFICES ASSUME IInv, TurnInv, [Next]_vars PROVE Kept
    OBVIOUS
  <1>1. CASE Host BY <1>1, HostSteps
  <1>2. ASSUME NEW r \in Rounds, Advance(r) PROVE Kept
    BY <1>2, CheckedKeeps, CheckThrowsKeeps, TurnAsksKeeps, TurnEndsKeeps, LoopTopKeeps
       DEF Advance
  <1>3. CASE UNCHANGED vars
    <2>1. /\ UNCHANGED <<phase, finalOutcome, round, stopRequested, pauseRequested, actingIndex,
                         memberOutcomes, groupUsage, mem, emitted, pressed>>
          /\ UNCHANGED calls
      BY <1>3 DEF vars, ending, control
    <2>2. CallsAreSound' /\ TurnsAreTyped' /\ seen' \in [Rounds -> Nat] /\ doubled' = doubled
      BY <2>1, LeftAlone DEF calls, turns
    <2>3. TurnInv' BY <2>1, TurnsLeftAlone
    <2>4. IInv' BY <2>1, <2>2 DEF IInv
    <2> QED BY <2>1, <2>3, <2>4 DEF Kept, Stands
  <1> QED BY <1>1, <1>2, <1>3 DEF Next

LEMMA AlwaysInv == Spec => [](IInv /\ TurnInv)
  <1>1. (IInv /\ TurnInv) /\ [Next]_vars => (IInv /\ TurnInv)' BY NextInv DEF Kept
  <1> QED BY <1>1, InitInv, PTL DEF Spec

(* Every reachable state is well typed.                                    *)
THEOREM TypeCorrect == Spec => []TypeOK
  <1>1. IInv => TypeOK
    BY DEF IInv, TypeOK, Sound, CallsAreSound, TurnsAreTyped, Member, Events
  <1> QED BY <1>1, AlwaysInv, PTL

(* A group that has ended has ended, or told to end, every member's run,   *)
(* but for a member given two ticks at once (session-group.ts, finishGroup;*)
(* agent-session.ts, awaitApproval).                                       *)
THEOREM NobodyIsLeft == Spec => []NobodyIsAbandoned
  <1>1. IInv => NobodyIsAbandoned BY DEF IInv, Concluded, NobodyIsAbandoned
  <1> QED BY <1>1, AlwaysInv, PTL

(* A group's ending stands, whatever answer, turn or round comes after it, *)
(* one of a second tick of the same member included (session-group.ts,     *)
(* finishGroup's early return).                                            *)
THEOREM AnEndingStands == Spec => EndingStands
  <1>1. IInv /\ TurnInv /\ [Next]_vars =>
          [phase = "finished" => phase' = "finished" /\ finalOutcome' = finalOutcome]_vars
    BY NextInv DEF Kept, Stands
  <1> QED BY <1>1, AlwaysInv, PTL DEF Spec, EndingStands

-----------------------------------------------------------------------------
(* A host that waits for a round to be over has one call under way, so the *)
(* usage the guardrails were shown is the usage still, and a turn begins   *)
(* under the combined ceiling.                                             *)
BudgetInv ==
  /\ \A r, s \in Rounds : pc[r] # "none" /\ pc[s] # "none" => r = s
  /\ GroupBudgetsHold
  /\ \A r \in Rounds : /\ pc[r] = "check" => seen[r] = groupUsage
                       /\ pc[r] = "turn" => groupUsage < GroupMaxTokens

(* Where a stretch of the call `r` leaves the calls.                       *)
CallMoved(r) ==
  /\ pc'[r] \in {"none", "check", "delay"} /\ (pc'[r] = "check" => seen'[r] = groupUsage')
  /\ \A s \in Rounds \ {r} : pc'[s] = pc[s] /\ seen'[s] = seen[s]

LEMMA StretchMovesCall ==
  ASSUME IInv, NEW r \in Rounds,
         \/ Return(r)
         \/ \E from, ph, mm, before : Proceed(r, from, ph, mm, before)
  PROVE  CallMoved(r)
  <1>0. pc \in [Rounds -> {"none", "check", "turn", "delay"}] /\ pauseRequested \in BOOLEAN
        /\ seen \in [Rounds -> Nat]
    BY DEF IInv, CallsAreSound
  <1>1. CASE Return(r)
    <2>1. \A s \in Rounds \ {r} : seen'[s] = seen[s] BY <1>0, <1>1 DEF Return
    <2> QED BY <1>0, <1>1, <2>1, ReturnIsSound DEF CallMoved
  <1>2. CASE pc' = [pc EXCEPT ![r] = "check"] /\ seen' = [seen EXCEPT ![r] = groupUsage']
    BY <1>0, <1>2 DEF CallMoved
  <1> QED BY <1>1, <1>2 DEF Proceed

LEMMA BeginningIsBounded ==
  ASSUME IInv, round <= MaxRounds, NEW r \in Rounds, NEW d, NEW mm, NEW before,
         BeginRound(r, d, mm, before)
  PROVE  round' <= MaxRounds /\ CallMoved(r)
  <1>0. round \in Nat /\ MaxRounds \in Nat BY GroupAssumption DEF IInv
  <1>1. CASE round >= MaxRounds
    <2>1. Return(r) /\ round' = round BY <1>1 DEF BeginRound
    <2> QED BY <1>0, <2>1, StretchMovesCall
  <1>2. CASE ~(round >= MaxRounds)
    <2>1. Proceed(r, 1, "running", mm, before) /\ round' = round + 1 BY <1>2 DEF BeginRound
    <2> QED BY <1>0, <1>2, <2>1, StretchMovesCall
  <1> QED BY <1>1, <1>2

LEMMA BudgetStep ==
  "round-over" \notin Liberties /\ IInv /\ BudgetInv /\ [Next]_vars => BudgetInv'
  <1> SUFFICES ASSUME "round-over" \notin Liberties, IInv, BudgetInv, [Next]_vars
               PROVE  BudgetInv'
    OBVIOUS
  <1>0. /\ groupUsage \in Nat /\ round \in Nat /\ round <= MaxRounds /\ TurnTokens \in Nat
        /\ GroupMaxTokens \in Nat /\ groupUsage < GroupMaxTokens + TurnTokens
        /\ pc \in [Rounds -> {"none", "check", "turn", "delay"}] /\ CallsAreSound
        /\ seen \in [Rounds -> Nat]
    BY GroupAssumption DEF IInv, BudgetInv, GroupBudgetsHold, CallsAreSound
  <1>1. ASSUME pc' = pc, seen' = seen, groupUsage' = groupUsage, round' = round
        PROVE  BudgetInv'
    BY <1>1 DEF BudgetInv, GroupBudgetsHold
  <1>2. ASSUME NEW r \in Rounds, CallMoved(r),
               pc[r] # "none" \/ \A s \in Rounds : pc[s] = "none",
               round' <= MaxRounds, groupUsage' < GroupMaxTokens + TurnTokens,
               groupUsage' = groupUsage \/ pc[r] = "turn"
        PROVE  BudgetInv'
    <2>0. /\ pc'[r] \in {"none", "check", "delay"}
          /\ pc'[r] = "check" => seen'[r] = groupUsage'
          /\ \A s \in Rounds \ {r} : pc'[s] = pc[s] /\ seen'[s] = seen[s]
      BY <1>2 DEF CallMoved
    <2>1. ASSUME NEW p \in Rounds, NEW q \in Rounds, pc'[p] # "none", pc'[q] # "none"
          PROVE  p = q
      BY <1>2, <2>0, <2>1 DEF BudgetInv
    <2>2. ASSUME NEW p \in Rounds, p # r, pc'[p] \in {"check", "turn"}
          PROVE  groupUsage' = groupUsage /\ pc[p] = pc'[p] /\ seen'[p] = seen[p]
      <3>1. pc[p] = pc'[p] /\ seen'[p] = seen[p] BY <2>0, <2>2
      <3>2. groupUsage' = groupUsage BY <1>2, <2>2, <3>1 DEF BudgetInv
      <3> QED BY <3>1, <3>2
    <2>3. ASSUME NEW p \in Rounds, pc'[p] = "turn" PROVE groupUsage' < GroupMaxTokens
      BY <2>0, <2>2, <2>3 DEF BudgetInv
    <2>4. ASSUME NEW p \in Rounds, pc'[p] = "check" PROVE seen'[p] = groupUsage'
      BY <2>0, <2>2, <2>4 DEF BudgetInv
    <2> QED BY <1>2, <2>1, <2>3, <2>4 DEF BudgetInv, GroupBudgetsHold
  <1>3. ASSUME NEW r \in Rounds, StartPlay(r) \/ StepRound(r) PROVE BudgetInv'
    <2>1. (\E d : BeginRound(r, d, OpenedMembers, Opening)) /\ groupUsage' = groupUsage
      BY <1>3 DEF StartPlay, StepRound
    <2>2. \A s \in Rounds : pc[s] = "none"
      BY <1>0, <1>3 DEF StartPlay, StepRound, Playing, RoundInFlight, InRound, CallsAreSound
    <2>3. round' <= MaxRounds /\ CallMoved(r) BY <1>0, <2>1, BeginningIsBounded
    <2> QED BY <1>0, <1>2, <2>1, <2>2, <2>3
  <1>4. ASSUME NEW r \in Rounds, LoopTop(r) PROVE BudgetInv'
    <2>1. pc[r] = "delay" /\ groupUsage' = groupUsage BY <1>4 DEF LoopTop
    <2>2. CASE BeginRound(r, "loop", mem, {})
      <3>1. round' <= MaxRounds /\ CallMoved(r) BY <1>0, <2>2, BeginningIsBounded
      <3> QED BY <1>0, <1>2, <2>1, <3>1
    <2>3. CASE LeaveLoop /\ pc' = [pc EXCEPT ![r] = "none"]
      <3>1. round' = round /\ seen' = seen BY <2>3 DEF LeaveLoop
      <3>2. CallMoved(r) BY <1>0, <2>3, <3>1 DEF CallMoved
      <3> QED BY <1>0, <1>2, <2>1, <3>1, <3>2
    <2> QED BY <1>4, <2>2, <2>3 DEF LoopTop
  <1>5. ASSUME NEW r \in Rounds, Checked(r) PROVE BudgetInv'
    <2>1. pc[r] = "check" /\ groupUsage' = groupUsage /\ round' = round BY <1>5 DEF Checked
    <2>2. CASE seen[r] < GroupMaxTokens /\ TakeTurn(r)
      <3>1. pc' = [pc EXCEPT ![r] = "turn"] /\ seen' = [seen EXCEPT ![r] = 0]
        BY <2>2 DEF TakeTurn
      <3>2. pc'[r] = "turn" /\ \A s \in Rounds \ {r} : pc'[s] = pc[s] /\ seen'[s] = seen[s]
        BY <1>0, <3>1
      <3>3. \A p, q \in Rounds : pc'[p] # "none" /\ pc'[q] # "none" => p = q
        BY <2>1, <3>2 DEF BudgetInv
      <3>4. groupUsage < GroupMaxTokens BY <2>1, <2>2 DEF BudgetInv
      <3>5. \A p \in Rounds : pc'[p] = "check" => seen'[p] = groupUsage'
        BY <2>1, <3>2 DEF BudgetInv
      <3> QED BY <1>0, <2>1, <3>3, <3>4, <3>5 DEF BudgetInv, GroupBudgetsHold
    <2>3. CASE Return(r) \/ Proceed(r, at[r] + 1, phase, mem, {"guardrail.checked"})
      <3>1. CallMoved(r) BY <2>3, StretchMovesCall
      <3> QED BY <1>0, <1>2, <2>1, <3>1
    <2> QED BY <1>5, <2>2, <2>3 DEF Checked
  <1>6. ASSUME NEW r \in Rounds, CheckThrows(r) PROVE BudgetInv'
    <2>1. /\ pc[r] = "check" /\ round' = round /\ groupUsage' = groupUsage
          /\ pc' = [pc EXCEPT ![r] = "none"] /\ seen' = [seen EXCEPT ![r] = 0]
      BY <1>6 DEF CheckThrows
    <2>2. CallMoved(r) BY <1>0, <2>1 DEF CallMoved
    <2> QED BY <1>0, <1>2, <2>1, <2>2
  <1>7. ASSUME NEW r \in Rounds, TurnEnds(r) PROVE BudgetInv'
    <2>1. pc[r] = "turn" /\ round' = round BY <1>7 DEF TurnEnds
    <2>2. groupUsage' < GroupMaxTokens + TurnTokens
      <3>1. PICK spent \in 0..TurnTokens : groupUsage' = groupUsage + spent
        BY <1>7 DEF TurnEnds
      <3>2. groupUsage < GroupMaxTokens BY <2>1 DEF BudgetInv
      <3> QED BY <1>0, <3>1, <3>2
    <2>3. \E from, ph, mm, before : Proceed(r, from, ph, mm, before) BY <1>7 DEF TurnEnds
    <2>4. CallMoved(r) BY <2>3, StretchMovesCall
    <2> QED BY <1>0, <1>2, <2>1, <2>2, <2>4
  <1>8. ASSUME NEW r \in Rounds, TurnAsks(r) \/ ResolveApproval(r) PROVE BudgetInv'
    BY <1>1, <1>8 DEF TurnAsks, ResolveApproval
  <1>9. CASE StartPlayIdly \/ StartStep \/ Pause \/ Stop \/ DeliverInput
    BY <1>1, <1>9 DEF StartPlayIdly, StartStep, Pause, Stop, DeliverInput, calls
  <1>10. CASE UNCHANGED vars BY <1>1, <1>10 DEF vars, calls
  <1> QED BY <1>3, <1>4, <1>5, <1>6, <1>7, <1>8, <1>9, <1>10 DEF Next, Host, Advance

LEMMA AlwaysInBudget == "round-over" \notin Liberties => (Spec => []BudgetInv)
  <1> SUFFICES ASSUME "round-over" \notin Liberties PROVE Spec => []BudgetInv
    OBVIOUS
  <1>1. Init => BudgetInv BY GroupAssumption DEF Init, BudgetInv, GroupBudgetsHold
  <1>2. IInv /\ BudgetInv /\ [Next]_vars => BudgetInv' BY BudgetStep
  <1> QED BY <1>1, <1>2, AlwaysInv, PTL DEF Spec

(* The combined ceilings hold where the host waits for one round to end    *)
(* before it asks for another: the round's, and the tokens' by less than   *)
(* one turn (session-group.ts, checkGroupGuardrails and stepRound).        *)
THEOREM CombinedBudgetsHold == "round-over" \notin Liberties => (Spec => []GroupBudgetsHold)
  <1> SUFFICES ASSUME "round-over" \notin Liberties PROVE Spec => []GroupBudgetsHold
    OBVIOUS
  <1>1. BudgetInv => GroupBudgetsHold BY DEF BudgetInv
  <1>2. Spec => []BudgetInv BY AlwaysInBudget
  <1> QED BY <1>1, <1>2, PTL

-----------------------------------------------------------------------------
(* The shared success, of the members that never had two ticks at once.    *)
(* While the group goes on, a run that has ended is one the group has the  *)
(* outcome of and nobody ends one whose tick is in flight; after a shared  *)
(* success nothing of these members can change any more.                   *)
Recorded(mm, mo) ==
  \A m \in Members \ doubled : mm[m].status = "finished" => mo[m] = mm[m].outcome

GoingOn(mm) ==
  \A r \in Rounds : pc[r] = "turn" /\ at[r] \notin doubled =>
    mm[at[r]].status \in {"running", "awaiting-approval"}

Shared(mm) ==
  \A m \in Members \ doubled :
    mm[m].status = "finished" /\ mm[m].outcome = "SUCCESS" /\ TicksOf(m) = {}

SharedInv ==
  /\ phase # "finished" => Recorded(mem, memberOutcomes) /\ GoingOn(mem) /\ finalOutcome = "none"
  /\ finalOutcome = "SUCCESS" => Shared(mem)
  /\ actingIndex # 0 => \E r \in Rounds : pc[r] = "turn" /\ at[r] = actingIndex

(* A success is derived from nothing but successes.                        *)
LEMMA DerivedFromSuccesses ==
  ASSUME NEW mo, Derived(mo) = "SUCCESS", NEW m \in Members, mo[m] # "none"
  PROVE  mo[m] = "SUCCESS"
  <1> DEFINE got == {mo[k] : k \in Members} \ {"none"}
  <1>1. mo[m] \in got OBVIOUS
  <1>2. Derived(mo) = "SUCCESS" => got = {"SUCCESS"}
    BY DEF Derived
  <1> QED BY <1>1, <1>2

LEMMA StoppedWhenEnded ==
  ASSUME NEW mm, NEW m \in Members, mm[m].status = "finished"
  PROVE  AllStopped(mm)[m] = mm[m]
  BY DEF AllStopped, StoppedMember

(* Where the ticks in flight are after a stretch of `r`, which has had a   *)
(* tick of its own or none.                                                *)
LEMMA OneTickFewer ==
  ASSUME NEW r \in Rounds, pc'[r] # "turn",
         \A s \in Rounds \ {r} : pc'[s] = pc[s] /\ at'[s] = at[s]
  PROVE  /\ \A s \in Rounds : pc'[s] = "turn" => s # r /\ pc[s] = "turn" /\ at'[s] = at[s]
         /\ \A m : TicksOf(m)' = TicksOf(m) \ {r}
  BY DEF TicksOf

(* What a stretch of stepRound()'s loop leaves of the sharing: the members *)
(* `mm` and the outcomes are recorded so far.                              *)
LEMMA ProceedShares ==
  ASSUME IInv, NEW r \in Rounds, NEW from, NEW ph, NEW mm, Sound(mm), NEW before,
         Proceed(r, from, ph, mm, before), Moved(r, ph, mm), doubled' = doubled,
         ph # "finished" =>
           /\ Recorded(mm, memberOutcomes') /\ finalOutcome = "none"
           /\ \A s \in Rounds \ {r} : pc[s] = "turn" /\ at[s] \notin doubled =>
                mm[at[s]].status \in {"running", "awaiting-approval"},
         finalOutcome = "SUCCESS" =>
           \A m \in Members \ doubled : /\ mm[m].status = "finished" /\ mm[m].outcome = "SUCCESS"
                                        /\ TicksOf(m) \ {r} = {},
         actingIndex' # 0 => \E s \in Rounds \ {r} : pc[s] = "turn" /\ at[s] = actingIndex'
  PROVE  SharedInv'
  <1>1. /\ \A s \in Rounds : pc'[s] = "turn" => s # r /\ pc[s] = "turn" /\ at'[s] = at[s]
        /\ \A m : TicksOf(m)' = TicksOf(m) \ {r}
        /\ \A s \in Rounds \ {r} : pc'[s] = pc[s] /\ at'[s] = at[s]
    BY OneTickFewer DEF Moved
  <1>2. actingIndex' # 0 => \E s \in Rounds : pc'[s] = "turn" /\ at'[s] = actingIndex'
    BY <1>1
  <1>3. \A s \in Rounds \ {r} : pc[s] = "turn" => at[s] \in Members
    BY DEF IInv, CallsAreSound, InRound
  <1> DEFINE Succeeded ==
        \A m \in Members \ doubled : /\ mm[m].status = "finished" /\ mm[m].outcome = "SUCCESS"
                                     /\ TicksOf(m) \ {r} = {}
  <1>4. ASSUME NEW o, FinishGroup(o, ph, mm, before),
               ph # "finished" /\ o = "SUCCESS" => Succeeded
        PROVE  phase' = "finished" /\ (finalOutcome' = "SUCCESS" => Shared(mem)')
    <2>1. CASE ph = "finished"
      BY <1>1, <1>4, <2>1 DEF FinishGroup, Shared
    <2>2. CASE ph # "finished"
      <3>1. phase' = "finished" /\ finalOutcome' = o /\ mem' = AllStopped(mm)
        BY <1>4, <2>2 DEF FinishGroup
      <3>2. ASSUME o = "SUCCESS", NEW m \in Members \ doubled'
            PROVE  mem'[m].status = "finished" /\ mem'[m].outcome = "SUCCESS"
                   /\ TicksOf(m)' = {}
        <4>1. mm[m].status = "finished" /\ mm[m].outcome = "SUCCESS" /\ TicksOf(m) \ {r} = {}
          BY <1>4, <2>2, <3>2
        <4> QED BY <1>1, <3>1, <4>1, StoppedWhenEnded
      <3> QED BY <3>1, <3>2 DEF Shared
    <2> QED BY <2>1, <2>2
  <1>5. ASSUME ph # "finished", Ended(mm), Derived(memberOutcomes') = "SUCCESS"
        PROVE  Succeeded
    <2> SUFFICES ASSUME NEW m \in Members \ doubled
                 PROVE  mm[m].status = "finished" /\ mm[m].outcome = "SUCCESS"
                        /\ TicksOf(m) \ {r} = {}
      OBVIOUS
    <2>1. mm[m].status = "finished" /\ mm[m].outcome # "none" BY <1>5 DEF Ended, Sound
    <2>2. memberOutcomes'[m] = mm[m].outcome BY <1>5, <2>1 DEF Recorded
    <2>3. mm[m].outcome = "SUCCESS" BY <1>5, <2>1, <2>2, DerivedFromSuccesses
    <2>4. ASSUME NEW s \in TicksOf(m) \ {r} PROVE FALSE
      <3>1. s \in Rounds \ {r} /\ pc[s] = "turn" /\ at[s] = m BY <2>4 DEF TicksOf
      <3> QED BY <1>5, <2>1, <3>1
    <2> QED BY <2>1, <2>3, <2>4
  <1>6. ASSUME mem' = mm, phase' # "finished" => ph # "finished", finalOutcome' = finalOutcome
        PROVE  SharedInv'
    <2>1. phase' # "finished" => Recorded(mem, memberOutcomes)'
      BY <1>6 DEF Recorded
    <2>2. phase' # "finished" => GoingOn(mem)' BY <1>1, <1>6 DEF GoingOn
    <2>3. finalOutcome' = "SUCCESS" => Shared(mem)' BY <1>1, <1>6 DEF Shared
    <2> QED BY <1>2, <1>6, <2>1, <2>2, <2>3 DEF SharedInv
  <1> HIDE DEF Succeeded
  <1>7. CASE FinishGroup("STOPPED_BY_USER", ph, mm, before)
    BY <1>2, <1>4, <1>7 DEF SharedInv
  <1>8. CASE Ended(mm) /\ FinishGroup(Derived(memberOutcomes'), ph, mm, before)
    BY <1>2, <1>4, <1>5, <1>8 DEF SharedInv
  <1>9. CASE phase' = ph /\ mem' = mm /\ finalOutcome' = finalOutcome BY <1>6, <1>9
  <1>10. CASE /\ phase' = IF ph = "finished" THEN ph ELSE "paused"
              /\ mem' = mm /\ finalOutcome' = finalOutcome
    BY <1>6, <1>10
  <1> QED BY <1>7, <1>8, <1>9, <1>10 DEF Proceed

(* Where the calls and the members are left alone, or the group is opened. *)
LEMMA OpenedIsRecorded ==
  ASSUME IInv, TurnInv, SharedInv, phase # "finished"
  PROVE  Recorded(OpenedMembers, memberOutcomes) /\ GoingOn(OpenedMembers)
  <1>1. CASE phase = "idle"
    <2>1. \A m \in Members : OpenedMembers[m].status = "paused"
      <3>1. OpenedMembers = [m \in Members |-> [mem[m] EXCEPT !.status = "paused"]]
        BY <1>1 DEF OpenedMembers, Started
      <3>2. \A m \in Members : mem[m] \in Member BY DEF IInv, Sound
      <3> QED BY <3>1, <3>2 DEF Member
    <2>2. \A r \in Rounds : pc[r] # "turn" BY <1>1 DEF TurnInv
    <2> QED BY <2>1, <2>2 DEF Recorded, GoingOn
  <1>2. CASE phase # "idle"
    <2>1. OpenedMembers = mem BY <1>2 DEF OpenedMembers
    <2> QED BY <2>1 DEF SharedInv
  <1> QED BY <1>1, <1>2

LEMMA LeftShared ==
  ASSUME IInv, TurnInv, SharedInv, UNCHANGED calls, mem' \in {mem, OpenedMembers},
         phase' = "finished" <=> phase = "finished",
         UNCHANGED <<finalOutcome, actingIndex, memberOutcomes>>
  PROVE  SharedInv'
  <1>1. UNCHANGED <<pc, at, doubled>> BY DEF calls, turns
  <1>2. phase = "finished" => mem' = mem BY DEF OpenedMembers
  <1>3. phase' # "finished" => Recorded(mem, memberOutcomes)' /\ GoingOn(mem)'
    <2>1. phase # "finished" => Recorded(mem', memberOutcomes) /\ GoingOn(mem')
      BY OpenedIsRecorded DEF SharedInv
    <2> QED BY <1>1, <2>1 DEF Recorded, GoingOn
  <1>4. finalOutcome' = "SUCCESS" => Shared(mem)'
    <2>1. finalOutcome = "SUCCESS" => mem' = mem BY <1>2 DEF SharedInv
    <2> QED BY <1>1, <2>1 DEF SharedInv, Shared, TicksOf
  <1> QED BY <1>1, <1>3, <1>4 DEF SharedInv

LEMMA BeginningShares ==
  ASSUME IInv, TurnInv, SharedInv, NEW r \in Rounds, NEW d \in {"host", "loop"},
         NEW before, before \subseteq Events, phase # "finished",
         BeginRound(r, d, OpenedMembers, before), pc[r] # "turn", pressed' \in BOOLEAN,
         UNCHANGED <<stopRequested, actingIndex, memberOutcomes, groupUsage, turns>>
  PROVE  SharedInv'
  <1>0. /\ Sound(OpenedMembers) /\ round \in Nat /\ MaxRounds \in Nat /\ doubled' = doubled
        /\ finalOutcome = "none" /\ actingIndex' = actingIndex
        /\ memberOutcomes' = memberOutcomes
    BY OpenedIsSound, GroupAssumption DEF IInv, turns, SharedInv
  <1>1. Recorded(OpenedMembers, memberOutcomes) /\ GoingOn(OpenedMembers)
    BY OpenedIsRecorded
  <1>2. Moved(r, "running", OpenedMembers) BY <1>0, BeginRoundMoves
  <1>3. actingIndex' # 0 => \E s \in Rounds \ {r} : pc[s] = "turn" /\ at[s] = actingIndex'
    BY <1>0 DEF SharedInv
  <1>4. CASE round >= MaxRounds
    <2>1. FinishGroup("OUT_OF_STEPS", "running", OpenedMembers, before)
      BY <1>4 DEF BeginRound
    <2>2. phase' = "finished" /\ finalOutcome' = "OUT_OF_STEPS" BY <2>1 DEF FinishGroup
    <2>3. actingIndex' # 0 => \E s \in Rounds : pc'[s] = "turn" /\ at'[s] = actingIndex'
      BY <1>2, <1>3 DEF Moved
    <2> QED BY <2>2, <2>3 DEF SharedInv
  <1>5. CASE ~(round >= MaxRounds)
    <2>1. Proceed(r, 1, "running", OpenedMembers, before) BY <1>5 DEF BeginRound
    <2>2. /\ Recorded(OpenedMembers, memberOutcomes')
          /\ \A s \in Rounds \ {r} : pc[s] = "turn" /\ at[s] \notin doubled =>
               OpenedMembers[at[s]].status \in {"running", "awaiting-approval"}
      BY <1>0, <1>1 DEF GoingOn
    <2> QED BY <1>0, <1>2, <1>3, <2>1, <2>2, ProceedShares
  <1> QED BY <1>4, <1>5

(* A change of one member whose tick is in flight, and stays so.           *)
LEMMA InFlightShares ==
  ASSUME IInv, TurnInv, SharedInv, NEW m \in Members, NEW x, mem' = [mem EXCEPT ![m] = x],
         m \in doubled' \/ x.status \in {"running", "awaiting-approval"},
         m \in doubled' \/ mem[m].status # "finished" \/ TicksOf(m) # {},
         UNCHANGED <<phase, finalOutcome, memberOutcomes, at>>, doubled \subseteq doubled',
         \A s \in Rounds : (pc'[s] = "turn" <=> pc[s] = "turn") \/ at[s] = m,
         actingIndex' # 0 => \E s \in Rounds : pc'[s] = "turn" /\ at[s] = actingIndex'
  PROVE  SharedInv'
  <1>1. \A k \in Members : mem'[k] = IF k = m THEN x ELSE mem[k] BY DEF IInv, Sound
  <1>2. phase' # "finished" => Recorded(mem, memberOutcomes)'
    BY <1>1 DEF SharedInv, Recorded
  <1>3. phase' # "finished" => GoingOn(mem)'
    <2> SUFFICES ASSUME phase # "finished", NEW s \in Rounds, pc'[s] = "turn",
                        at[s] \notin doubled'
                 PROVE  mem'[at[s]].status \in {"running", "awaiting-approval"}
      BY DEF GoingOn
    <2>1. CASE at[s] = m BY <1>1, <2>1
    <2>2. CASE at[s] # m
      <3>1. pc[s] = "turn" /\ at[s] \notin doubled BY <2>2
      <3>2. at[s] \in Members BY <3>1 DEF IInv, CallsAreSound, InRound
      <3>3. mem[at[s]].status \in {"running", "awaiting-approval"}
        BY <3>1 DEF SharedInv, GoingOn
      <3> QED BY <1>1, <2>2, <3>2, <3>3
    <2> QED BY <2>1, <2>2
  <1>4. finalOutcome' = "SUCCESS" => Shared(mem)'
    <2> SUFFICES ASSUME finalOutcome = "SUCCESS", NEW k \in Members \ doubled'
                 PROVE  mem'[k].status = "finished" /\ mem'[k].outcome = "SUCCESS"
                        /\ TicksOf(k)' = {}
      BY DEF Shared
    <2>1. mem[k].status = "finished" /\ mem[k].outcome = "SUCCESS" /\ TicksOf(k) = {}
      BY DEF SharedInv, Shared
    <2>2. k # m BY <2>1
    <2>3. TicksOf(k)' = {} BY <2>1, <2>2 DEF TicksOf
    <2> QED BY <1>1, <2>1, <2>2, <2>3
  <1> QED BY <1>2, <1>3, <1>4 DEF SharedInv

LEMMA TakeTurnShares ==
  ASSUME IInv, TurnInv, SharedInv, NEW r \in Rounds, pc[r] = "check", TakeTurn(r)
  PROVE  SharedInv'
  <1> DEFINE m == at[r]
  <1> DEFINE x == InTick(mem[m])
  <1>0. m \in Members /\ mem[m] \in Member
        /\ pc \in [Rounds -> {"none", "check", "turn", "delay"}]
    BY DEF IInv, CallsAreSound, InRound, Sound
  <1>1. /\ mem' = [mem EXCEPT ![m] = x] /\ mem[m].status # "finished"
        /\ UNCHANGED <<phase, finalOutcome, memberOutcomes, at>> /\ doubled \subseteq doubled'
        /\ actingIndex' = at[r] /\ pc' = [pc EXCEPT ![r] = "turn"]
    BY DEF TakeTurn, ending
  <1>2. x.status = "running" BY <1>0, TickIsSound
  <1>3. \A s \in Rounds : (pc'[s] = "turn" <=> pc[s] = "turn") \/ at[s] = m BY <1>0, <1>1
  <1>4. pc'[r] = "turn" BY <1>0, <1>1
  <1>5. \E s \in Rounds : pc'[s] = "turn" /\ at[s] = actingIndex' BY <1>1, <1>4
  <1> HIDE DEF m, x
  <1> QED BY <1>0, <1>1, <1>2, <1>3, <1>5, InFlightShares

LEMMA CheckedShares ==
  ASSUME IInv, TurnInv, SharedInv, NEW r \in Rounds, Checked(r)
  PROVE  SharedInv'
  <1>0. /\ Sound(mem) /\ pc[r] = "check" /\ at[r] \in Members /\ phase # "idle"
        /\ phase \in Phase /\ groupUsage' = groupUsage /\ groupUsage' \in Nat
        /\ finalOutcome \in Outcome \cup {"none"}
        /\ pc \in [Rounds -> {"none", "check", "turn", "delay"}] /\ at \in [Rounds -> 0..N]
        /\ seen \in [Rounds -> Nat] /\ pauseRequested \in BOOLEAN
        /\ phase = "finished" => Concluded(mem, doubled)
    BY DEF Checked, InRound, IInv, CallsAreSound, TurnInv
  <1>1. CASE /\ FinishGroup("STOPPED_BY_GUARDRAIL", phase, mem, {"guardrail.checked"})
             /\ Return(r) /\ UNCHANGED <<actingIndex, memberOutcomes, at, doubled>>
    <2>1. /\ phase' = "finished"
          /\ finalOutcome' = "SUCCESS" => finalOutcome = "SUCCESS" /\ mem' = mem
      BY <1>1 DEF FinishGroup
    <2>2. pc'[r] # "turn" /\ \A s \in Rounds \ {r} : pc'[s] = pc[s] /\ at'[s] = at[s]
      BY <1>0, <1>1, ReturnIsSound
    <2>3. \A m : TicksOf(m)' = TicksOf(m) \ {r} BY <2>2, OneTickFewer
    <2>4. finalOutcome' = "SUCCESS" => Shared(mem)' BY <1>1, <2>1, <2>3 DEF SharedInv, Shared
    <2>5. actingIndex' # 0 => \E s \in Rounds : pc'[s] = "turn" /\ at'[s] = actingIndex'
      BY <1>0, <1>1, <2>2 DEF SharedInv
    <2> QED BY <2>1, <2>4, <2>5 DEF SharedInv
  <1>2. CASE TakeTurn(r) BY <1>0, <1>2, TakeTurnShares
  <1>3. CASE /\ memberOutcomes' = [memberOutcomes EXCEPT ![at[r]] = mem[at[r]].outcome]
             /\ actingIndex' = 0 /\ doubled' = doubled
             /\ Proceed(r, at[r] + 1, phase, mem, {"guardrail.checked"})
    <2>1. phase # "finished" => Recorded(mem, memberOutcomes')
      <3>1. \A k \in Members :
              memberOutcomes'[k] = IF k = at[r] THEN mem[at[r]].outcome ELSE memberOutcomes[k]
        BY <1>3 DEF IInv
      <3> QED BY <3>1 DEF SharedInv, Recorded
    <2>2. {"guardrail.checked"} \subseteq Events BY DEF Events
    <2>3. Moved(r, phase, mem) BY <1>0, <1>3, <2>2, ProceedMoves
    <2>4. phase # "finished" => finalOutcome = "none" /\ GoingOn(mem) BY DEF SharedInv
    <2>5. finalOutcome = "SUCCESS" =>
            \A m \in Members \ doubled :
              /\ mem[m].status = "finished" /\ mem[m].outcome = "SUCCESS"
              /\ TicksOf(m) \ {r} = {}
      BY DEF SharedInv, Shared
    <2> QED BY <1>0, <1>3, <2>1, <2>3, <2>4, <2>5, ProceedShares DEF GoingOn
  <1> QED BY <1>1, <1>2, <1>3 DEF Checked

LEMMA TurnEndsShares ==
  ASSUME IInv, TurnInv, SharedInv, NEW r \in Rounds, TurnEnds(r)
  PROVE  SharedInv'
  <1>0. /\ Sound(mem) /\ pc[r] = "turn" /\ phase # "idle" /\ phase \in Phase
        /\ finalOutcome \in Outcome \cup {"none"} /\ pauseRequested \in BOOLEAN
        /\ mem \in [Members -> Member] /\ seen \in [Rounds -> Nat] /\ doubled' = doubled
        /\ pc \in [Rounds -> {"none", "check", "turn", "delay"}] /\ at \in [Rounds -> 0..N]
        /\ memberOutcomes \in [Members -> Outcome \cup {"none"}] /\ groupUsage \in Nat
        /\ phase = "finished" => Concluded(mem, doubled)
    BY DEF IInv, Sound, CallsAreSound, TurnEnds, TurnInv
  <1> DEFINE m == at[r]
  <1>1. m \in Members /\ mem[m] \in Member
    BY <1>0 DEF IInv, CallsAreSound, InRound
  <1>2. PICK o \in TickOutcomes(mem[m], MaxTicks[m]) :
          /\ memberOutcomes' =
               IF o = "none" THEN memberOutcomes ELSE [memberOutcomes EXCEPT ![m] = o]
          /\ Proceed(r, m + 1, phase, [mem EXCEPT ![m] = AfterTick(mem[m], o)],
                     {IF o = "none" THEN "tick.completed" ELSE "run.finished"})
    BY DEF TurnEnds
  <1>3. actingIndex' = 0 BY DEF TurnEnds
  <1>4. o \in Outcome \cup {"none"} /\ (mem[m].told => o # "none")
    BY <1>2, TickOutcomesAreOutcomes
  <1>5. groupUsage' \in Nat
    <2>1. PICK spent \in 0..TurnTokens : groupUsage' = groupUsage + spent BY DEF TurnEnds
    <2> QED BY <1>0, <2>1, GroupAssumption
  <1>6. m \in doubled \/ (TicksOf(m) = {r} /\ Attended(mem[m]))
    BY <1>0 DEF TurnInv, TicksOf
  <1>7. r \in TicksOf(m) BY <1>0 DEF TicksOf
  <1>8. \A s \in Rounds \ {r} : pc[s] = "turn" /\ at[s] \notin doubled =>
          at[s] # m /\ at[s] \in Members
    BY <1>0 DEF TurnInv, IInv, CallsAreSound, InRound
  <1> HIDE DEF m
  <1> DEFINE x == AfterTick(mem[m], o)
  <1> DEFINE after == [mem EXCEPT ![m] = x]
  <1>9. /\ x \in Member /\ x.told = mem[m].told
        /\ x.status = (IF o # "none" THEN "finished"
                       ELSE IF mem[m].status \in {"finished", "awaiting-approval"}
                            THEN mem[m].status ELSE "paused")
        /\ x.outcome = (IF o # "none" THEN o ELSE mem[m].outcome)
    BY <1>1, <1>4, TickIsSound
  <1>10. Proceed(r, m + 1, phase, after,
                 {IF o = "none" THEN "tick.completed" ELSE "run.finished"})
    BY <1>2
  <1>11. mem[m].status = "finished" => mem[m].outcome # "none" BY <1>0, <1>1 DEF Sound
  <1> HIDE DEF x
  <1>12. x.status = "finished" => x.outcome # "none" BY <1>9, <1>11
  <1>13. /\ Sound(after) /\ \A k \in Members : after[k] = IF k = m THEN x ELSE mem[k]
    BY <1>0, <1>1, <1>9, <1>12, ReplacedIsSound
  <1>14. phase = "finished" => Concluded(after, doubled)
    <2>1. ASSUME phase = "finished", m \notin doubled PROVE x.status = "finished"
      <3>1. mem[m].status = "finished" \/ mem[m].told
        BY <1>0, <1>1, <2>1 DEF Concluded
      <3>2. mem[m].status = "finished" => mem[m].told BY <1>6, <2>1 DEF Attended
      <3> QED BY <1>4, <1>9, <3>1, <3>2
    <2> QED BY <1>0, <1>13, <2>1 DEF Concluded
  <1> HIDE DEF after
  <1>15. {IF o = "none" THEN "tick.completed" ELSE "run.finished"} \subseteq Events
    BY DEF Events
  <1>16. Moved(r, phase, after)
    BY <1>0, <1>5, <1>10, <1>13, <1>14, <1>15, ProceedMoves
  <1>17. phase # "finished" => Recorded(after, memberOutcomes')
    <2>1. \A k \in Members :
            memberOutcomes'[k] = IF k = m /\ o # "none" THEN o ELSE memberOutcomes[k]
      BY <1>0, <1>1, <1>2
    <2>2. ASSUME phase # "finished", m \notin doubled, o = "none" PROVE x.status # "finished"
      <3>1. mem[m].status \in {"running", "awaiting-approval"}
        BY <1>0, <2>2 DEF SharedInv, GoingOn, m
      <3> QED BY <1>9, <2>2, <3>1
    <2>3. ASSUME phase # "finished", NEW k \in Members \ doubled, after[k].status = "finished"
          PROVE  memberOutcomes'[k] = after[k].outcome
      BY <1>9, <1>13, <2>1, <2>2, <2>3 DEF SharedInv, Recorded
    <2> QED BY <2>3 DEF Recorded
  <1>18. finalOutcome = "SUCCESS" =>
           \A k \in Members \ doubled :
             /\ after[k].status = "finished" /\ after[k].outcome = "SUCCESS"
             /\ TicksOf(k) \ {r} = {}
    <2>1. finalOutcome = "SUCCESS" => m \in doubled BY <1>1, <1>7 DEF SharedInv, Shared
    <2> QED BY <1>13, <2>1 DEF SharedInv, Shared
  <1>19. phase # "finished" =>
           /\ finalOutcome = "none"
           /\ \A s \in Rounds \ {r} : pc[s] = "turn" /\ at[s] \notin doubled =>
                after[at[s]].status \in {"running", "awaiting-approval"}
    BY <1>8, <1>13 DEF SharedInv, GoingOn
  <1> QED BY <1>0, <1>3, <1>10, <1>13, <1>16, <1>17, <1>18, <1>19, ProceedShares

LEMMA RoundShares ==
  ASSUME IInv, TurnInv, SharedInv, NEW r \in Rounds,
         CheckThrows(r) \/ TurnAsks(r) \/ LoopTop(r) \/ ResolveApproval(r)
  PROVE  SharedInv'
  <1>0. pc \in [Rounds -> {"none", "check", "turn", "delay"}] /\ Sound(mem)
    BY DEF IInv, CallsAreSound
  <1>1. ASSUME pc[r] \in {"check", "delay"}, pc' = [pc EXCEPT ![r] = "none"],
               phase' = "finished" <=> phase = "finished",
               UNCHANGED <<finalOutcome, mem, at, actingIndex, memberOutcomes, doubled>>
        PROVE  SharedInv'
    <2>1. \A s \in Rounds : pc'[s] = "turn" <=> pc[s] = "turn" BY <1>0, <1>1
    <2>2. phase' # "finished" => Recorded(mem, memberOutcomes)' /\ GoingOn(mem)'
      BY <1>1, <2>1 DEF SharedInv, Recorded, GoingOn
    <2>3. finalOutcome' = "SUCCESS" => Shared(mem)'
      BY <1>1, <2>1 DEF SharedInv, Shared, TicksOf
    <2> QED BY <1>1, <2>1, <2>2, <2>3 DEF SharedInv
  <1>2. CASE CheckThrows(r) BY <1>1, <1>2 DEF CheckThrows, ending, turns
  <1>3. ASSUME NEW status \in {"awaiting-approval", "running"}, pc[r] = "turn",
               mem' = [mem EXCEPT ![at[r]].status = status],
               UNCHANGED <<phase, finalOutcome, pc, at, actingIndex, memberOutcomes, doubled>>
        PROVE  SharedInv'
    <2> DEFINE m == at[r]
    <2> DEFINE x == [mem[m] EXCEPT !.status = status]
    <2>1. m \in Members /\ mem[m] \in Member BY <1>0, <1>3 DEF IInv, CallsAreSound, InRound, Sound
    <2>2. mem' = [mem EXCEPT ![m] = x] BY <1>3
    <2>3. x.status = status BY <2>1, AskingIsSound
    <2>4. TicksOf(m) # {} BY <1>3 DEF TicksOf
    <2>5. actingIndex' # 0 => \E s \in Rounds : pc'[s] = "turn" /\ at[s] = actingIndex'
      BY <1>3 DEF SharedInv
    <2> HIDE DEF m, x
    <2> QED BY <1>3, <2>1, <2>2, <2>3, <2>4, <2>5, InFlightShares
  <1>4. CASE TurnAsks(r) BY <1>3, <1>4 DEF TurnAsks, ending
  <1>5. CASE ResolveApproval(r)
    <2>1. pc[r] = "turn" BY <1>5 DEF ResolveApproval, TurnInv
    <2> QED BY <1>3, <1>5, <2>1 DEF ResolveApproval, ending
  <1>6. CASE LoopTop(r)
    <2>1. /\ pc[r] = "delay" /\ pressed' = FALSE /\ phase # "idle"
          /\ UNCHANGED <<stopRequested, actingIndex, memberOutcomes, groupUsage, turns>>
      BY <1>6 DEF LoopTop, TurnInv
    <2>2. CASE LoopGoesOn /\ BeginRound(r, "loop", mem, {})
      <3>1. mem = OpenedMembers /\ phase # "finished" /\ {} \subseteq Events
        BY <2>1, <2>2 DEF OpenedMembers, LoopGoesOn
      <3>2. BeginRound(r, "loop", OpenedMembers, {}) /\ pc[r] # "turn" /\ pressed' \in BOOLEAN
        BY <2>1, <2>2, <3>1
      <3> QED BY <2>1, <3>1, <3>2, BeginningShares
    <2>3. CASE LeaveLoop /\ pc' = [pc EXCEPT ![r] = "none"]
      BY <1>1, <2>1, <2>3 DEF LeaveLoop, turns
    <2> QED BY <1>6, <2>2, <2>3 DEF LoopTop
  <1> QED BY <1>2, <1>4, <1>5, <1>6

LEMMA StopShares ==
  ASSUME "stop-at-question" \notin Liberties, IInv, TurnInv, SharedInv, Stop
  PROVE  SharedInv'
  <1>0. /\ Sound(mem) /\ mem \in [Members -> Member]
        /\ actingIndex # 0 => actingIndex \in Members
    BY MembersAreNats DEF IInv, Sound, Members
  <1> DEFINE mm == IF actingIndex = 0 THEN mem
                   ELSE [mem EXCEPT ![actingIndex] = StoppedMember(@)]
  <1>1. /\ actingIndex' = actingIndex /\ memberOutcomes' = memberOutcomes /\ UNCHANGED calls
        /\ IF phase \in {"finished", "running"}
           THEN phase' = phase /\ mem' = mm /\ finalOutcome' = finalOutcome
           ELSE FinishGroup("STOPPED_BY_USER", phase, mm, {})
    BY DEF Stop
  <1>2. UNCHANGED <<pc, at, doubled>> BY <1>1 DEF calls, turns
  <1>3. CASE phase \notin {"finished", "running"}
    <2>1. phase' = "finished" /\ finalOutcome' = "STOPPED_BY_USER"
      BY <1>1, <1>3 DEF FinishGroup
    <2> QED BY <1>1, <1>2, <2>1 DEF SharedInv
  <1>4. CASE phase \in {"finished", "running"} /\ actingIndex = 0
    BY <1>1, <1>4, LeftShared
  <1>5. CASE phase \in {"finished", "running"} /\ actingIndex # 0
    <2> DEFINE m == actingIndex
    <2> DEFINE x == StoppedMember(mem[m])
    <2>1. m \in Members /\ mem' = [mem EXCEPT ![m] = x] /\ phase' = phase
          /\ finalOutcome' = finalOutcome /\ actingIndex' = m
      BY <1>0, <1>1, <1>5
    <2>2. \A k \in Members : mem'[k] = IF k = m THEN x ELSE mem[k] BY <1>0, <2>1
    <2>3. PICK r \in Rounds : pc[r] = "turn" /\ at[r] = m BY <1>5 DEF SharedInv
    <2>4. (mem[m].status = "finished" => x = mem[m])
          /\ (mem[m].status = "running" => x = [mem[m] EXCEPT !.told = TRUE])
      BY <1>0, <2>1, StoppedIsSound
    <2>5. TicksOf(m) # {} BY <2>3 DEF TicksOf
    <2>6. CASE phase = "finished"
      <3>1. finalOutcome = "SUCCESS" => m \in doubled BY <2>1, <2>5 DEF SharedInv, Shared
      <3>2. finalOutcome' = "SUCCESS" => Shared(mem)'
        BY <1>2, <2>1, <2>2, <3>1 DEF SharedInv, Shared, TicksOf
      <3> QED BY <1>1, <1>2, <2>1, <2>6, <3>2 DEF SharedInv
    <2>7. CASE phase = "running"
      <3>1. m \in doubled \/ x.status \in {"running", "awaiting-approval"}
        <4>1. RoundInFlight BY <2>3 DEF RoundInFlight, InRound
        <4>2. ~QuestionOpen BY <2>7, <4>1 DEF Stop, MayStop
        <4>3. mem[m].status # "awaiting-approval" BY <2>1, <4>2 DEF QuestionOpen
        <4>4. m \in doubled \/ mem[m].status = "running"
          BY <2>3, <2>7, <4>3 DEF SharedInv, GoingOn
        <4>5. ASSUME mem[m].status = "running" PROVE x.status = "running"
          <5>1. x = [mem[m] EXCEPT !.told = TRUE] /\ mem[m] \in Member
            BY <1>0, <2>1, <2>4, <4>5
          <5> QED BY <4>5, <5>1 DEF Member
        <4> QED BY <4>4, <4>5
      <3>2. actingIndex' # 0 => \E s \in Rounds : pc'[s] = "turn" /\ at[s] = actingIndex'
        BY <1>2, <2>1, <2>3
      <3> HIDE DEF m, x
      <3> QED BY <1>1, <1>2, <2>1, <2>5, <3>1, <3>2, InFlightShares
    <2> QED BY <1>5, <2>6, <2>7
  <1> QED BY <1>3, <1>4, <1>5

LEMMA SharedStep ==
  "stop-at-question" \notin Liberties /\ IInv /\ TurnInv /\ SharedInv /\ [Next]_vars
    => SharedInv'
  <1> SUFFICES ASSUME "stop-at-question" \notin Liberties, IInv, TurnInv, SharedInv, [Next]_vars
               PROVE  SharedInv'
    OBVIOUS
  <1>1. ASSUME NEW r \in Rounds, StartPlay(r) PROVE SharedInv'
    <2>1. /\ BeginRound(r, "loop", OpenedMembers, Opening) /\ pc[r] = "none" /\ pressed' = TRUE
          /\ UNCHANGED <<stopRequested, actingIndex, memberOutcomes, groupUsage, turns>>
          /\ phase # "finished"
      BY <1>1 DEF StartPlay
    <2> QED BY <2>1, OpenedIsSound, BeginningShares
  <1>2. ASSUME NEW r \in Rounds, StepRound(r) PROVE SharedInv'
    <2>1. /\ BeginRound(r, "host", OpenedMembers, Opening) /\ pc[r] = "none" /\ pressed' = FALSE
          /\ UNCHANGED <<stopRequested, actingIndex, memberOutcomes, groupUsage, turns>>
          /\ phase # "finished"
      BY <1>2 DEF StepRound
    <2> QED BY <2>1, OpenedIsSound, BeginningShares
  <1>3. CASE StartPlayIdly
    BY <1>3, LeftShared DEF StartPlayIdly, OpenedPhase
  <1>4. CASE StartStep BY <1>4, LeftShared DEF StartStep, OpenedPhase
  <1>5. CASE Pause BY <1>5, LeftShared DEF Pause
  <1>6. CASE DeliverInput BY <1>6, LeftShared DEF DeliverInput, ending
  <1>7. CASE UNCHANGED vars BY <1>7, LeftShared DEF vars, ending
  <1>8. CASE Stop BY <1>8, StopShares
  <1>9. ASSUME NEW r \in Rounds, Advance(r) \/ ResolveApproval(r) PROVE SharedInv'
    BY <1>9, RoundShares, CheckedShares, TurnEndsShares DEF Advance
  <1> QED BY <1>1, <1>2, <1>3, <1>4, <1>5, <1>6, <1>7, <1>8, <1>9 DEF Next, Host

LEMMA AlwaysShared == "stop-at-question" \notin Liberties => (Spec => []SharedInv)
  <1> SUFFICES ASSUME "stop-at-question" \notin Liberties PROVE Spec => []SharedInv
    OBVIOUS
  <1>1. Init => SharedInv BY DEF Init, SharedInv, Recorded, GoingOn
  <1>2. (IInv /\ TurnInv) /\ SharedInv /\ [Next]_vars => SharedInv' BY SharedStep
  <1> QED BY <1>1, <1>2, AlwaysInv, PTL DEF Spec

(* The group's SUCCESS is everybody's, where the host does not stop the    *)
(* group while a person is being asked (session-group.ts, stop and         *)
(* deriveGroupOutcome): rounds may overlap and guardrails may throw, and   *)
(* only a member given two ticks at once may have ended otherwise.         *)
THEOREM SuccessIsEverybodys ==
  "stop-at-question" \notin Liberties => (Spec => []SuccessIsShared)
  <1>1. SharedInv => SuccessIsShared BY DEF SharedInv, Shared, SuccessIsShared
  <1> QED BY <1>1, AlwaysShared, PTL

-----------------------------------------------------------------------------
(* The ending.  A host that lets a round end before it asks for another,   *)
(* and stops neither a paused round nor a turn that waits for a person,    *)
(* finds the group ending between turns: nobody is in mid-tick, so every   *)
(* run ends at once and no round is left to write after it.                *)
Patient ==
  Liberties \intersect {"round-over", "stop-at-question", "stop-after-pause"} = {}

InTurn(question) == IF question = "open" THEN "awaiting-approval" ELSE "running"

EndInv ==
  /\ doubled = {}
  /\ phase = "finished" => Ended(mem) /\ ~RoundInFlight
  /\ phase = "idle" => round = 0 /\ \A m \in Members : mem[m].status = "idle" /\ mem[m].ticks = 0
  /\ phase # "idle" => \A m \in Members : mem[m].status # "idle"
  /\ \A r \in Rounds :
       /\ pc[r] = "check" => mem[at[r]].status # "finished"
       /\ pc[r] = "turn" => mem[at[r]].status = InTurn(asks[r]) /\ actingIndex = at[r]
  /\ \A m \in Members : mem[m].status \in {"running", "awaiting-approval"} => actingIndex = m

(* Nobody is in mid-tick.                                                  *)
Quiet(mm) ==
  \A m \in Members : mm[m].status \notin {"running", "awaiting-approval"}

SameTicks(mm, after) == \A m \in Members : after[m].ticks = mm[m].ticks

(* The group has ended, and its call `r` with it. *)
EndedAt(r) ==
  /\ phase' = "finished" /\ Ended(mem') /\ Quiet(mem')
  /\ pc'[r] \in {"none", "delay"}

(* What a stretch of a round comes to, from the member `from`: the end, the*)
(* next turn's check, or the end of the round.                             *)
Stretched(r, from, ph, mm) ==
  \/ EndedAt(r)
  \/ /\ phase' = ph /\ mem' = mm /\ pc'[r] = "check"
     /\ at'[r] \in Left(from, mm) /\ \A m \in Left(from, mm) : at'[r] <= m
  \/ /\ phase' = "paused" /\ mem' = mm /\ pc'[r] \in {"none", "delay"}
     /\ Left(from, mm) = {}

LEMMA QuietlyStopped ==
  ASSUME NEW mm, Sound(mm), Quiet(mm)
  PROVE  Ended(AllStopped(mm)) /\ Quiet(AllStopped(mm)) /\ SameTicks(mm, AllStopped(mm))
  <1>1. ASSUME NEW m \in Members
        PROVE  /\ AllStopped(mm)[m].status = "finished"
               /\ AllStopped(mm)[m].ticks = mm[m].ticks
    <2> DEFINE x == mm[m]
    <2>1. x \in Member /\ x.status \notin {"running", "awaiting-approval"}
      BY DEF Sound, Quiet
    <2>2. AllStopped(mm)[m] = StoppedMember(x) BY DEF AllStopped
    <2>3. mm[m] = x OBVIOUS
    <2> HIDE DEF x
    <2>4. CASE x.status = "finished" BY <2>1, <2>2, <2>3, <2>4 DEF StoppedMember
    <2>5. CASE x.status # "finished"
      <3>1. StoppedMember(x) =
              [x EXCEPT !.told = TRUE, !.status = "finished", !.outcome = "STOPPED_BY_USER"]
        BY <2>1, <2>5 DEF StoppedMember
      <3> QED BY <2>1, <2>2, <2>3, <3>1 DEF Member
    <2> QED BY <2>4, <2>5
  <1> QED BY <1>1 DEF Ended, Quiet, SameTicks

LEMMA FinishedQuietly ==
  ASSUME NEW mm, Sound(mm), Quiet(mm), NEW o, NEW ph, ph # "finished", NEW before,
         FinishGroup(o, ph, mm, before)
  PROVE  phase' = "finished" /\ Ended(mem') /\ Quiet(mem') /\ SameTicks(mm, mem')
  <1>1. phase' = "finished" /\ mem' = AllStopped(mm) BY DEF FinishGroup
  <1> QED BY <1>1, QuietlyStopped

LEMMA ProceedStretches ==
  ASSUME IInv, NEW r \in Rounds, NEW from, NEW ph, ph # "finished", NEW mm, Sound(mm), Quiet(mm),
         NEW before, Proceed(r, from, ph, mm, before)
  PROVE  Stretched(r, from, ph, mm) /\ SameTicks(mm, mem')
  <1>0. /\ pc \in [Rounds -> {"none", "check", "turn", "delay"}] /\ pauseRequested \in BOOLEAN
        /\ at \in [Rounds -> 0..N] /\ seen \in [Rounds -> Nat]
    BY DEF IInv, CallsAreSound
  <1>1. CASE /\ pc' = [pc EXCEPT ![r] = "check"]
             /\ \E m \in Foremost(Left(from, mm)) : at' = [at EXCEPT ![r] = m]
             /\ phase' = ph /\ mem' = mm
    <2>1. PICK m \in Foremost(Left(from, mm)) : at' = [at EXCEPT ![r] = m] BY <1>1
    <2>2. at'[r] = m /\ pc'[r] = "check" BY <1>0, <1>1, <2>1
    <2>3. m \in Left(from, mm) /\ \A k \in Left(from, mm) : m <= k BY DEF Foremost
    <2> QED BY <1>1, <2>2, <2>3 DEF Stretched, SameTicks
  <1>2. ASSUME NEW o, FinishGroup(o, ph, mm, before), Return(r)
        PROVE  Stretched(r, from, ph, mm) /\ SameTicks(mm, mem')
    <2>1. pc'[r] \in {"none", "delay"} BY <1>0, <1>2, ReturnIsSound
    <2> QED BY <1>2, <2>1, FinishedQuietly DEF Stretched, EndedAt
  <1>3. CASE /\ Left(from, mm) = {} /\ phase' = IF ph = "finished" THEN ph ELSE "paused"
             /\ mem' = mm /\ Return(r)
    <2>1. pc'[r] \in {"none", "delay"} BY <1>0, <1>3, ReturnIsSound
    <2> QED BY <1>3, <2>1 DEF Stretched, SameTicks
  <1> QED BY <1>1, <1>2, <1>3 DEF Proceed

(* stepRound() reaches its limit, or begins another round.                 *)
LEMMA BeginRoundStretches ==
  ASSUME IInv, NEW r \in Rounds, NEW d, NEW mm, Sound(mm), Quiet(mm),
         NEW before, BeginRound(r, d, mm, before)
  PROVE  /\ \/ EndedAt(r) /\ round' = round
            \/ Stretched(r, 1, "running", mm) /\ round' = round + 1
         /\ SameTicks(mm, mem')
  <1>0. /\ pc \in [Rounds -> {"none", "check", "turn", "delay"}] /\ pauseRequested \in BOOLEAN
        /\ seen \in [Rounds -> Nat]
    BY DEF IInv, CallsAreSound
  <1>1. CASE round >= MaxRounds
    <2>1. FinishGroup("OUT_OF_STEPS", "running", mm, before) /\ Return(r) /\ round' = round
      BY <1>1 DEF BeginRound
    <2>2. pc'[r] \in {"none", "delay"} BY <1>0, <2>1, ReturnIsSound
    <2> QED BY <2>1, <2>2, FinishedQuietly DEF EndedAt
  <1>2. CASE ~(round >= MaxRounds)
    <2>1. Proceed(r, 1, "running", mm, before) /\ round' = round + 1 BY <1>2 DEF BeginRound
    <2> QED BY <2>1, ProceedStretches
  <1> QED BY <1>1, <1>2

(* Between turns nobody acts.                                              *)
LEMMA NobodyActs ==
  ASSUME IInv, SharedInv, EndInv, \A r \in Rounds : pc[r] # "turn"
  PROVE  actingIndex = 0 /\ Quiet(mem)
  <1>1. actingIndex = 0 BY DEF SharedInv
  <1>2. \A m \in Members : m # 0 BY DEF Members
  <1> QED BY <1>1, <1>2 DEF EndInv, Quiet

(* One call is under way, and `r` is it.                                   *)
LEMMA OneCall ==
  ASSUME BudgetInv, NEW r \in Rounds, pc[r] # "none"
  PROVE  \A s \in Rounds \ {r} : pc[s] = "none"
  BY DEF BudgetInv

(* What a stretch of the only call leaves of the invariant.                *)
LEMMA StretchEnds ==
  ASSUME NEW r \in Rounds, NEW from, NEW ph \in {"running", "paused"}, NEW mm,
         EndedAt(r) \/ Stretched(r, from, ph, mm),
         Quiet(mm), \A m \in Members : mm[m].status # "idle",
         \A s \in Rounds \ {r} : pc'[s] = "none", doubled' = {}
  PROVE  EndInv'
  <1>1. Quiet(mem') /\ phase' # "idle" /\ \A m \in Members : mem'[m].status # "idle"
    BY DEF Stretched, EndedAt, Ended
  <1>2. pc'[r] = "check" => mem'[at'[r]].status # "finished"
    BY DEF Stretched, EndedAt, Left
  <1>3. \A s \in Rounds : pc'[s] = "check" => s = r
    OBVIOUS
  <1>4. \A s \in Rounds : pc'[s] # "turn" BY DEF Stretched, EndedAt
  <1>5. phase' = "finished" => Ended(mem') /\ \A s \in Rounds : pc'[s] \notin {"check", "turn"}
    BY DEF Stretched, EndedAt
  <1> QED BY <1>1, <1>2, <1>3, <1>4, <1>5 DEF EndInv, RoundInFlight, InRound, Quiet

(* A step that leaves every session's status, and no more calls than there *)
(* were.                                                                   *)
LEMMA KeptEnds ==
  ASSUME EndInv, round' = round, actingIndex' = actingIndex, at' = at,
         phase' = "finished" <=> phase = "finished", phase' = "idle" <=> phase = "idle",
         \A s \in Rounds : pc'[s] = pc[s] \/ (pc[s] # "turn" /\ pc'[s] = "none"),
         asks' = asks, doubled' = doubled,
         \A m \in Members : mem'[m].status = mem[m].status /\ mem'[m].ticks = mem[m].ticks,
         \A s \in Rounds : InRound(s) => at[s] \in Members
  PROVE  EndInv'
  <1>1. phase' = "finished" => Ended(mem') /\ ~RoundInFlight'
    BY DEF EndInv, Ended, RoundInFlight, InRound
  <1>2. \A s \in Rounds :
          /\ pc'[s] = "check" => mem'[at'[s]].status # "finished"
          /\ pc'[s] = "turn" => mem'[at'[s]].status = InTurn(asks'[s]) /\ actingIndex' = at'[s]
    BY DEF EndInv, InRound
  <1>3. phase' = "idle" => round' = 0 /\ \A m \in Members : mem'[m].status = "idle" /\ mem'[m].ticks = 0
    BY DEF EndInv
  <1>4. phase' # "idle" => \A m \in Members : mem'[m].status # "idle" BY DEF EndInv
  <1>5. /\ doubled' = {}
        /\ \A m \in Members :
             mem'[m].status \in {"running", "awaiting-approval"} => actingIndex' = m
    BY DEF EndInv
  <1> QED BY <1>1, <1>2, <1>3, <1>4, <1>5 DEF EndInv

(* The opening leaves the members at rest, as they were but for the idle.  *)
LEMMA OpenedQuietly ==
  ASSUME IInv, EndInv, Quiet(mem)
  PROVE  /\ Quiet(OpenedMembers) /\ SameTicks(mem, OpenedMembers)
         /\ \A m \in Members : OpenedMembers[m].status # "idle"
         /\ \A m \in Members : OpenedMembers[m].status = "finished" <=> mem[m].status = "finished"
  <1>1. CASE phase = "idle"
    <2>1. ASSUME NEW m \in Members
          PROVE  /\ OpenedMembers[m].status = "paused"
                 /\ OpenedMembers[m].ticks = mem[m].ticks
                 /\ mem[m].status # "finished"
      <3>1. mem[m] \in Member /\ mem[m].status = "idle" BY <1>1 DEF IInv, Sound, EndInv
      <3>2. OpenedMembers[m] = [mem[m] EXCEPT !.status = "paused"]
        BY <1>1 DEF OpenedMembers, Started
      <3> QED BY <3>1, <3>2 DEF Member
    <2> QED BY <2>1 DEF Quiet, SameTicks
  <1>2. CASE phase # "idle"
    <2>1. OpenedMembers = mem BY <1>2 DEF OpenedMembers
    <2> QED BY <1>2, <2>1 DEF EndInv, SameTicks
  <1> QED BY <1>1, <1>2

(* Where no call is under way, a careful host may begin one.               *)
LEMMA NoCallYet ==
  ASSUME Patient, IInv, NEW r \in Rounds, StartPlay(r) \/ StepRound(r)
  PROVE  \A s \in Rounds : pc[s] = "none"
  <1>1. "round-over" \notin Liberties BY DEF Patient
  <1> QED BY <1>1 DEF StartPlay, StepRound, Playing, RoundInFlight, InRound, IInv, CallsAreSound

(* The calls a step of `r` leaves alone. *)
LEMMA OthersStay ==
  ASSUME IInv, BudgetInv, NEW r \in Rounds,
         pc[r] # "none" \/ \A s \in Rounds : pc[s] = "none",
         \/ Return(r)
         \/ \E from, ph, mm, before : Proceed(r, from, ph, mm, before)
         \/ \E d, mm, before : BeginRound(r, d, mm, before)
  PROVE  \A s \in Rounds \ {r} : pc'[s] = "none"
  <1>1. \A s \in Rounds \ {r} : pc[s] = "none" BY OneCall
  <1>2. round <= MaxRounds BY DEF BudgetInv, GroupBudgetsHold
  <1>3. CallMoved(r) BY <1>2, StretchMovesCall, BeginningIsBounded
  <1> QED BY <1>1, <1>3 DEF CallMoved

LEMMA BeginningEnds ==
  ASSUME IInv, TurnInv, BudgetInv, SharedInv, EndInv, NEW r \in Rounds, NEW d, NEW before,
         BeginRound(r, d, OpenedMembers, before), UNCHANGED turns,
         pc[r] # "turn", pc[r] # "none" \/ \A s \in Rounds : pc[s] = "none"
  PROVE  EndInv'
  <1>1. \A s \in Rounds : pc[s] # "turn" BY OneCall
  <1>2. Quiet(mem) BY <1>1, NobodyActs
  <1> DEFINE mm == OpenedMembers
  <1>3. Quiet(mm) /\ Sound(mm) /\ \A m \in Members : mm[m].status # "idle"
    BY <1>2, OpenedQuietly, OpenedIsSound
  <1>4. BeginRound(r, d, mm, before) OBVIOUS
  <1> HIDE DEF mm
  <1>5. EndedAt(r) \/ Stretched(r, 1, "running", mm) BY <1>3, <1>4, BeginRoundStretches
  <1>6. \A s \in Rounds \ {r} : pc'[s] = "none" BY <1>4, OthersStay
  <1>7. doubled' = {} BY DEF EndInv, turns
  <1> QED BY <1>3, <1>5, <1>6, <1>7, StretchEnds

(* A member whose status changes in mid-tick, of the only call.            *)
LEMMA MidTick ==
  ASSUME IInv, EndInv, NEW r \in Rounds, NEW m \in Members, at[r] = m, NEW x,
         mem' = [mem EXCEPT ![m] = x], x.status = InTurn(asks'[r]),
         actingIndex' = m, at' = at, phase' = phase, phase # "finished", phase # "idle",
         actingIndex \in {0, m}, doubled' = {},
         pc'[r] = "turn", \A s \in Rounds \ {r} : pc'[s] = "none"
  PROVE  EndInv'
  <1>1. \A k \in Members : mem'[k] = IF k = m THEN x ELSE mem[k] BY DEF IInv, Sound
  <1>2. \A k \in Members :
          /\ mem'[k].status \in {"running", "awaiting-approval"} => actingIndex' = k
          /\ mem'[k].status # "idle"
    BY <1>1 DEF EndInv, Members, InTurn
  <1>3. ASSUME NEW s \in Rounds
        PROVE  /\ pc'[s] # "check"
               /\ pc'[s] = "turn" => mem'[at'[s]].status = InTurn(asks'[s]) /\ actingIndex' = at'[s]
    BY <1>1
  <1> QED BY <1>2, <1>3 DEF EndInv

LEMMA RoundEnds ==
  ASSUME IInv, TurnInv, BudgetInv, SharedInv, EndInv, NEW r \in Rounds,
         Checked(r) \/ CheckThrows(r) \/ TurnAsks(r) \/ LoopTop(r)
  PROVE  EndInv'
  <1>0. /\ pc \in [Rounds -> {"none", "check", "turn", "delay"}] /\ Sound(mem)
        /\ \A s \in Rounds : InRound(s) => at[s] \in Members
        /\ phase \in Phase /\ mem \in [Members -> Member] /\ doubled = {}
    BY DEF IInv, CallsAreSound, Sound, EndInv
  <1>1. pc[r] # "none" /\ phase # "idle" /\ \A s \in Rounds \ {r} : pc[s] = "none"
    BY OneCall DEF Checked, CheckThrows, TurnAsks, LoopTop, TurnInv
  <1>2. CASE Checked(r)
    <2>0. /\ pc[r] = "check" /\ at[r] \in Members /\ mem[at[r]].status # "finished"
          /\ phase # "finished"
      BY <1>0, <1>2 DEF Checked, InRound, EndInv, RoundInFlight
    <2>1. actingIndex = 0 /\ Quiet(mem) BY <1>1, <2>0, NobodyActs
    <2>2. CASE /\ FinishGroup("STOPPED_BY_GUARDRAIL", phase, mem, {"guardrail.checked"})
               /\ Return(r) /\ doubled' = doubled
      <3>1. EndedAt(r)
        <4>1. pc'[r] \in {"none", "delay"} BY <1>0, <2>2, ReturnIsSound DEF IInv
        <4> QED BY <1>0, <2>0, <2>1, <2>2, <4>1, FinishedQuietly DEF EndedAt
      <3>2. \A s \in Rounds \ {r} : pc'[s] = "none" BY <1>1, <2>2, OthersStay
      <3>3. phase \in {"running", "paused"} /\ \A m \in Members : mem[m].status # "idle"
        BY <1>0, <1>1, <2>0 DEF Phase, EndInv
      <3>4. doubled' = {} BY <1>0, <2>2
      <3> QED BY <2>1, <3>1, <3>2, <3>3, <3>4, StretchEnds
    <2>3. CASE TakeTurn(r) /\ asks' = asks
      <3> DEFINE m == at[r]
      <3> DEFINE x == InTick(mem[m])
      <3>1. /\ m \in Members /\ mem' = [mem EXCEPT ![m] = x] /\ actingIndex' = m
            /\ x.status = "running" /\ at' = at /\ phase' = phase
        BY <1>0, <2>0, <2>3, TickIsSound DEF TakeTurn, ending
      <3>2. pc'[r] = "turn" /\ \A s \in Rounds \ {r} : pc'[s] = "none"
        <4>1. pc' = [pc EXCEPT ![r] = "turn"] BY <2>3 DEF TakeTurn
        <4> QED BY <1>0, <1>1, <4>1
      <3>3. doubled' = {}
        <4>1. TicksOf(m) = {} BY <1>1, <2>0 DEF TicksOf
        <4> QED BY <1>0, <2>3, <4>1 DEF TakeTurn
      <3>4. x.status = InTurn(asks'[r])
        <4>1. asks'[r] = "unasked" BY <2>0, <2>3 DEF TurnInv
        <4> QED BY <3>1, <4>1 DEF InTurn
      <3>5. at[r] = m OBVIOUS
      <3> HIDE DEF m, x
      <3> QED BY <1>1, <2>0, <2>1, <3>1, <3>2, <3>3, <3>4, <3>5, MidTick
    <2> QED BY <1>2, <2>0, <2>2, <2>3 DEF Checked
  <1>3. CASE CheckThrows(r)
    <2>1. /\ pc[r] = "check" /\ pc' = [pc EXCEPT ![r] = "none"]
          /\ UNCHANGED <<phase, round, actingIndex, mem, at, asks, doubled>>
      BY <1>3 DEF CheckThrows, ending, turns
    <2>2. \A s \in Rounds : pc'[s] = pc[s] \/ (pc[s] # "turn" /\ pc'[s] = "none")
      BY <1>0, <2>1
    <2> QED BY <1>0, <2>1, <2>2, KeptEnds
  <1>4. CASE TurnAsks(r)
    <2> DEFINE m == at[r]
    <2> DEFINE x == [mem[m] EXCEPT !.status = "awaiting-approval"]
    <2>1. /\ mem' = [mem EXCEPT ![m] = x] /\ m \in Members /\ pc[r] = "turn"
          /\ UNCHANGED <<phase, actingIndex, pc, at, doubled>> /\ asks'[r] = "open"
      BY <1>0, <1>4 DEF TurnAsks, ending, control, InRound
    <2>2. x.status = InTurn(asks'[r]) BY <1>0, <2>1, AskingIsSound DEF InTurn
    <2>3. actingIndex = m /\ phase # "finished"
      BY <2>1 DEF EndInv, RoundInFlight, InRound
    <2>4. at[r] = m OBVIOUS
    <2> HIDE DEF m, x
    <2> QED BY <1>0, <1>1, <2>1, <2>2, <2>3, <2>4, MidTick
  <1>5. CASE LoopTop(r)
    <2>1. pc[r] = "delay" /\ actingIndex' = actingIndex /\ UNCHANGED turns BY <1>5 DEF LoopTop
    <2>2. CASE BeginRound(r, "loop", mem, {})
      <3>1. mem = OpenedMembers BY <1>1 DEF OpenedMembers
      <3>2. BeginRound(r, "loop", OpenedMembers, {}) BY <2>2, <3>1
      <3> QED BY <2>1, <3>2, BeginningEnds
    <2>3. CASE LeaveLoop /\ pc' = [pc EXCEPT ![r] = "none"]
      <3>1. /\ UNCHANGED <<round, mem, at>>
            /\ phase' \in {phase, "paused"} /\ (phase' = "finished" <=> phase = "finished")
        BY <2>3 DEF LeaveLoop
      <3>2. \A s \in Rounds : pc'[s] = pc[s] \/ (pc[s] # "turn" /\ pc'[s] = "none")
        BY <1>0, <2>1, <2>3
      <3>3. asks' = asks /\ doubled' = doubled BY <2>1 DEF turns
      <3> QED BY <1>0, <1>1, <2>1, <3>1, <3>2, <3>3, KeptEnds
    <2> QED BY <1>5, <2>2, <2>3 DEF LoopTop
  <1> QED BY <1>2, <1>3, <1>4, <1>5

(* What a turn that ends leaves: its member at rest, as everybody.         *)
LEMMA TurnEndsStretches ==
  ASSUME IInv, TurnInv, BudgetInv, SharedInv, EndInv, NEW r \in Rounds, TurnEnds(r)
  PROVE  \E x, after :
           /\ x \in Member /\ at[r] \in Members /\ actingIndex = at[r] /\ phase \in {"running", "paused"}
           /\ after = [mem EXCEPT ![at[r]] = x]
           /\ x.ticks = mem[at[r]].ticks /\ mem[at[r]].status = "running"
           /\ Sound(after) /\ Quiet(after) /\ \A m \in Members : after[m].status # "idle"
           /\ Stretched(r, at[r] + 1, phase, after) /\ SameTicks(after, mem')
           /\ doubled' = {} /\ \A s \in Rounds \ {r} : pc'[s] = "none"
  <1>0. /\ Sound(mem) /\ mem \in [Members -> Member] /\ pc[r] = "turn" /\ phase \in Phase
    BY DEF IInv, Sound, TurnEnds
  <1> DEFINE m == at[r]
  <1>1. m \in Members /\ mem[m] \in Member /\ mem[m].status = "running" /\ actingIndex = m
    BY <1>0 DEF IInv, CallsAreSound, TurnEnds, InRound, EndInv, InTurn
  <1>2. phase \in {"running", "paused"} /\ doubled' = {}
    BY <1>0 DEF EndInv, RoundInFlight, InRound, TurnInv, Phase, TurnEnds
  <1>3. PICK o \in TickOutcomes(mem[m], MaxTicks[m]) :
          Proceed(r, m + 1, phase, [mem EXCEPT ![m] = AfterTick(mem[m], o)],
                  {IF o = "none" THEN "tick.completed" ELSE "run.finished"})
    BY DEF TurnEnds
  <1>4. at[r] = m OBVIOUS
  <1> HIDE DEF m
  <1>5. o \in Outcome \cup {"none"} BY <1>3, TickOutcomesAreOutcomes
  <1> DEFINE x == AfterTick(mem[m], o)
  <1> DEFINE after == [mem EXCEPT ![m] = x]
  <1>6. /\ x \in Member
        /\ x.status = (IF o = "none" THEN "paused" ELSE "finished")
        /\ (o # "none" => x.outcome = o) /\ x.ticks = mem[m].ticks
    <2>1. x.ticks = mem[m].ticks BY <1>1 DEF AfterTick, Member
    <2> QED BY <1>1, <1>5, <2>1, TickIsSound
  <1>7. Proceed(r, m + 1, phase, after,
                {IF o = "none" THEN "tick.completed" ELSE "run.finished"})
    BY <1>3
  <1> HIDE DEF x
  <1>8. Sound(after) BY <1>0, <1>1, <1>5, <1>6, ReplacedIsSound
  <1>9. \A k \in Members : after[k] = IF k = m THEN x ELSE mem[k] BY <1>0
  <1>10. after = [mem EXCEPT ![m] = x] OBVIOUS
  <1> HIDE DEF after
  <1>11. Quiet(after) /\ \A k \in Members : after[k].status # "idle"
    <2>1. \A k \in Members \ {m} :
            mem[k].status \notin {"idle", "running", "awaiting-approval"}
      BY <1>1, <1>2 DEF EndInv
    <2> QED BY <1>6, <1>9, <2>1 DEF Quiet
  <1>12. Stretched(r, m + 1, phase, after) /\ SameTicks(after, mem')
    BY <1>2, <1>7, <1>8, <1>11, ProceedStretches
  <1>13. \A s \in Rounds \ {r} : pc'[s] = "none" BY <1>0, <1>7, OthersStay
  <1> QED BY <1>1, <1>2, <1>4, <1>6, <1>8, <1>10, <1>11, <1>12, <1>13

LEMMA TurnEndsEnds ==
  ASSUME IInv, TurnInv, BudgetInv, SharedInv, EndInv, NEW r \in Rounds, TurnEnds(r)
  PROVE  EndInv'
  <1>1. PICK after :
           /\ phase \in {"running", "paused"}
           /\ Quiet(after) /\ \A m \in Members : after[m].status # "idle"
           /\ Stretched(r, at[r] + 1, phase, after)
           /\ doubled' = {} /\ \A s \in Rounds \ {r} : pc'[s] = "none"
    BY TurnEndsStretches
  <1> QED BY <1>1, StretchEnds

(* A stop between turns finds everybody at rest; one in a turn finds its   *)
(* member running, and leaves it so.                                       *)
LEMMA StopIsPatient ==
  ASSUME Patient, IInv, TurnInv, BudgetInv, SharedInv, EndInv, Stop
  PROVE  \/ /\ phase \notin {"finished", "running"} /\ ~RoundInFlight /\ actingIndex = 0
            /\ FinishGroup("STOPPED_BY_USER", phase, mem, {}) /\ Quiet(mem)
            /\ phase' = "finished" /\ Ended(mem') /\ Quiet(mem') /\ SameTicks(mem, mem')
         \/ /\ phase' = phase /\ phase \in {"finished", "running"}
            /\ Endings(mem, mem') = {} /\ emitted' = {}
            /\ \A m \in Members :
                 mem'[m].status = mem[m].status /\ mem'[m].ticks = mem[m].ticks
  <1>0. /\ Sound(mem) /\ mem \in [Members -> Member]
        /\ actingIndex # 0 => actingIndex \in Members
    BY MembersAreNats DEF IInv, Sound, Members
  <1>1. /\ "stop-at-question" \notin Liberties /\ "stop-after-pause" \notin Liberties
    BY DEF Patient
  <1>2. ~RoundInFlight \/ (phase = "running" /\ ~QuestionOpen)
    BY <1>1 DEF Stop, MayStop
  <1> DEFINE mm == IF actingIndex = 0 THEN mem
                   ELSE [mem EXCEPT ![actingIndex] = StoppedMember(@)]
  <1>3. IF phase \in {"finished", "running"}
        THEN phase' = phase /\ mem' = mm /\ emitted' = Endings(mem, mm)
        ELSE FinishGroup("STOPPED_BY_USER", phase, mm, {})
    BY DEF Stop
  <1>4. CASE actingIndex = 0
    <2>1. mm = mem /\ Endings(mem, mem) = {} BY <1>4 DEF Endings
    <2>2. CASE phase \in {"finished", "running"} BY <1>3, <2>1, <2>2
    <2>3. CASE phase \notin {"finished", "running"}
      <3>1. ~RoundInFlight BY <1>2, <2>3
      <3>2. Quiet(mem) BY <3>1, NobodyActs DEF RoundInFlight, InRound
      <3>3. FinishGroup("STOPPED_BY_USER", phase, mem, {}) BY <1>3, <2>1, <2>3
      <3>4. phase' = "finished" /\ Ended(mem') /\ Quiet(mem') /\ SameTicks(mem, mem')
        BY <1>0, <2>3, <3>2, <3>3, FinishedQuietly
      <3> QED BY <1>4, <2>3, <3>1, <3>2, <3>3, <3>4
    <2> QED BY <2>2, <2>3
  <1>5. CASE actingIndex # 0
    <2> DEFINE m == actingIndex
    <2>1. RoundInFlight
      <3>1. \E r \in Rounds : pc[r] = "turn" BY <1>5 DEF SharedInv
      <3> QED BY <3>1 DEF RoundInFlight, InRound
    <2>2. phase = "running" /\ ~QuestionOpen BY <1>2, <2>1
    <2>3. m \in Members /\ mem[m].status = "running"
      <3>1. mem[m].status \in {"running", "awaiting-approval"} /\ m \in Members
        BY <1>0, <1>5 DEF SharedInv, EndInv, InTurn
      <3> QED BY <1>0, <2>2, <3>1 DEF QuestionOpen, Sound
    <2>4. mem[m] \in Member /\ StoppedMember(mem[m]) = [mem[m] EXCEPT !.told = TRUE]
      BY <1>0, <2>3, StoppedIsSound
    <2>5. mem' = [mem EXCEPT ![m] = [mem[m] EXCEPT !.told = TRUE]]
      BY <1>3, <1>5, <2>2, <2>4
    <2>6. \A k \in Members : mem'[k] = IF k = m THEN [mem[m] EXCEPT !.told = TRUE] ELSE mem[k]
      BY <1>0, <2>5
    <2>7. \A k \in Members : mem'[k].status = mem[k].status /\ mem'[k].ticks = mem[k].ticks
      BY <2>4, <2>6 DEF Member
    <2>8. Endings(mem, mem') = {} BY <2>7 DEF Endings
    <2>9. emitted' = {} /\ phase' = phase
      BY <1>3, <2>2, <2>8
    <2> QED BY <2>2, <2>7, <2>8, <2>9
  <1> QED BY <1>4, <1>5

(* start() on a group that has not begun: everybody is at rest.            *)
LEMMA OpensQuietly ==
  ASSUME IInv, TurnInv, SharedInv, EndInv, StartPlayIdly \/ StartStep, phase = "idle"
  PROVE  /\ phase' = "paused" /\ mem' = OpenedMembers /\ actingIndex' = 0 /\ actingIndex = 0
         /\ UNCHANGED <<pc, at, round, asks, doubled>> /\ \A r \in Rounds : pc[r] = "none"
         /\ Quiet(mem') /\ SameTicks(mem, mem')
         /\ \A m \in Members : mem'[m].status \notin {"idle", "finished"}
  <1>1. (\A r \in Rounds : pc[r] = "none") /\ actingIndex = 0 /\ Quiet(mem)
    BY NobodyActs DEF TurnInv
  <1>2. /\ phase' = "paused" /\ mem' = OpenedMembers /\ UNCHANGED <<actingIndex, pc, at, round, asks, doubled>>
    BY DEF StartPlayIdly, StartStep, OpenedPhase, calls, turns
  <1>3. \A m \in Members : mem[m].status # "finished" BY DEF EndInv
  <1> QED BY <1>1, <1>2, <1>3, OpenedQuietly

LEMMA HostEnds ==
  ASSUME Patient, IInv, TurnInv, BudgetInv, SharedInv, EndInv, Host
  PROVE  EndInv'
  <1>0. /\ mem \in [Members -> Member] /\ Sound(mem)
        /\ \A s \in Rounds : InRound(s) => at[s] \in Members
    BY DEF IInv, CallsAreSound, Sound
  <1>1. ASSUME NEW r \in Rounds, StartPlay(r) \/ StepRound(r) PROVE EndInv'
    <2>1. (\A s \in Rounds : pc[s] = "none") /\ UNCHANGED turns
          /\ \E d : BeginRound(r, d, OpenedMembers, Opening)
      BY <1>1, NoCallYet DEF StartPlay, StepRound
    <2> QED BY <2>1, BeginningEnds
  (* The calls and the members are left alone. *)
  <1>2. ASSUME phase' = "finished" <=> phase = "finished", phase' = "idle" <=> phase = "idle",
               UNCHANGED <<mem, round, actingIndex, pc, at, asks, doubled>>
        PROVE  EndInv'
    BY <1>0, <1>2, KeptEnds
  <1>3. CASE (StartPlayIdly \/ StartStep) /\ phase = "idle"
    <2>1. /\ phase' = "paused" /\ doubled' = doubled /\ UNCHANGED <<pc, at>> /\ \A r \in Rounds : pc[r] = "none"
          /\ Quiet(mem') /\ \A m \in Members : mem'[m].status # "idle"
      BY <1>3, OpensQuietly
    <2> QED BY <2>1 DEF EndInv, Quiet
  <1>4. CASE StartPlayIdly /\ phase # "idle"
    BY <1>2, <1>4 DEF StartPlayIdly, OpenedPhase, OpenedMembers, calls, turns
  <1>5. CASE Pause BY <1>2, <1>5 DEF Pause, calls, turns
  <1>6. CASE DeliverInput BY <1>2, <1>6 DEF DeliverInput, ending, calls, turns
  <1>7. CASE Stop
    <2>1. UNCHANGED <<round, actingIndex, pc, at, asks, doubled>> BY <1>7 DEF Stop, calls, turns
    <2>2. CASE /\ phase' = phase
               /\ \A m \in Members : mem'[m].status = mem[m].status /\ mem'[m].ticks = mem[m].ticks
      BY <1>0, <2>1, <2>2, KeptEnds
    <2>3. CASE ~RoundInFlight /\ phase' = "finished" /\ Ended(mem') /\ Quiet(mem')
      BY <2>1, <2>3 DEF EndInv, RoundInFlight, InRound, Ended, Quiet
    <2> QED BY <1>7, <2>2, <2>3, StopIsPatient
  <1>8. ASSUME NEW r \in Rounds, ResolveApproval(r) PROVE EndInv'
    <2> DEFINE m == at[r]
    <2> DEFINE x == [mem[m] EXCEPT !.status = "running"]
    <2>1. /\ mem' = [mem EXCEPT ![m] = x] /\ pc[r] = "turn" /\ asks'[r] = "answered"
          /\ UNCHANGED <<phase, actingIndex, pc, at, doubled>>
      BY <1>8 DEF ResolveApproval, ending, control, TurnInv, IInv, TurnsAreTyped
    <2>2. m \in Members /\ mem[m] \in Member BY <1>0, <2>1 DEF InRound
    <2>3. x.status = InTurn(asks'[r]) BY <2>1, <2>2, AskingIsSound DEF InTurn
    <2>4. actingIndex = m /\ doubled = {} /\ phase # "finished" /\ phase # "idle"
      BY <2>1 DEF EndInv, RoundInFlight, InRound, TurnInv
    <2>5. \A s \in Rounds \ {r} : pc[s] = "none" BY <2>1, OneCall
    <2>6. at[r] = m OBVIOUS
    <2> HIDE DEF m, x
    <2> QED BY <2>1, <2>2, <2>3, <2>4, <2>5, <2>6, MidTick
  <1> QED BY <1>1, <1>3, <1>4, <1>5, <1>6, <1>7, <1>8 DEF Host, StartStep

LEMMA EndStep ==
  Patient /\ IInv /\ TurnInv /\ BudgetInv /\ SharedInv /\ EndInv /\ [Next]_vars => EndInv'
  <1> SUFFICES ASSUME Patient, IInv, TurnInv, BudgetInv, SharedInv, EndInv, [Next]_vars PROVE EndInv'
    OBVIOUS
  <1>1. CASE Host BY <1>1, HostEnds
  <1>2. ASSUME NEW r \in Rounds, Advance(r) PROVE EndInv'
    BY <1>2, RoundEnds, TurnEndsEnds DEF Advance
  <1>3. CASE UNCHANGED vars
    <2>1. UNCHANGED <<phase, round, actingIndex, mem, pc, at, asks, doubled>>
      BY <1>3 DEF vars, ending, calls, turns
    <2>2. \A s \in Rounds : InRound(s) => at[s] \in Members BY DEF IInv, CallsAreSound
    <2> QED BY <2>1, <2>2, KeptEnds
  <1> QED BY <1>1, <1>2, <1>3 DEF Next

(* What a patient host may count on, as one. *)
PatientInv == IInv /\ TurnInv /\ BudgetInv /\ SharedInv /\ EndInv

LEMMA PatientStep == Patient /\ PatientInv /\ [Next]_vars => PatientInv'
  <1>1. Patient => "round-over" \notin Liberties /\ "stop-at-question" \notin Liberties
    BY DEF Patient
  <1> QED BY <1>1, NextInv, BudgetStep, SharedStep, EndStep DEF PatientInv, Kept

LEMMA InitPatient == Init => PatientInv
  <1> SUFFICES ASSUME Init PROVE PatientInv
    OBVIOUS
  <1>1. \A m \in Members : mem[m].status = "idle" /\ mem[m].ticks = 0
    BY DEF Init
  <1>2. SharedInv BY <1>1 DEF Init, SharedInv, Recorded, GoingOn
  <1>3. EndInv BY <1>1 DEF Init, EndInv
  <1>4. BudgetInv BY GroupAssumption DEF Init, BudgetInv, GroupBudgetsHold
  <1> QED BY <1>2, <1>3, <1>4, InitInv DEF PatientInv

(* group.finished is written by the step that ends the group.              *)
LEMMA ProceedAnnounces ==
  ASSUME NEW r, NEW from, NEW ph, NEW mm, NEW before,
         \/ Proceed(r, from, ph, mm, before)
         \/ \E o : FinishGroup(o, ph, mm, before),
         "group.finished" \notin before, "group.finished" \in emitted'
  PROVE  phase' = "finished"
  BY DEF Proceed, FinishGroup

LEMMA BeginRoundAnnounces ==
  ASSUME NEW r, NEW d, NEW mm, NEW before, BeginRound(r, d, mm, before),
         "group.finished" \notin before, "group.finished" \in emitted'
  PROVE  phase' = "finished"
  BY ProceedAnnounces DEF BeginRound

LEMMA EndingIsAnnounced ==
  ASSUME Next, "group.finished" \in emitted'
  PROVE  phase' = "finished"
  <1>1. ASSUME NEW r \in Rounds, StartPlay(r) \/ StepRound(r) PROVE phase' = "finished"
    <2>1. \E d : BeginRound(r, d, OpenedMembers, Opening) BY <1>1 DEF StartPlay, StepRound
    <2>2. "group.finished" \notin Opening BY DEF Opening
    <2> QED BY <2>1, <2>2, BeginRoundAnnounces
  <1>2. CASE Stop
    <2>1. \A mm, after : "group.finished" \notin Endings(mm, after) BY DEF Endings
    <2>2. CASE phase \in {"finished", "running"} BY <1>2, <2>1, <2>2 DEF Stop
    <2>3. CASE phase \notin {"finished", "running"}
      <3>1. \E mm : FinishGroup("STOPPED_BY_USER", phase, mm, {}) BY <1>2, <2>3 DEF Stop
      <3> QED BY <3>1, ProceedAnnounces
    <2> QED BY <2>2, <2>3
  <1>3. ASSUME NEW r \in Rounds, Checked(r) PROVE phase' = "finished"
    <2>1. CASE emitted' = {"guardrail.checked", "tick.started"} BY <2>1
    <2>2. CASE FinishGroup("STOPPED_BY_GUARDRAIL", phase, mem, {"guardrail.checked"})
      BY <2>2, ProceedAnnounces
    <2>3. CASE Proceed(r, at[r] + 1, phase, mem, {"guardrail.checked"})
      BY <2>3, ProceedAnnounces
    <2> QED BY <1>3, <2>1, <2>2, <2>3 DEF Checked, TakeTurn
  <1>4. ASSUME NEW r \in Rounds, TurnEnds(r) PROVE phase' = "finished"
    <2>1. \E o, mm :
            Proceed(r, at[r] + 1, phase, mm,
                    {IF o = "none" THEN "tick.completed" ELSE "run.finished"})
      BY <1>4 DEF TurnEnds
    <2> QED BY <2>1, ProceedAnnounces
  <1>5. ASSUME NEW r \in Rounds, LoopTop(r) PROVE phase' = "finished"
    BY <1>5, BeginRoundAnnounces DEF LoopTop
  <1>6. CASE StartPlayIdly \/ StartStep BY <1>6 DEF StartPlayIdly, StartStep, Opening
  <1>7. CASE Pause \/ DeliverInput BY <1>7 DEF Pause, DeliverInput
  <1>8. ASSUME NEW r \in Rounds PROVE ~ResolveApproval(r) BY DEF ResolveApproval
  <1>9. ASSUME NEW r \in Rounds PROVE ~CheckThrows(r) /\ ~TurnAsks(r)
    BY DEF CheckThrows, TurnAsks
  <1> QED BY <1>1, <1>2, <1>3, <1>4, <1>5, <1>6, <1>7, <1>8, <1>9 DEF Next, Host, Advance

(* Nothing a group that has ended does is heard.                           *)
LEMMA NothingFollows ==
  ASSUME Patient, PatientInv, Next, phase = "finished"
  PROVE  emitted' = {}
  <1>0. IInv /\ TurnInv /\ BudgetInv /\ SharedInv /\ EndInv BY DEF PatientInv
  <1>1. Ended(mem) /\ \A r \in Rounds : pc[r] \notin {"check", "turn"}
    BY <1>0 DEF EndInv, RoundInFlight, InRound
  <1>2. ASSUME NEW r \in Rounds, Advance(r) PROVE emitted' = {}
    BY <1>1, <1>2 DEF Advance, Checked, CheckThrows, TurnAsks, TurnEnds, LoopTop, LoopGoesOn
  <1>3. CASE Stop BY <1>0, <1>3, StopIsPatient
  <1>4. CASE Pause BY <1>4 DEF Pause
  <1>5. ~DeliverInput BY <1>1 DEF DeliverInput
  <1>6. \A r \in Rounds : ~ResolveApproval(r)
    BY <1>0, <1>1 DEF ResolveApproval, TurnInv
  <1>7. /\ ~StartPlayIdly /\ ~StartStep
        /\ \A r \in Rounds : ~StartPlay(r) /\ ~StepRound(r)
    BY DEF StartPlayIdly, StartStep, StartPlay, StepRound
  <1> QED BY <1>2, <1>3, <1>4, <1>5, <1>6, <1>7 DEF Next, Host

(* group.finished comes once and last, when every run has ended, where the *)
(* host waits for rounds to end and stops neither a paused round nor a     *)
(* turn that waits for a person (session-group.ts, finishGroup); its       *)
(* guardrails may throw.                                                   *)
THEOREM TheEndComesLast == Patient => (Spec => GroupFinishedIsLast)
  <1> SUFFICES ASSUME Patient PROVE Spec => GroupFinishedIsLast
    OBVIOUS
  <1>1. PatientInv /\ [Next]_vars => PatientInv' BY PatientStep
  <1>2. PatientInv /\ [Next]_vars =>
          [/\ "group.finished" \in emitted' => Ended(mem')
           /\ phase = "finished" => emitted' = {}]_vars
    <2>1. ASSUME PatientInv, Next, "group.finished" \in emitted' PROVE Ended(mem')
      <3>1. PatientInv' BY <2>1, PatientStep
      <3>2. phase' = "finished" BY <2>1, EndingIsAnnounced
      <3> QED BY <3>1, <3>2 DEF PatientInv, EndInv
    <2>2. ASSUME PatientInv, Next, phase = "finished" PROVE emitted' = {}
      BY <2>2, NothingFollows
    <2> QED BY <2>1, <2>2
  <1> QED BY <1>1, <1>2, InitPatient, PTL DEF Spec, GroupFinishedIsLast
-----------------------------------------------------------------------------
(* The round robin.  With guardrails that do not throw, whoever is in has  *)
(* had as many turns as the round says: one less than the round's number   *)
(* while the own turn is still to come.                                    *)
Orderly == Patient /\ "guardrail-throws" \notin Liberties

TickInv ==
  /\ \A r \in Rounds : InRound(r) =>
       \A m \in Live :
         Taken[m] = IF m < at[r] \/ (m = at[r] /\ pc[r] = "turn") THEN round ELSE round - 1
  /\ ~RoundInFlight /\ phase # "finished" => \A m \in Live : Taken[m] = round

(* The members' turns as a round that has come to `from` finds them.       *)
Served(from, n, mm) ==
  \A m \in Members : mm[m].status # "finished" =>
    mm[m].ticks = IF m < from THEN n ELSE n - 1

LEMMA StretchServes ==
  ASSUME NEW r \in Rounds, NEW from, from \in Nat, NEW ph, NEW mm,
         \A s \in Rounds \ {r} : pc'[s] = "none",
         EndedAt(r) \/ (Stretched(r, from, ph, mm) /\ Served(from, round', mm))
  PROVE  TickInv'
  <1>1. CASE EndedAt(r)
    BY <1>1 DEF EndedAt, TickInv, InRound, RoundInFlight
  <1>2. CASE /\ mem' = mm /\ pc'[r] = "check" /\ Served(from, round', mm)
             /\ at'[r] \in Left(from, mm) /\ \A m \in Left(from, mm) : at'[r] <= m
    <2>1. RoundInFlight' BY <1>2 DEF RoundInFlight, InRound
    <2>2. ASSUME NEW s \in Rounds, InRound(s)', NEW m \in Live'
          PROVE  Taken'[m] = IF m < at'[s] \/ (m = at'[s] /\ pc'[s] = "turn")
                             THEN round' ELSE round' - 1
      <3>1. s = r BY <2>2 DEF InRound
      <3>2. m \in Members /\ mm[m].status # "finished" /\ Taken'[m] = mm[m].ticks
        BY <1>2, <2>2 DEF Live, Taken
      <3>3. at'[r] \in Members /\ at'[r] >= from BY <1>2 DEF Left
      <3>4. m < at'[r] <=> m < from
        <4>1. m >= from => at'[r] <= m BY <1>2, <3>2 DEF Left
        <4>2. m \in Nat /\ at'[r] \in Nat BY <3>2, <3>3, MembersAreNats
        <4> QED BY <3>3, <4>1, <4>2
      <3> QED BY <1>2, <3>1, <3>2, <3>4 DEF Served
    <2> QED BY <2>1, <2>2 DEF TickInv
  <1>3. CASE /\ mem' = mm /\ pc'[r] \in {"none", "delay"} /\ Left(from, mm) = {}
             /\ Served(from, round', mm)
    <2>1. \A s \in Rounds : ~InRound(s)' BY <1>3 DEF InRound
    <2>2. ASSUME NEW m \in Live' PROVE Taken'[m] = round'
      <3>1. m \in Members /\ mm[m].status # "finished" /\ Taken'[m] = mm[m].ticks
        BY <1>3, <2>2 DEF Live, Taken
      <3>2. m < from BY <1>3, <3>1, MembersAreNats DEF Left
      <3> QED BY <1>3, <3>1, <3>2 DEF Served
    <2> QED BY <2>1, <2>2 DEF TickInv
  <1> QED BY <1>1, <1>2, <1>3 DEF Stretched

(* What leaves turns, rounds and whoever is in as they were.               *)
LEMMA KeptTicks ==
  ASSUME TickInv, round' = round, at' = at, Live' = Live, Taken' = Taken,
         phase' = "finished" <=> phase = "finished",
         \A s \in Rounds : pc'[s] = pc[s] \/ (pc[s] = "delay" /\ pc'[s] = "none")
  PROVE  TickInv'
  <1>1. RoundInFlight' = RoundInFlight /\ \A s \in Rounds : InRound(s)' = InRound(s)
    BY DEF RoundInFlight, InRound
  <1> QED BY <1>1 DEF TickInv, InRound

(* A round begins with everybody who is in on the same number of turns.    *)
LEMMA BeginningServes ==
  ASSUME PatientInv, TickInv, NEW r \in Rounds, NEW d, NEW before,
         BeginRound(r, d, OpenedMembers, before), phase # "finished",
         pc[r] \notin {"check", "turn"}, pc[r] # "none" \/ \A s \in Rounds : pc[s] = "none"
  PROVE  TickInv'
  <1>0. IInv /\ TurnInv /\ BudgetInv /\ SharedInv /\ EndInv /\ round \in Nat BY DEF PatientInv, IInv
  <1>1. \A s \in Rounds : pc[s] \notin {"check", "turn"} BY <1>0, OneCall
  <1>2. ~RoundInFlight /\ Quiet(mem) BY <1>0, <1>1, NobodyActs DEF RoundInFlight, InRound
  <1> DEFINE mm == OpenedMembers
  <1>3. /\ Quiet(mm) /\ Sound(mm) /\ SameTicks(mem, mm)
        /\ \A m \in Members : mm[m].status = "finished" <=> mem[m].status = "finished"
    BY <1>0, <1>2, OpenedQuietly, OpenedIsSound
  <1>4. BeginRound(r, d, mm, before) OBVIOUS
  <1> HIDE DEF mm
  <1>5. \/ EndedAt(r)
        \/ Stretched(r, 1, "running", mm) /\ round' = round + 1
    BY <1>0, <1>3, <1>4, BeginRoundStretches
  <1>6. \A s \in Rounds \ {r} : pc'[s] = "none" BY <1>0, <1>4, OthersStay
  <1>7. round' = round + 1 => Served(1, round', mm)
    <2> SUFFICES ASSUME round' = round + 1, NEW m \in Members, mm[m].status # "finished"
                 PROVE  mm[m].ticks = IF m < 1 THEN round' ELSE round' - 1
      BY DEF Served
    <2>1. mm[m].ticks = round
      <3>1. m \in Live /\ Taken[m] = mem[m].ticks BY <1>3 DEF Live, Taken
      <3>2. Taken[m] = round BY <1>2, <3>1 DEF TickInv
      <3> QED BY <1>3, <3>1, <3>2 DEF SameTicks
    <2>2. m \in Nat /\ ~(m < 1) BY GroupAssumption DEF Members
    <2> QED BY <1>0, <2>1, <2>2
  <1> QED BY <1>5, <1>6, <1>7, StretchServes

LEMMA CheckedServes ==
  ASSUME PatientInv, TickInv, NEW r \in Rounds, Checked(r)
  PROVE  TickInv'
  <1>0. /\ IInv /\ TurnInv /\ BudgetInv /\ SharedInv /\ EndInv /\ round \in Nat
        /\ pc \in [Rounds -> {"none", "check", "turn", "delay"}]
        /\ mem \in [Members -> Member] /\ Sound(mem) /\ pauseRequested \in BOOLEAN
        /\ seen \in [Rounds -> Nat]
    BY DEF PatientInv, IInv, CallsAreSound, Sound
  <1>1. pc[r] = "check" /\ round' = round /\ at[r] \in Members /\ mem[at[r]].status # "finished"
    BY <1>0 DEF Checked, EndInv, IInv, CallsAreSound, InRound
  <1>2. \A s \in Rounds \ {r} : pc[s] = "none" BY <1>0, <1>1, OneCall
  <1>3. phase # "finished" BY <1>0, <1>1 DEF EndInv, RoundInFlight, InRound
  <1>4. CASE FinishGroup("STOPPED_BY_GUARDRAIL", phase, mem, {"guardrail.checked"}) /\ Return(r)
    <2>1. Quiet(mem) BY <1>0, <1>1, <1>2, NobodyActs
    <2>2. EndedAt(r)
      <3>1. pc'[r] \in {"none", "delay"} BY <1>0, <1>4, ReturnIsSound
      <3> QED BY <1>0, <1>3, <1>4, <2>1, <3>1, FinishedQuietly DEF EndedAt
    <2>3. \A s \in Rounds \ {r} : pc'[s] = "none" BY <1>0, <1>1, <1>4, OthersStay
    <2> QED BY <2>2, <2>3 DEF EndedAt, TickInv, InRound, RoundInFlight
  <1>5. CASE TakeTurn(r)
    <2>0. /\ pc' = [pc EXCEPT ![r] = "turn"] /\ at' = at
          /\ mem' = [mem EXCEPT ![at[r]] = InTick(@)]
      BY <1>5 DEF TakeTurn
    <2>1. pc'[r] = "turn" /\ \A s \in Rounds \ {r} : pc'[s] = "none" BY <1>0, <1>2, <2>0
    <2>2. \A m \in Members :
            /\ mem'[m].ticks = IF m = at[r] THEN mem[m].ticks + 1 ELSE mem[m].ticks
            /\ mem'[m].status = "finished" <=> mem[m].status = "finished"
      <3> DEFINE x == InTick(mem[at[r]])
      <3>1. x.ticks = mem[at[r]].ticks + 1 /\ x.status = "running"
        <4>1. mem[at[r]] \in Member BY <1>0, <1>1
        <4> QED BY <4>1 DEF InTick, Member
      <3>2. mem' = [mem EXCEPT ![at[r]] = x] BY <2>0
      <3> HIDE DEF x
      <3>3. \A m \in Members : mem'[m] = IF m = at[r] THEN x ELSE mem[m] BY <1>0, <3>2
      <3> QED BY <1>1, <3>1, <3>3
    <2>3. RoundInFlight' BY <2>1 DEF RoundInFlight, InRound
    <2>4. ASSUME NEW s \in Rounds, InRound(s)', NEW m \in Live'
          PROVE  Taken'[m] = IF m < at'[s] \/ (m = at'[s] /\ pc'[s] = "turn")
                             THEN round' ELSE round' - 1
      <3>1. s = r BY <2>1, <2>4 DEF InRound
      <3>2. m \in Live /\ m \in Members BY <2>2, <2>4 DEF Live
      <3>3. Taken[m] = IF m < at[r] THEN round ELSE round - 1
        BY <1>1, <3>2 DEF TickInv, InRound
      <3>4. Taken'[m] = IF m = at[r] THEN Taken[m] + 1 ELSE Taken[m]
        BY <2>2, <3>2 DEF Taken
      <3>5. m \in Nat /\ at[r] \in Nat BY <1>1, <3>2, MembersAreNats
      <3>6. Taken'[m] = IF m < at[r] \/ m = at[r] THEN round ELSE round - 1
        BY <1>0, <3>3, <3>4, <3>5
      <3> QED BY <1>1, <2>0, <2>1, <3>1, <3>6
    <2> QED BY <2>3, <2>4 DEF TickInv
  <1> QED BY <1>1, <1>4, <1>5 DEF Checked

LEMMA TurnEndsServes ==
  ASSUME PatientInv, TickInv, NEW r \in Rounds, TurnEnds(r)
  PROVE  TickInv'
  <1>0. IInv /\ TurnInv /\ BudgetInv /\ SharedInv /\ EndInv /\ round \in Nat /\ mem \in [Members -> Member]
    BY DEF PatientInv, IInv, Sound
  <1>1. pc[r] = "turn" /\ round' = round BY DEF TurnEnds
  <1>2. PICK x, after :
           /\ x \in Member /\ at[r] \in Members /\ after = [mem EXCEPT ![at[r]] = x]
           /\ x.ticks = mem[at[r]].ticks /\ mem[at[r]].status = "running"
           /\ Stretched(r, at[r] + 1, phase, after)
           /\ \A s \in Rounds \ {r} : pc'[s] = "none"
    BY <1>0, TurnEndsStretches
  <1>3. Served(at[r] + 1, round', after)
    <2> SUFFICES ASSUME NEW m \in Members, after[m].status # "finished"
                 PROVE  after[m].ticks = IF m < at[r] + 1 THEN round' ELSE round' - 1
      BY DEF Served
    <2>1. after[m] = IF m = at[r] THEN x ELSE mem[m] BY <1>0, <1>2
    <2>2. after[m].ticks = Taken[m] /\ m \in Live BY <1>2, <2>1 DEF Taken, Live
    <2>3. Taken[m] = IF m < at[r] \/ m = at[r] THEN round ELSE round - 1
      BY <1>1, <2>2 DEF TickInv, InRound
    <2>4. m \in Nat /\ at[r] \in Nat BY <1>2, MembersAreNats
    <2> QED BY <1>1, <2>2, <2>3, <2>4
  <1>4. at[r] + 1 \in Nat
    <2>1. at[r] \in Nat BY <1>2, MembersAreNats
    <2> QED BY <2>1
  <1> QED BY <1>2, <1>3, <1>4, StretchServes

(* What the other steps leave of the turns.                                *)
LEMMA SameTurns ==
  ASSUME \A m \in Members : /\ mem'[m].ticks = mem[m].ticks
                            /\ mem'[m].status = "finished" <=> mem[m].status = "finished"
  PROVE  Live' = Live /\ Taken' = Taken
  BY DEF Live, Taken

LEMMA QuietSteps ==
  ASSUME Patient, PatientInv,
         \/ \E r \in Rounds : TurnAsks(r) \/ (LoopTop(r) /\ LeaveLoop)
         \/ StartPlayIdly \/ StartStep \/ Pause \/ DeliverInput
         \/ Stop /\ phase' = phase
         \/ \E r \in Rounds : ResolveApproval(r)
  PROVE  Live' = Live /\ Taken' = Taken
  <1>0. IInv /\ TurnInv /\ BudgetInv /\ SharedInv /\ EndInv /\ mem \in [Members -> Member]
    BY DEF PatientInv, IInv, Sound
  (* One member's status changes, between running and waiting. *)
  <1>1. ASSUME NEW m \in Members, NEW x, mem' = [mem EXCEPT ![m] = x],
               x.ticks = mem[m].ticks, x.status = "finished" <=> mem[m].status = "finished"
        PROVE  Live' = Live /\ Taken' = Taken
    <2>1. \A k \in Members : mem'[k] = IF k = m THEN x ELSE mem[k] BY <1>0, <1>1
    <2>2. \A k \in Members : /\ mem'[k].ticks = mem[k].ticks
                             /\ mem'[k].status = "finished" <=> mem[k].status = "finished"
      BY <1>1, <2>1
    <2> QED BY <2>2, SameTurns
  <1>2. ASSUME NEW r \in Rounds, TurnAsks(r) PROVE Live' = Live /\ Taken' = Taken
    <2> DEFINE m == at[r]
    <2> DEFINE x == [mem[m] EXCEPT !.status = "awaiting-approval"]
    <2>1. m \in Members /\ mem[m] \in Member /\ mem[m].status # "finished"
      BY <1>0, <1>2 DEF TurnAsks, IInv, CallsAreSound, InRound, EndInv, InTurn
    <2>2. x.ticks = mem[m].ticks /\ x.status = "awaiting-approval" BY <2>1 DEF Member
    <2>3. mem' = [mem EXCEPT ![m] = x] BY <1>2 DEF TurnAsks
    <2> HIDE DEF m, x
    <2> QED BY <1>1, <2>1, <2>2, <2>3
  <1>3. ASSUME NEW r \in Rounds, ResolveApproval(r) PROVE Live' = Live /\ Taken' = Taken
    <2> DEFINE m == at[r]
    <2> DEFINE x == [mem[m] EXCEPT !.status = "running"]
    <2>0. pc[r] = "turn" BY <1>0, <1>3 DEF ResolveApproval, TurnInv
    <2>1. m \in Members /\ mem[m] \in Member /\ mem[m].status # "finished"
      BY <1>0, <2>0 DEF IInv, CallsAreSound, InRound, EndInv, InTurn
    <2>2. x.ticks = mem[m].ticks /\ x.status = "running" BY <2>1 DEF Member
    <2>3. mem' = [mem EXCEPT ![m] = x] BY <1>3 DEF ResolveApproval
    <2> HIDE DEF m, x
    <2> QED BY <1>1, <2>1, <2>2, <2>3
  <1>4. CASE mem' = mem BY <1>4, SameTurns
  <1>5. CASE (StartPlayIdly \/ StartStep) /\ phase = "idle"
    <2>1. /\ SameTicks(mem, mem') /\ \A m \in Members : mem'[m].status # "finished"
      BY <1>0, <1>5, OpensQuietly
    <2>2. \A m \in Members : mem[m].status = "idle" BY <1>0, <1>5 DEF EndInv
    <2> QED BY <2>1, <2>2, SameTurns DEF SameTicks
  <1>6. CASE Stop /\ phase' = phase
    <2>1. \A m \in Members : mem'[m].status = mem[m].status /\ mem'[m].ticks = mem[m].ticks
      BY <1>0, <1>6, StopIsPatient
    <2> QED BY <2>1, SameTurns
  <1>7. CASE StartPlayIdly /\ phase # "idle"
    BY <1>4, <1>7 DEF StartPlayIdly, OpenedMembers
  <1>8. CASE Pause \/ DeliverInput BY <1>4, <1>8 DEF Pause, DeliverInput
  <1>9. CASE LeaveLoop BY <1>4, <1>9 DEF LeaveLoop
  <1> QED BY <1>2, <1>3, <1>5, <1>6, <1>7, <1>8, <1>9 DEF StartStep

LEMMA TickStep ==
  ASSUME Orderly, PatientInv, TickInv, [Next]_vars
  PROVE  TickInv'
  <1>0. /\ IInv /\ TurnInv /\ BudgetInv /\ SharedInv /\ EndInv /\ Patient /\ phase \in Phase
        /\ pc \in [Rounds -> {"none", "check", "turn", "delay"}]
    BY DEF PatientInv, Orderly, IInv, CallsAreSound
  <1>1. ASSUME NEW r \in Rounds, StartPlay(r) \/ StepRound(r) PROVE TickInv'
    <2>1. /\ \E d : BeginRound(r, d, OpenedMembers, Opening)
          /\ phase # "finished" /\ \A s \in Rounds : pc[s] = "none"
      BY <1>0, <1>1, NoCallYet DEF StartPlay, StepRound
    <2> QED BY <2>1, BeginningServes
  <1>2. ASSUME NEW r \in Rounds, LoopTop(r) PROVE TickInv'
    <2>1. pc[r] = "delay" /\ phase # "idle" BY <1>0, <1>2 DEF LoopTop, TurnInv
    <2>2. CASE LoopGoesOn /\ BeginRound(r, "loop", mem, {})
      <3>1. mem = OpenedMembers /\ phase # "finished"
        BY <2>1, <2>2 DEF OpenedMembers, LoopGoesOn
      <3>2. BeginRound(r, "loop", OpenedMembers, {}) BY <2>2, <3>1
      <3> QED BY <2>1, <3>1, <3>2, BeginningServes
    <2>3. CASE LeaveLoop /\ pc' = [pc EXCEPT ![r] = "none"]
      <3>1. /\ round' = round /\ at' = at /\ (phase' = "finished" <=> phase = "finished")
        BY <2>3 DEF LeaveLoop
      <3>2. \A s \in Rounds : pc'[s] = pc[s] \/ (pc[s] = "delay" /\ pc'[s] = "none")
        BY <1>0, <2>1, <2>3
      <3>3. Live' = Live /\ Taken' = Taken BY <1>0, <1>2, <2>3, QuietSteps
      <3> QED BY <3>1, <3>2, <3>3, KeptTicks
    <2> QED BY <1>2, <2>2, <2>3 DEF LoopTop
  <1>3. ASSUME round' = round, at' = at, pc' = pc, phase' = "finished" <=> phase = "finished",
               Live' = Live, Taken' = Taken
        PROVE  TickInv'
    BY <1>3, KeptTicks
  <1>4. ASSUME NEW r \in Rounds, TurnAsks(r) PROVE TickInv'
    <2>1. Live' = Live /\ Taken' = Taken BY <1>0, <1>4, QuietSteps
    <2> QED BY <1>3, <1>4, <2>1 DEF TurnAsks, ending, calls
  <1>5. CASE Stop
    <2>1. round' = round /\ at' = at /\ pc' = pc BY <1>5 DEF Stop, calls
    <2>2. CASE phase' = phase
      <3>1. Live' = Live /\ Taken' = Taken BY <1>0, <1>5, <2>2, QuietSteps
      <3> QED BY <1>3, <2>1, <2>2, <3>1
    <2>3. CASE phase' = "finished" /\ ~RoundInFlight
      BY <2>1, <2>3 DEF TickInv, RoundInFlight, InRound
    <2> QED BY <1>0, <1>5, <2>2, <2>3, StopIsPatient
  <1>6. CASE StartPlayIdly \/ StartStep
    <2>1. round' = round /\ at' = at /\ pc' = pc BY <1>6 DEF StartPlayIdly, StartStep, calls
    <2>2. Live' = Live /\ Taken' = Taken BY <1>0, <1>6, QuietSteps
    <2>3. phase # "finished" /\ phase' # "finished"
      BY <1>6 DEF StartPlayIdly, StartStep, OpenedPhase
    <2> QED BY <1>3, <2>1, <2>2, <2>3
  <1>7. CASE Pause \/ DeliverInput
    <2>1. Live' = Live /\ Taken' = Taken BY <1>0, <1>7, QuietSteps
    <2>2. /\ round' = round /\ at' = at /\ pc' = pc
          /\ phase' = "finished" <=> phase = "finished"
      BY <1>7 DEF Pause, DeliverInput, ending, calls
    <2> QED BY <1>3, <2>1, <2>2
  <1>8. ASSUME NEW r \in Rounds, ResolveApproval(r) PROVE TickInv'
    <2>1. Live' = Live /\ Taken' = Taken BY <1>0, <1>8, QuietSteps
    <2> QED BY <1>3, <1>8, <2>1 DEF ResolveApproval, ending, calls
  <1>9. CASE UNCHANGED vars
    BY <1>3, <1>9 DEF vars, ending, calls, Live, Taken
  <1>10. \A r \in Rounds : ~CheckThrows(r) BY DEF Orderly, CheckThrows
  <1> QED BY <1>1, <1>2, <1>4, <1>5, <1>6, <1>7, <1>8, <1>9, <1>10, CheckedServes, TurnEndsServes
      DEF Next, Host, Advance

(* Whose turn it is, by the calls.                                         *)
LEMMA ActingIs ==
  ASSUME NEW r \in Rounds, \A s \in Rounds \ {r} : pc[s] # "turn"
  PROVE  Acting = IF pc[r] = "turn" THEN at[r] ELSE 0
  <1>1. CASE pc[r] = "turn"
    <2>1. TurnOf = {at[r]} BY <1>1 DEF TurnOf
    <2>2. (CHOOSE m \in {at[r]} : TRUE) = at[r] OBVIOUS
    <2> QED BY <1>1, <2>1, <2>2 DEF Acting
  <1>2. CASE pc[r] # "turn"
    <2>1. TurnOf = {} BY <1>2 DEF TurnOf
    <2> QED BY <1>2, <2>1 DEF Acting
  <1> QED BY <1>1, <1>2

LEMMA ActingWillBe ==
  ASSUME NEW r \in Rounds, \A s \in Rounds \ {r} : pc'[s] # "turn"
  PROVE  Acting' = IF pc'[r] = "turn" THEN at'[r] ELSE 0
  <1>1. CASE pc'[r] = "turn"
    <2>1. TurnOf' = {at'[r]} BY <1>1 DEF TurnOf
    <2>2. (CHOOSE m \in {at'[r]} : TRUE) = at'[r] OBVIOUS
    <2> QED BY <1>1, <2>1, <2>2 DEF Acting
  <1>2. CASE pc'[r] # "turn"
    <2>1. TurnOf' = {} BY <1>2 DEF TurnOf
    <2> QED BY <1>2, <2>1 DEF Acting
  <1> QED BY <1>1, <1>2

LEMMA ActingStays ==
  ASSUME at' = at, \A s \in Rounds : pc'[s] = "turn" <=> pc[s] = "turn"
  PROVE  Acting' = Acting
  <1>1. TurnOf' = TurnOf BY DEF TurnOf
  <1> QED BY <1>1 DEF Acting

(* Who is in. *)
StillIn(mm) == {m \in Members : mm[m].status # "finished"}

(* What a stretch shows: the end, or a group open between turns.           *)
LEMMA StretchTurns ==
  ASSUME NEW r \in Rounds, NEW from, NEW ph \in {"running", "paused"}, NEW mm,
         EndedAt(r) \/ Stretched(r, from, ph, mm),
         SameTicks(mem, mm), SameTicks(mm, mem'),
         \A s \in Rounds \ {r} : pc'[s] = "none"
  PROVE  /\ Acting' = 0 /\ Taken' = Taken
         /\ \/ Stage' = "ended" /\ Live' = {}
            \/ Stage' = "open" /\ Live' = StillIn(mm)
  <1>1. pc'[r] # "turn" BY DEF Stretched, EndedAt
  <1>2. Acting' = 0 BY <1>1, ActingWillBe
  <1>3. Taken' = Taken BY DEF SameTicks, Taken
  <1>4. CASE phase' = "finished" /\ Ended(mem') BY <1>2, <1>3, <1>4 DEF Ended, Live, Stage
  <1>5. CASE phase' \in {"running", "paused"} /\ mem' = mm BY <1>2, <1>3, <1>5 DEF Live, StillIn, Stage
  <1> QED BY <1>4, <1>5 DEF Stretched, EndedAt

LEMMA StageIs ==
  /\ Stage = "ended" <=> phase = "finished"
  /\ Stage = "unopened" <=> phase = "idle"
  /\ Stage \in {"unopened", "open", "ended"}
  BY DEF Stage

(* The robin's view of what does not concern it.                           *)
LEMMA KeptTurns ==
  ASSUME Live' = Live, Taken' = Taken, Stage' = Stage, Acting' = Acting
  PROVE  UNCHANGED Turns!vars
  BY DEF Turns!vars

LEMMA BeginningTurns ==
  ASSUME PatientInv, NEW r \in Rounds, NEW d, NEW before,
         BeginRound(r, d, OpenedMembers, before), phase # "finished",
         pc[r] \notin {"check", "turn"}, pc[r] # "none" \/ \A s \in Rounds : pc[s] = "none"
  PROVE  Turns!Next \/ UNCHANGED Turns!vars
  <1>0. IInv /\ TurnInv /\ BudgetInv /\ SharedInv /\ EndInv BY DEF PatientInv
  <1>1. \A s \in Rounds : pc[s] # "turn" BY <1>0, OneCall
  <1>2. Quiet(mem) /\ Acting = 0 BY <1>0, <1>1, NobodyActs, ActingIs
  <1> DEFINE mm == OpenedMembers
  <1>3. /\ Quiet(mm) /\ Sound(mm) /\ SameTicks(mem, mm)
        /\ \A m \in Members : mm[m].status = "finished" <=> mem[m].status = "finished"
    BY <1>0, <1>2, OpenedQuietly, OpenedIsSound
  <1>4. BeginRound(r, d, mm, before) OBVIOUS
  <1> HIDE DEF mm
  <1>5. (EndedAt(r) \/ Stretched(r, 1, "running", mm)) /\ SameTicks(mm, mem')
    BY <1>0, <1>3, <1>4, BeginRoundStretches
  <1>6. \A s \in Rounds \ {r} : pc'[s] = "none" BY <1>0, <1>4, OthersStay
  <1>7. /\ Acting' = 0 /\ Taken' = Taken
        /\ \/ Stage' = "ended" /\ Live' = {}
           \/ Stage' = "open" /\ Live' = StillIn(mm)
    BY <1>3, <1>5, <1>6, StretchTurns
  <1>8. CASE Stage' = "ended" /\ Live' = {}
    <2>1. Stage # "ended" BY StageIs
    <2>2. Turns!End BY <1>7, <1>8, <2>1 DEF Turns!End
    <2> QED BY <2>2 DEF Turns!Next
  <1>9. CASE Stage' = "open" /\ Live' = StillIn(mm)
    <2>1. Live' = Live BY <1>3, <1>9 DEF Live, StillIn
    <2>2. CASE Stage = "unopened"
      <3>1. Turns!Open BY <1>2, <1>7, <1>9, <2>1, <2>2 DEF Turns!Open
      <3> QED BY <3>1 DEF Turns!Next
    <2>3. CASE Stage = "open" BY <1>2, <1>7, <1>9, <2>1, <2>3, KeptTurns
    <2> QED BY <2>2, <2>3, StageIs
  <1> QED BY <1>7, <1>8, <1>9

(* The turn goes to the first of those that have had the fewest.           *)
LEMMA CheckedTurns ==
  ASSUME PatientInv, TickInv, NEW r \in Rounds, Checked(r)
  PROVE  Turns!Next
  <1>0. /\ IInv /\ TurnInv /\ BudgetInv /\ SharedInv /\ EndInv /\ round \in Nat
        /\ pc \in [Rounds -> {"none", "check", "turn", "delay"}] /\ phase \in Phase
        /\ mem \in [Members -> Member] /\ Sound(mem) /\ pauseRequested \in BOOLEAN
        /\ seen \in [Rounds -> Nat]
    BY DEF PatientInv, IInv, CallsAreSound, Sound
  <1>1. pc[r] = "check" /\ at[r] \in Members /\ mem[at[r]].status # "finished"
    BY <1>0 DEF Checked, EndInv, IInv, CallsAreSound, InRound
  <1>2. \A s \in Rounds \ {r} : pc[s] = "none" BY <1>0, <1>1, OneCall
  <1>3. phase \in {"running", "paused"}
    BY <1>0, <1>1 DEF EndInv, TurnInv, RoundInFlight, InRound, Phase
  <1>4. Quiet(mem) /\ Acting = 0 /\ Stage = "open"
    BY <1>0, <1>1, <1>2, <1>3, NobodyActs, ActingIs DEF Stage
  <1>5. CASE FinishGroup("STOPPED_BY_GUARDRAIL", phase, mem, {"guardrail.checked"}) /\ Return(r)
    <2>1. EndedAt(r) /\ SameTicks(mem, mem')
      <3>1. pc'[r] \in {"none", "delay"} BY <1>0, <1>5, ReturnIsSound
      <3> QED BY <1>0, <1>3, <1>4, <1>5, <3>1, FinishedQuietly DEF EndedAt
    <2>2. \A s \in Rounds \ {r} : pc'[s] = "none" BY <1>0, <1>1, <1>5, OthersStay
    <2>3. SameTicks(mem, mem) BY DEF SameTicks
    <2>4. Acting' = 0 /\ Taken' = Taken BY <2>1, <2>2, <2>3, StretchTurns
    <2>5. Stage' = "ended" /\ Live' = {} BY <2>1 DEF EndedAt, Ended, Live, Stage
    <2>6. Turns!End BY <1>4, <2>4, <2>5 DEF Turns!End
    <2> QED BY <2>6 DEF Turns!Next
  <1>6. CASE TakeTurn(r)
    <2>0. /\ pc' = [pc EXCEPT ![r] = "turn"] /\ at' = at /\ UNCHANGED ending
          /\ mem' = [mem EXCEPT ![at[r]] = InTick(@)]
      BY <1>6 DEF TakeTurn
    <2> DEFINE m == at[r]
    <2> DEFINE x == InTick(mem[m])
    <2>1. pc'[r] = "turn" /\ \A s \in Rounds \ {r} : pc'[s] = "none" BY <1>0, <1>2, <2>0
    <2>2. Acting' = m /\ Stage' = Stage BY <2>0, <2>1, ActingWillBe DEF ending, Stage
    <2>3. m \in Members /\ mem' = [mem EXCEPT ![m] = x] BY <1>1, <2>0
    <2>4. x.ticks = mem[m].ticks + 1 /\ x.status = "running"
      <3>1. mem[m] \in Member BY <1>0, <1>1
      <3> QED BY <3>1 DEF InTick, Member
    <2>5. \A s \in Live : Taken[s] = IF s < m THEN round ELSE round - 1
      BY <1>1 DEF TickInv, InRound
    <2>6. m \in Live BY <1>1 DEF Live
    <2> HIDE DEF m, x
    <2>7. \A k \in Members : mem'[k] = IF k = m THEN x ELSE mem[k] BY <1>0, <2>3
    <2>8. Live' = Live
      <3>1. mem[m].status # "finished" BY <2>6 DEF Live
      <3> QED BY <2>4, <2>7, <3>1 DEF Live
    <2>9. Taken' = [Taken EXCEPT ![m] = @ + 1]
      <3>1. \A k \in Members : Taken'[k] = IF k = m THEN Taken[m] + 1 ELSE Taken[k]
        BY <2>4, <2>7 DEF Taken
      <3>2. Taken = [k \in Members |-> Taken[k]] /\ Taken' = [k \in Members |-> Taken'[k]]
        BY DEF Taken
      <3> QED BY <2>3, <3>1, <3>2
    <2>10. Turns!Next1(m)
      <3>1. ASSUME NEW s \in Live
            PROVE  Taken[m] <= Taken[s] /\ (s < m => Taken[m] < Taken[s])
        <4>1. s \in Nat /\ m \in Nat BY <2>3, MembersAreNats DEF Live
        <4>2. /\ Taken[m] = round - 1
              /\ Taken[s] = IF s < m THEN round ELSE round - 1
          BY <2>5, <2>6, <4>1
        <4> QED BY <1>0, <4>1, <4>2
      <3> QED BY <2>6, <3>1 DEF Turns!Next1
    <2>11. Turns!Take(m) BY <1>4, <2>2, <2>8, <2>9, <2>10 DEF Turns!Take
    <2>12. m \in Turns!Members BY <2>3 DEF Members, Turns!Members
    <2> QED BY <2>11, <2>12 DEF Turns!Next
  <1> QED BY <1>1, <1>5, <1>6 DEF Checked

LEMMA TurnEndsTurns ==
  ASSUME PatientInv, NEW r \in Rounds, TurnEnds(r)
  PROVE  Turns!Next
  <1>0. IInv /\ TurnInv /\ BudgetInv /\ SharedInv /\ EndInv /\ mem \in [Members -> Member]
    BY DEF PatientInv, IInv, Sound
  <1>1. pc[r] = "turn" /\ \A s \in Rounds \ {r} : pc[s] = "none"
    BY <1>0, OneCall DEF TurnEnds
  <1> DEFINE m == at[r]
  <1>2. PICK x, after :
           /\ x \in Member /\ m \in Members /\ after = [mem EXCEPT ![m] = x] /\ phase \in {"running", "paused"}
           /\ x.ticks = mem[m].ticks /\ mem[m].status = "running"
           /\ Stretched(r, m + 1, phase, after) /\ SameTicks(after, mem')
           /\ \A s \in Rounds \ {r} : pc'[s] = "none"
    BY <1>0, TurnEndsStretches
  <1>3. Acting = m /\ Stage = "open" BY <1>1, <1>2, ActingIs DEF Stage
  <1> HIDE DEF m
  <1>4. \A k \in Members : after[k] = IF k = m THEN x ELSE mem[k] BY <1>0, <1>2
  <1>5. SameTicks(mem, after) BY <1>2, <1>4 DEF SameTicks
  <1>6. /\ Acting' = 0 /\ Taken' = Taken
        /\ \/ Stage' = "ended" /\ Live' = {}
           \/ Stage' = "open" /\ Live' = StillIn(after)
    BY <1>2, <1>5, StretchTurns
  <1>7. CASE Stage' = "ended" /\ Live' = {}
    <2>1. Turns!End BY <1>3, <1>6, <1>7 DEF Turns!End
    <2> QED BY <2>1 DEF Turns!Next
  <1>8. CASE Stage' = "open" /\ Live' = StillIn(after)
    <2>1. Live' \in {Live, Live \ {m}}
      <3>1. m \in Live BY <1>2 DEF Live
      <3>2. CASE x.status = "finished"
        <4>1. Live' = Live \ {m} BY <1>4, <1>8, <3>2 DEF Live, StillIn
        <4> QED BY <4>1
      <3>3. CASE x.status # "finished"
        <4>1. Live' = Live BY <1>4, <1>8, <3>1, <3>3 DEF Live, StillIn
        <4> QED BY <4>1
      <3> QED BY <3>2, <3>3
    <2>2. Turns!Pass(m) BY <1>3, <1>6, <1>8, <2>1 DEF Turns!Pass
    <2>3. m \in Turns!Members BY <1>2 DEF Members, Turns!Members
    <2> QED BY <2>2, <2>3 DEF Turns!Next
  <1> QED BY <1>6, <1>7, <1>8

LEMMA TurnsStep ==
  ASSUME Orderly, PatientInv, TickInv, [Next]_vars
  PROVE  Turns!Next \/ UNCHANGED Turns!vars
  <1>0. /\ IInv /\ TurnInv /\ BudgetInv /\ SharedInv /\ EndInv /\ Patient /\ phase \in Phase
        /\ pc \in [Rounds -> {"none", "check", "turn", "delay"}]
    BY DEF PatientInv, Orderly, IInv, CallsAreSound
  <1>1. ASSUME NEW r \in Rounds, StartPlay(r) \/ StepRound(r)
        PROVE  Turns!Next \/ UNCHANGED Turns!vars
    <2>1. /\ \E d : BeginRound(r, d, OpenedMembers, Opening)
          /\ phase # "finished" /\ \A s \in Rounds : pc[s] = "none"
      BY <1>0, <1>1, NoCallYet DEF StartPlay, StepRound
    <2> QED BY <2>1, BeginningTurns
  <1>2. ASSUME Live' = Live, Taken' = Taken,
               phase' = "finished" <=> phase = "finished", phase' = "idle" <=> phase = "idle",
               at' = at, \A s \in Rounds : pc'[s] = "turn" <=> pc[s] = "turn"
        PROVE  UNCHANGED Turns!vars
    <2>1. Stage' = Stage BY <1>2 DEF Stage
    <2>2. Acting' = Acting BY <1>2, ActingStays
    <2> QED BY <1>2, <2>1, <2>2, KeptTurns
  <1>3. ASSUME NEW r \in Rounds, LoopTop(r) PROVE Turns!Next \/ UNCHANGED Turns!vars
    <2>1. pc[r] = "delay" /\ phase # "idle" BY <1>0, <1>3 DEF LoopTop, TurnInv
    <2>2. CASE LoopGoesOn /\ BeginRound(r, "loop", mem, {})
      <3>1. mem = OpenedMembers /\ phase # "finished"
        BY <2>1, <2>2 DEF OpenedMembers, LoopGoesOn
      <3>2. BeginRound(r, "loop", OpenedMembers, {}) BY <2>2, <3>1
      <3> QED BY <2>1, <3>1, <3>2, BeginningTurns
    <2>3. CASE LeaveLoop /\ pc' = [pc EXCEPT ![r] = "none"]
      <3>1. /\ at' = at /\ (phase' = "finished" <=> phase = "finished") /\ phase' # "idle"
        BY <2>1, <2>3 DEF LeaveLoop
      <3>2. \A s \in Rounds : pc'[s] = "turn" <=> pc[s] = "turn"
        BY <1>0, <2>1, <2>3
      <3>3. Live' = Live /\ Taken' = Taken BY <1>0, <1>3, <2>3, QuietSteps
      <3> QED BY <1>2, <2>1, <3>1, <3>2, <3>3
    <2> QED BY <1>3, <2>2, <2>3 DEF LoopTop
  <1>4. CASE /\ phase = "idle"
             /\ StartPlayIdly \/ StartStep
    <2>1. /\ phase' = "paused" /\ UNCHANGED <<pc, at>> /\ \A s \in Rounds : pc[s] = "none"
      BY <1>0, <1>4, OpensQuietly
    <2>2. Live' = Live /\ Taken' = Taken BY <1>0, <1>4, QuietSteps
    <2>3. Acting' = Acting BY <2>1, ActingStays
    <2>4. Acting = 0
      <3>1. TurnOf = {} BY <2>1 DEF TurnOf
      <3> QED BY <3>1 DEF Acting
    <2>5. Stage = "unopened" /\ Stage' = "open" BY <1>4, <2>1 DEF Stage
    <2>6. Turns!Open BY <2>2, <2>3, <2>4, <2>5 DEF Turns!Open
    <2> QED BY <2>6 DEF Turns!Next
  <1>5. CASE StartPlayIdly /\ phase # "idle"
    <2>1. /\ at' = at /\ pc' = pc /\ phase # "finished" /\ phase' # "finished" /\ phase' # "idle"
      BY <1>5 DEF StartPlayIdly, OpenedPhase, calls
    <2>2. Live' = Live /\ Taken' = Taken BY <1>0, <1>5, QuietSteps
    <2> QED BY <1>2, <1>5, <2>1, <2>2
  <1>6. CASE Stop
    <2>1. at' = at /\ pc' = pc BY <1>6 DEF Stop, calls
    <2>2. CASE phase' = phase
      <3>1. Live' = Live /\ Taken' = Taken BY <1>0, <1>6, <2>2, QuietSteps
      <3> QED BY <1>2, <2>1, <2>2, <3>1
    <2>3. CASE /\ phase # "finished" /\ ~RoundInFlight /\ phase' = "finished" /\ Ended(mem')
               /\ SameTicks(mem, mem')
      <3>1. \A s \in Rounds : pc[s] # "turn" BY <2>3 DEF RoundInFlight, InRound
      <3>2. TurnOf' = {} BY <2>1, <3>1 DEF TurnOf
      <3>3. Acting' = 0 BY <3>2 DEF Acting
      <3>4. /\ Stage # "ended" /\ Stage' = "ended" /\ Live' = {} /\ Taken' = Taken
        BY <2>3 DEF Stage, Live, Ended, Taken, SameTicks
      <3>5. Turns!End BY <3>3, <3>4 DEF Turns!End
      <3> QED BY <3>5 DEF Turns!Next
    <2> QED BY <1>0, <1>6, <2>2, <2>3, StopIsPatient
  <1>7. CASE Pause \/ DeliverInput
    <2>1. Live' = Live /\ Taken' = Taken BY <1>0, <1>7, QuietSteps
    <2>2. /\ at' = at /\ pc' = pc
          /\ phase' = "finished" <=> phase = "finished"
          /\ phase' = "idle" <=> phase = "idle"
      BY <1>7 DEF Pause, DeliverInput, ending, calls
    <2> QED BY <1>2, <2>1, <2>2
  <1>8. ASSUME NEW r \in Rounds, TurnAsks(r) PROVE UNCHANGED Turns!vars
    <2>1. Live' = Live /\ Taken' = Taken BY <1>0, <1>8, QuietSteps
    <2>2. at' = at /\ pc' = pc /\ phase' = phase BY <1>8 DEF TurnAsks, ending, calls
    <2> QED BY <1>2, <2>1, <2>2
  <1>9. ASSUME NEW r \in Rounds, ResolveApproval(r) PROVE UNCHANGED Turns!vars
    <2>1. Live' = Live /\ Taken' = Taken BY <1>0, <1>9, QuietSteps
    <2>2. at' = at /\ pc' = pc /\ phase' = phase BY <1>9 DEF ResolveApproval, ending, calls
    <2> QED BY <1>2, <2>1, <2>2
  <1>10. CASE UNCHANGED vars
    <2>1. at' = at /\ pc' = pc /\ phase' = phase /\ Live' = Live /\ Taken' = Taken
      BY <1>10 DEF vars, ending, calls, Live, Taken
    <2> QED BY <1>2, <2>1
  <1>11. \A r \in Rounds : ~CheckThrows(r) BY DEF Orderly, CheckThrows
  <1> QED BY <1>1, <1>3, <1>4, <1>5, <1>6, <1>7, <1>8, <1>9, <1>10, <1>11, CheckedTurns,
             TurnEndsTurns
      DEF Next, Host, Advance, StartStep

(* A group is a round robin: nobody is skipped, served twice or beside     *)
(* another, nor once the group has ended, where the host waits for rounds  *)
(* to end, stops neither a paused round nor a turn that waits for a person,*)
(* and guards the group by guardrails that do not throw (stepRound).       *)
THEOREM AlwaysInTurn == Orderly => (Spec => TakesTurns)
  <1> SUFFICES ASSUME Orderly PROVE Spec => TakesTurns
    OBVIOUS
  <1>0. Patient BY DEF Orderly
  <1>1. Init => PatientInv /\ TickInv /\ Turns!Init
    <2> SUFFICES ASSUME Init PROVE PatientInv /\ TickInv /\ Turns!Init
      OBVIOUS
    <2>1. \A m \in Members : mem[m].status = "idle" /\ mem[m].ticks = 0 BY DEF Init
    <2>2. \A r \in Rounds : pc[r] = "none" /\ phase = "idle" /\ round = 0 BY DEF Init
    <2>3. Live = Members /\ Taken = [m \in Members |-> 0] BY <2>1 DEF Live, Taken
    <2>4. TurnOf = {} BY <2>2 DEF TurnOf
    <2>5. Stage = "unopened" /\ Acting = 0 BY <2>4 DEF Init, Stage, Acting
    <2>6. Turns!Init BY <2>3, <2>5 DEF Turns!Init, Turns!Members, Members
    <2>7. TickInv BY <2>2, <2>3 DEF Init, TickInv, InRound
    <2> QED BY <2>6, <2>7, InitPatient
  <1>2. PatientInv /\ TickInv /\ [Next]_vars => (PatientInv /\ TickInv)'
    BY <1>0, PatientStep, TickStep
  <1>3. PatientInv /\ TickInv /\ [Next]_vars => [Turns!Next]_(Turns!vars)
    BY TurnsStep
  <1> QED BY <1>1, <1>2, <1>3, PTL DEF Spec, TakesTurns, Turns!Spec

-----------------------------------------------------------------------------
(* Play.  A request to pause has a loop to land it, where the host pauses  *)
(* only what is playing and no guardrail throws a loop out: then Play      *)
(* finds either a loop or nothing that would turn its own away.            *)
Heeding ==
  Liberties \intersect {"pause-a-step", "guardrail-throws", "play-after-pause"} = {}

PauseInv == pauseRequested => Playing

LEMMA StretchKeepsPause ==
  ASSUME IInv, PauseInv, NEW r \in Rounds,
         \/ Return(r)
         \/ \E from, ph, mm, before : Proceed(r, from, ph, mm, before),
         \A s \in Rounds : driver'[s] = driver[s] \/ (s = r /\ pc[s] = "none")
  PROVE  PauseInv'
  <1>0. /\ pc \in [Rounds -> {"none", "check", "turn", "delay"}] /\ pauseRequested \in BOOLEAN
        /\ seen \in [Rounds -> Nat]
    BY DEF IInv, CallsAreSound
  <1>1. CASE Return(r)
    <2>1. \A s \in Rounds \ {r} : pc'[s] = pc[s] /\ driver'[s] = driver[s]
      BY <1>0, <1>1, ReturnIsSound
    <2>2. CASE driver'[r] = "loop" /\ phase' # "finished"
      <3>1. pc'[r] = "delay" BY <1>0, <1>1, <2>2 DEF Return
      <3> QED BY <2>2, <3>1 DEF PauseInv, Playing
    <2>3. CASE ~(driver'[r] = "loop" /\ phase' # "finished")
      <3>1. pauseRequested' = (pauseRequested /\ driver'[r] # "loop") BY <1>1, <2>3 DEF Return
      <3>2. SUFFICES ASSUME pauseRequested, driver'[r] # "loop" PROVE Playing'
        BY <3>1 DEF PauseInv
      <3>3. PICK w \in Rounds : driver[w] = "loop" /\ pc[w] # "none"
        BY <3>2 DEF PauseInv, Playing
      <3>4. w # r BY <3>2, <3>3
      <3> QED BY <2>1, <3>3, <3>4 DEF Playing
    <2> QED BY <2>2, <2>3
  <1>2. CASE pc' = [pc EXCEPT ![r] = "check"] /\ pauseRequested' = pauseRequested
    <2>1. pc'[r] = "check" /\ \A s \in Rounds \ {r} : pc'[s] = pc[s] BY <1>0, <1>2
    <2>2. ASSUME pauseRequested PROVE Playing'
      <3>1. PICK w \in Rounds : driver[w] = "loop" /\ pc[w] # "none"
        BY <2>2 DEF PauseInv, Playing
      <3>2. driver'[w] = "loop" /\ pc'[w] # "none" BY <2>1, <3>1
      <3> QED BY <3>2 DEF Playing
    <2> QED BY <1>2, <2>2 DEF PauseInv
  <1> QED BY <1>1, <1>2 DEF Proceed

LEMMA BeginningKeepsPause ==
  ASSUME IInv, PauseInv, NEW r \in Rounds, NEW d, NEW mm, NEW before,
         BeginRound(r, d, mm, before), pc[r] = "none" \/ d = driver[r]
  PROVE  PauseInv'
  <1>1. \A s \in Rounds : driver'[s] = driver[s] \/ (s = r /\ pc[s] = "none")
    BY DEF BeginRound, IInv, CallsAreSound
  <1>2. Return(r) \/ Proceed(r, 1, "running", mm, before) BY DEF BeginRound
  <1> QED BY <1>1, <1>2, StretchKeepsPause

LEMMA PauseStep ==
  ASSUME Heeding, IInv, PauseInv, [Next]_vars
  PROVE  PauseInv'
  <1>0. CallsAreSound /\ pc \in [Rounds -> {"none", "check", "turn", "delay"}]
    BY DEF IInv, CallsAreSound
  <1>1. ASSUME pc' = pc, driver' = driver, pauseRequested' => pauseRequested \/ Playing
        PROVE  PauseInv'
    BY <1>1 DEF PauseInv, Playing
  <1>2. ASSUME NEW r \in Rounds, StartPlay(r) \/ StepRound(r) PROVE PauseInv'
    <2>1. pc[r] = "none" /\ \E d : BeginRound(r, d, OpenedMembers, Opening)
      BY <1>2 DEF StartPlay, StepRound
    <2> QED BY <2>1, BeginningKeepsPause
  <1>3. ASSUME NEW r \in Rounds, LoopTop(r) PROVE PauseInv'
    <2>1. driver[r] = "loop" BY <1>0, <1>3 DEF LoopTop, CallsAreSound
    <2>2. CASE BeginRound(r, "loop", mem, {}) BY <2>1, <2>2, BeginningKeepsPause
    <2>3. CASE LeaveLoop BY <2>3 DEF LeaveLoop, PauseInv
    <2> QED BY <1>3, <2>2, <2>3 DEF LoopTop
  <1>4. ASSUME NEW r \in Rounds, Checked(r) PROVE PauseInv'
    <2>1. CASE TakeTurn(r)
      <3>1. driver' = driver BY <1>4 DEF Checked
      <3>2. pc' = [pc EXCEPT ![r] = "turn"] /\ pauseRequested' = pauseRequested
        BY <2>1 DEF TakeTurn
      <3>3. \A s \in Rounds : pc[s] # "none" => pc'[s] # "none" BY <1>0, <3>2
      <3> QED BY <3>1, <3>2, <3>3 DEF PauseInv, Playing
    <2>2. CASE Return(r) \/ Proceed(r, at[r] + 1, phase, mem, {"guardrail.checked"})
      <3>1. driver' = driver BY <1>4 DEF Checked
      <3> QED BY <2>2, <3>1, StretchKeepsPause
    <2> QED BY <1>4, <2>1, <2>2 DEF Checked
  <1>5. ASSUME NEW r \in Rounds, TurnEnds(r) PROVE PauseInv'
    <2>1. driver' = driver /\ \E from, ph, mm, before : Proceed(r, from, ph, mm, before)
      BY <1>5 DEF TurnEnds
    <2> QED BY <2>1, StretchKeepsPause
  <1>6. ASSUME NEW r \in Rounds, TurnAsks(r) PROVE PauseInv'
    BY <1>1, <1>6 DEF TurnAsks, calls, control
  <1>7. CASE StartPlayIdly BY <1>1, <1>7 DEF StartPlayIdly, calls
  <1>8. CASE StartStep \/ DeliverInput BY <1>1, <1>8 DEF StartStep, DeliverInput, calls, control
  <1>9. CASE Pause BY <1>1, <1>9 DEF Pause, calls, Heeding
  <1>10. CASE Stop BY <1>1, <1>10 DEF Stop, calls
  <1>11. ASSUME NEW r \in Rounds, ResolveApproval(r) PROVE PauseInv'
    BY <1>1, <1>11 DEF ResolveApproval, calls, control
  <1>12. CASE UNCHANGED vars BY <1>1, <1>12 DEF vars, calls, control
  <1>13. \A r \in Rounds : ~CheckThrows(r) BY DEF Heeding, CheckThrows
  <1> QED BY <1>2, <1>3, <1>4, <1>5, <1>6, <1>7, <1>8, <1>9, <1>10, <1>11, <1>12, <1>13
      DEF Next, Host, Advance

LEMMA PlayPlays ==
  ASSUME Heeding, IInv, PauseInv, Next, pressed', ~stopRequested
  PROVE  (Playing' /\ ~pauseRequested') \/ phase' = "finished"
  <1>0. /\ pc \in [Rounds -> {"none", "check", "turn", "delay"}]
        /\ driver \in [Rounds -> {"host", "loop"}]
    BY DEF IInv, CallsAreSound
  <1>1. ASSUME NEW r \in Rounds, StartPlay(r)
        PROVE  (Playing' /\ ~pauseRequested') \/ phase' = "finished"
    <2>1. BeginRound(r, "loop", OpenedMembers, Opening) /\ ~pauseRequested
      BY <1>1 DEF StartPlay
    <2>2. driver'[r] = "loop" BY <1>0, <2>1 DEF BeginRound
    <2>3. ASSUME NEW o, FinishGroup(o, "running", OpenedMembers, Opening)
          PROVE  phase' = "finished"
      BY <2>3 DEF FinishGroup
    <2>4. CASE Proceed(r, 1, "running", OpenedMembers, Opening)
      <3>1. CASE pc' = [pc EXCEPT ![r] = "check"] /\ pauseRequested' = pauseRequested
        BY <1>0, <2>1, <2>2, <3>1 DEF Playing
      <3>2. CASE Return(r)
        <4>1. CASE phase' # "finished"
          <5>1. pc'[r] = "delay" /\ pauseRequested' = pauseRequested
            BY <1>0, <2>2, <3>2, <4>1 DEF Return
          <5> QED BY <2>1, <2>2, <5>1 DEF Playing
        <4> QED BY <4>1
      <3> QED BY <2>4, <3>1, <3>2 DEF Proceed
    <2> QED BY <2>1, <2>3, <2>4 DEF BeginRound
  <1>2. CASE StartPlayIdly
    <2>1. Playing /\ ~pauseRequested
      BY <1>2 DEF StartPlayIdly, PauseInv, Heeding
    <2>2. pauseRequested' = pauseRequested /\ pc' = pc /\ driver' = driver
      BY <1>2, <2>1 DEF StartPlayIdly, calls
    <2> QED BY <2>1, <2>2 DEF Playing
  <1>3. ASSUME NEW r \in Rounds PROVE ~StepRound(r) /\ ~Advance(r)
    BY DEF StepRound, Advance, Checked, TakeTurn, CheckThrows, TurnAsks, TurnEnds, LoopTop
  <1>4. ~StartStep /\ ~Pause /\ ~Stop /\ ~DeliverInput /\ \A r \in Rounds : ~ResolveApproval(r)
    BY DEF StartStep, Pause, Stop, DeliverInput, ResolveApproval
  <1> QED BY <1>1, <1>2, <1>3, <1>4 DEF Next, Host

(* Pressing Play plays, where the host pauses only what is playing, waits  *)
(* for a pause to land before it plays again, and no guardrail throws;     *)
(* rounds may overlap and be stopped at will (session-group.ts, start).    *)
THEOREM PlayIsAlwaysHeard == Heeding => (Spec => PlayIsHeard)
  <1> SUFFICES ASSUME Heeding PROVE Spec => PlayIsHeard
    OBVIOUS
  <1>1. Init => PauseInv BY DEF Init, PauseInv
  <1>2. IInv /\ PauseInv /\ [Next]_vars => PauseInv' BY PauseStep
  <1>3. IInv /\ PauseInv /\ [Next]_vars =>
          [pressed' /\ ~stopRequested =>
             (Playing' /\ ~pauseRequested') \/ phase' = "finished"]_vars
    BY PlayPlays
  <1>4. Spec => []IInv
    <2>1. IInv /\ TurnInv => IInv OBVIOUS
    <2> QED BY <2>1, AlwaysInv, PTL
  <1> QED BY <1>1, <1>2, <1>3, <1>4, PTL DEF Spec, PlayIsHeard
=====================

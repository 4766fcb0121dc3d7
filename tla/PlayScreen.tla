----------------------------- MODULE PlayScreen -----------------------------
(* The play screen and what it keeps of its runs: the session's view          *)
(* (session.svelte.ts), the page's handlers (routes/play/[agentId]) and the   *)
(* trace recorder (trace-recorder.ts) over the browser's storage.  A session  *)
(* is what the screen hears of it: AgentSession gives it in full.  Its events *)
(* are handled synchronously, by the view, then the page, then the recorder;  *)
(* what they start goes on after an await, and Reset may come at any time.    *)
(* One tick of a session at a time; Pause only decides whether the play loop's*)
(* next tick comes, which GoOn leaves open.                                   *)
EXTENDS Integers, Sequences, SequencesExt, FiniteSets

CONSTANTS
  MaxRuns,    \* the bound on sessions built
  MaxEvents,  \* the bound on a session's events
  BatchSize,  \* options.batchSize
  Liberties   \* how else than between saved runs the person resets

Runs == 1 .. MaxRuns
NoRun == 0

ASSUME PlayAssumption ==
  /\ MaxRuns \in Nat \ {0} /\ MaxEvents \in Nat /\ BatchSize \in Nat \ {0}
  /\ Liberties \subseteq
       {"reset-mid-tick",  \* while a tick is in flight, also one a stop left at a question
        "reset-unsaved"}   \* while a run is begun and not saved, and no tick is in flight

VARIABLES
  sess,     \* each session: where it is; of its tick in flight, whether it waits for a
            \* person, is to end the run, and is awaited by step()
  count,    \* the events each has emitted
  opened,   \* which of them was its run.started, 0 for none
  closed,   \* ... and its first run.finished
  current,  \* the view's session
  view,     \* the view: its run, and whose events and outcome it shows
  recorder, \* the page's recorder, by the run it is for
  rec,      \* the recorders
  jobs,     \* updateProgress() and finishRun() calls under way
  saved,    \* runSaved
  rows,     \* the stored run records
  events,   \* the stored events
  stray,    \* a record was stored under an id that is no run's
  failed,   \* a write failed
  took      \* the liberties taken so far

page == <<view, recorder, rec, jobs, saved>>
storage == <<rows, events, stray, failed>>
trace == <<count, opened, closed>>
vars == <<sess, trace, current, page, storage, took>>

Blank == [run |-> NoRun, finished |-> FALSE, shows |-> {}]
NewRecorder == [buffer |-> <<>>, queue |-> <<>>, stopped |-> FALSE, broken |-> FALSE]

Init ==
  /\ sess = [s \in Runs |-> [at |-> "idle", asks |-> FALSE, stop |-> FALSE, stepped |-> FALSE]]
  /\ count = [s \in Runs |-> 0] /\ current = 1
  /\ opened = [s \in Runs |-> 0] /\ closed = [s \in Runs |-> 0]
  /\ view = Blank /\ recorder = NoRun /\ rec = [r \in Runs |-> NewRecorder]
  /\ jobs = {} /\ saved = FALSE
  /\ rows = [r \in Runs |-> "none"] /\ events = [r \in Runs |-> <<>>]
  /\ stray = FALSE /\ failed = FALSE /\ took = {}

(* A tick's last events are emitted in one go: nothing comes between them. *)
Settled == \A s \in Runs : sess[s].at # "ending"

--------------------------------------------------------------------------------
(* The recorder *)

Flushed(r) == IF r.buffer = <<>> THEN r
              ELSE [r EXCEPT !.buffer = <<>>, !.queue = Append(@, r.buffer)]

Took(r, event, turnEnds) ==
  LET held == [r EXCEPT !.buffer = Append(@, event)]
  IN IF r.stopped THEN r
     ELSE IF turnEnds \/ Len(held.buffer) >= BatchSize THEN Flushed(held) ELSE held

(* MUTANT of Write: the append is not chained on the last one. *)
WriteAny(r) ==
  /\ rec[r].queue # <<>> /\ ~rec[r].broken /\ Settled
  /\ \E i \in 1 .. Len(rec[r].queue) :
       /\ events' = [events EXCEPT ![r] = @ \o rec[r].queue[i]]
       /\ rec' = [rec EXCEPT ![r].queue = RemoveAt(@, i)]
  /\ UNCHANGED <<sess, trace, current, view, recorder, jobs, saved, rows, stray, failed, took>>

(* appendEvents() of the batch at the head of the chain. *)
Write(r) ==
  /\ rec[r].queue # <<>> /\ ~rec[r].broken /\ Settled
  /\ events' = [events EXCEPT ![r] = @ \o Head(rec[r].queue)]
  /\ rec' = [rec EXCEPT ![r].queue = Tail(@)]
  /\ UNCHANGED <<sess, trace, current, view, recorder, jobs, saved, rows, stray, failed, took>>

(* It is rejected, and the chain with it: nothing later is written. *)
WriteFails(r) ==
  /\ rec[r].queue # <<>> /\ ~rec[r].broken /\ Settled
  /\ rec' = [rec EXCEPT ![r].broken = TRUE]
  /\ failed' = TRUE
  /\ UNCHANGED <<sess, trace, current, view, recorder, jobs, saved, rows, events, stray, took>>

(* stop() has its answer: the chain is written, or broken. *)
Landed(r) == IF r = NoRun THEN TRUE ELSE rec[r].queue = <<>>
Broken(r) == IF r = NoRun THEN FALSE ELSE rec[r].broken

(* What waits for that alone goes on before the person's next event. *)
Quiet == \A j \in jobs : j.at = "stopping" => ~Landed(j.awaits) /\ ~Broken(j.awaits)

--------------------------------------------------------------------------------
(* The view, and the page's handlers *)

(* absorb(): the view's run is the first it hears of. *)
Absorbed(s, kind) ==
  [run |-> IF view.run = NoRun THEN s ELSE view.run,
   finished |-> view.finished \/ kind = "run.finished",
   shows |-> view.shows \union {s}]

(* toRunRecord(), put under the view's run, or under a new id when it has none. *)
Status(v) == IF v.finished THEN "finished" ELSE "in-progress"

Put(v) ==
  IF v.run = NoRun THEN stray' = TRUE /\ UNCHANGED rows
  ELSE rows' = [rows EXCEPT ![v.run] = Status(v)] /\ UNCHANGED stray

(* putRun(), or the getRun() before it, is rejected. *)
PutFails == failed' = TRUE /\ UNCHANGED <<rows, stray>>

(* onRunEvent() with the view `v`: beginRun(), the recorder, updateProgress(), *)
(* finishRun() as far as its first await.                                      *)
OnEvent(s, kind, v) ==
  LET r == IF kind = "run.started" THEN s ELSE recorder
      turnEnds == kind \in {"tick.completed", "run.finished"}
      Recorded(it) == LET got == Took(it, <<s, count[s] + 1>>, turnEnds)
                      IN IF kind = "run.finished" THEN [Flushed(got) EXCEPT !.stopped = TRUE]
                         ELSE got
  IN /\ count' = [count EXCEPT ![s] = @ + 1]
     /\ opened' = IF kind = "run.started" THEN [opened EXCEPT ![s] = count[s] + 1] ELSE opened
     /\ closed' = IF kind = "run.finished" /\ closed[s] = 0
                  THEN [closed EXCEPT ![s] = count[s] + 1] ELSE closed
     /\ recorder' = r
     /\ rec' = IF r = NoRun THEN rec ELSE [rec EXCEPT ![r] = Recorded(@)]
     /\ IF kind = "run.started"
        THEN saved' = FALSE /\ ((Put(v) /\ UNCHANGED failed) \/ PutFails)
        ELSE UNCHANGED <<saved, rows, stray, failed>>
     /\ jobs' = jobs \union
          CASE kind = "tick.completed" -> {[at |-> "progress", for |-> v.run, awaits |-> NoRun]}
            [] kind = "run.finished"   -> {[at |-> "stopping", for |-> s, awaits |-> r]}
            [] OTHER -> {}

(* One event of a session, heard by the view that built it, reset or not. *)
Emit(s, kind) ==
  /\ view' = Absorbed(s, kind)
  /\ OnEvent(s, kind, Absorbed(s, kind))
  /\ UNCHANGED <<current, events, took>>

--------------------------------------------------------------------------------
(* Sessions *)

(* A tick that waits for a person is in flight, and outlives its run's stop. *)
InFlight(s) == sess[s].at = "tick" \/ sess[s].asks
Working(s) == sess[s].at = "tick" /\ ~sess[s].asks

(* `busy`: the page awaits a step(), of this session or of one reset since. *)
Busy == \E s \in Runs : InFlight(s) /\ sess[s].stepped

(* STEP or Play on a new session. *)
Begin(stepped) ==
  /\ Settled /\ ~Busy /\ sess[current].at = "idle"
  /\ sess' = [sess EXCEPT ![current].at = "tick", ![current].stepped = stepped]
  /\ Emit(current, "run.started")

(* STEP again, or the play loop's next tick; the buttons are off once the run *)
(* shows an ending, and a loop may go on yet.                                 *)
GoOn(stepped) ==
  /\ Settled /\ sess[current].at = "between" /\ count[current] + 2 <= MaxEvents
  /\ view.finished => ~stepped
  /\ sess' = [sess EXCEPT ![current].at = "tick", ![current].stepped = stepped]
  /\ UNCHANGED <<trace, current, page, storage, took>>

(* An event of a tick in flight. *)
Works(s) ==
  /\ Settled /\ Working(s) /\ count[s] + 3 <= MaxEvents
  /\ Emit(s, "other")
  /\ UNCHANGED sess

Rested(s, at) ==
  [sess EXCEPT ![s].at = at, ![s].stop = FALSE, ![s].stepped = FALSE]

(* A question: the tick waits for a person. *)
Asks(s) ==
  /\ Settled /\ Working(s) /\ count[s] + 3 <= MaxEvents
  /\ sess' = [sess EXCEPT ![s].asks = TRUE]
  /\ Emit(s, "other")

(* The tick's end, and the run's when that was asked for or it is over. *)
EndsTick(s) ==
  /\ Settled /\ Working(s)
  /\ \E at \in {"between", "ending"} :
       /\ sess[s].stop => at = "ending"
       /\ sess' = Rested(s, at)
  /\ Emit(s, "tick.completed")

(* A guardrail, a budget or a failure ends the run in the midst of the tick. *)
Breaks(s) ==
  /\ Settled /\ Working(s)
  /\ sess' = Rested(s, "finished")
  /\ Emit(s, "run.finished")

Ends(s) ==
  /\ sess[s].at = "ending"
  /\ sess' = [sess EXCEPT ![s].at = "finished"]
  /\ Emit(s, "run.finished")

(* stop() and declareOutcome(): what works is to end with its tick; any other *)
(* run ends at once, and leaves a tick that waits where it is.                *)
Concludes(stops) ==
  IF Working(current)
  THEN /\ sess' = [sess EXCEPT ![current].stop = TRUE]
       /\ UNCHANGED <<trace, current, page, storage, took>>
  ELSE /\ sess' = [sess EXCEPT ![current].at = "finished",
                              ![current].stop = (@ \/ stops) /\ sess[current].asks]
       /\ Emit(current, "run.finished")

Stop == Settled /\ ~view.finished /\ sess[current].at # "finished" /\ Concludes(TRUE)

Declare ==
  /\ Settled /\ ~view.finished /\ sess[current].at # "finished" /\ opened[current] # 0
  /\ Concludes(FALSE)

(* The tick goes on, also where its run has been ended meanwhile. *)
Answer ==
  /\ Settled /\ sess[current].asks
  /\ sess' = [sess EXCEPT ![current].at = "tick", ![current].asks = FALSE]
  /\ UNCHANGED <<trace, current, page, storage, took>>

(* deliverInput(): something is said to the bot, before its run or during it. *)
Say ==
  /\ Settled /\ sess[current].at # "finished" /\ count[current] + 3 <= MaxEvents
  /\ Emit(current, "other")
  /\ UNCHANGED sess

(* What a reset takes of the person.  runSaved alone does not tell: it is     *)
(* still that of the run before when this one was stopped and never begun.    *)
Unsaved == ~saved \/ \E j \in jobs : j.for = current

Care ==
  IF InFlight(current) THEN {"reset-mid-tick"}
  ELSE IF sess[current].at # "idle" /\ Unsaved THEN {"reset-unsaved"}
  ELSE {}

(* What the reset leaves of a tick in flight: it goes on, and is to end its run. *)
Released ==
  IF InFlight(current)
  THEN [sess EXCEPT ![current].at = "tick", ![current].asks = FALSE, ![current].stop = TRUE]
  ELSE sess

(* MUTANT of Reset: the view is blanked before the session is stopped. *)
ResetBlankFirst ==
  /\ Settled /\ current < MaxRuns
  /\ Care \subseteq Liberties /\ took' = took \union Care
  /\ current' = current + 1
  /\ CASE sess[current].at \in {"idle", "between"} ->
            /\ view' = [run |-> current, finished |-> TRUE, shows |-> {current}]
            /\ sess' = [sess EXCEPT ![current].at = "finished"]
            /\ OnEvent(current, "run.finished", view')
       [] OTHER ->
            /\ view' = Blank
            /\ sess' = Released
            /\ UNCHANGED <<trace, recorder, rec, jobs, saved, rows, stray, failed>>
  /\ UNCHANGED events

(* Reset world: a question is answered for the person, the session is stopped, *)
(* which may end it there and then, the view is blanked and a new session is   *)
(* built.  The old one is still heard.                                         *)
Reset ==
  /\ Settled /\ current < MaxRuns
  /\ Care \subseteq Liberties /\ took' = took \union Care
  /\ current' = current + 1
  /\ view' = Blank
  /\ CASE sess[current].at \in {"idle", "between"} ->
            /\ sess' = [sess EXCEPT ![current].at = "finished"]
            /\ OnEvent(current, "run.finished", Absorbed(current, "run.finished"))
       [] OTHER ->
            /\ sess' = Released
            /\ UNCHANGED <<trace, recorder, rec, jobs, saved, rows, stray, failed>>
  /\ UNCHANGED events

--------------------------------------------------------------------------------
(* What the handlers go on to do *)

(* updateProgress() after getRun(). *)
Progress(j) ==
  /\ Settled /\ j \in jobs /\ j.at = "progress"
  /\ jobs' = jobs \ {j}
  /\ \/ IF rows[j.for] = "none" THEN UNCHANGED <<rows, stray, failed>>
        ELSE Put(view) /\ UNCHANGED failed
     \/ PutFails
  /\ UNCHANGED <<sess, trace, current, view, recorder, rec, saved, events, took>>

(* MUTANT of Stopped: the ending is left to updateProgress(). *)
StoppedUnfiled(j) ==
  /\ Settled /\ j \in jobs /\ j.at = "stopping"
  /\ Landed(j.awaits) /\ recorder' = NoRun
  /\ jobs' = jobs \ {j} /\ saved' = TRUE
  /\ UNCHANGED <<sess, trace, current, view, rec, storage, took>>

(* finishRun() after recorder.stop(): a rejected write rejects it too.  The  *)
(* recorder is let go, and persistRun() looks whether the view has an ending.*)
Stopped(j) ==
  /\ Settled /\ j \in jobs /\ j.at = "stopping"
  /\ Landed(j.awaits) /\ recorder' = NoRun
  /\ IF view.run # NoRun /\ view.finished
     THEN jobs' = (jobs \ {j}) \union {[j EXCEPT !.at = "persisting"]} /\ UNCHANGED saved
     ELSE jobs' = jobs \ {j} /\ saved' = TRUE
  /\ UNCHANGED <<sess, trace, current, view, rec, storage, took>>

StopFails(j) ==
  /\ Settled /\ j \in jobs /\ j.at = "stopping" /\ Broken(j.awaits)
  /\ jobs' = jobs \ {j}
  /\ UNCHANGED <<sess, trace, current, view, recorder, rec, saved, storage, took>>

(* persistRun() after getRun(), which is answered after those asked before. *)
Persisted(j) ==
  /\ Settled /\ j \in jobs /\ j.at = "persisting"
  /\ ~\E k \in jobs : k.at = "progress" /\ k.for = j.for
  /\ \/ Put(view) /\ saved' = TRUE /\ UNCHANGED failed
     \/ PutFails /\ UNCHANGED saved
  /\ jobs' = jobs \ {j}
  /\ UNCHANGED <<sess, trace, current, view, recorder, rec, events, took>>

Job(j) == Progress(j) \/ Stopped(j) \/ StopFails(j) \/ Persisted(j)
Writing(r) == Write(r) \/ WriteFails(r)

Person ==
  /\ Quiet
  /\ \/ Stop \/ Declare \/ Answer \/ Say \/ Reset
     \/ \E stepped \in BOOLEAN : Begin(stepped) \/ GoOn(stepped)

Next ==
  \/ Person
  \/ \E s \in Runs : Works(s) \/ Asks(s) \/ EndsTick(s) \/ Breaks(s) \/ Ends(s) \/ Writing(s)
  \/ \E j \in jobs : Job(j)

Jobs == [at : {"progress", "stopping", "persisting"}, for : Runs, awaits : Runs \union {NoRun}]

(* Ticks end and awaits come back; the person owes nothing. *)
Spec ==
  /\ Init /\ [][Next]_vars
  /\ \A s \in Runs : WF_vars(EndsTick(s)) /\ WF_vars(Ends(s)) /\ WF_vars(Writing(s))
  /\ \A j \in Jobs : WF_vars(Job(j))

--------------------------------------------------------------------------------
(* Properties *)

(* The view shows one run: whatever is reset, stopped and played again, no  *)
(* event of another reaches it ("the whole UI model, derived from one event *)
(* at a time").                                                             *)
ViewIsOneRun == "reset-mid-tick" \notin took => view.shows \subseteq {view.run}

(* What a run is to have stored: its events from its run.started to its first *)
(* run.finished, as far as they have come.                                    *)
Latest(r) == IF closed[r] # 0 THEN closed[r] ELSE count[r]
Told(r) == IF opened[r] = 0 THEN 0 ELSE Latest(r) + 1 - opened[r]

(* The stored events of a run are its own, from its opening on, in order, with *)
(* none missing before another and none after its ending (trace-recorder.ts),  *)
(* also when a write fails and whenever between ticks the run is reset; a      *)
(* stored ending is one that came; and every record stored is of a run, when   *)
(* runs are reset once they are saved.                                         *)
StorageIsTrue ==
  "reset-mid-tick" \notin took =>
    /\ \A r \in Runs :
         \E n \in 0 .. Told(r) : events[r] = [k \in 1 .. n |-> <<r, opened[r] - 1 + k>>]
    /\ \A r \in Runs : rows[r] = "finished" => closed[r] # 0
    /\ stray => "reset-unsaved" \in took

Filed(r) == rows[r] = "finished" /\ Len(events[r]) = Told(r)

(* "Stopping emits run.finished like any other ending, and that is what saves" *)
(* (play page): a run that was begun and has ended is filed with its ending    *)
(* and every event from its opening to it, whatever a tick that was left at a  *)
(* question does later, unless a write failed, for whoever resets only between *)
(* saved runs.                                                                 *)
CarefulEndingsAreFiled ==
  \A r \in Runs : opened[r] # 0 /\ closed[r] # 0 ~> Filed(r) \/ failed \/ took # {}
=============================================================================

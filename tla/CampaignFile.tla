---------------------------- MODULE CampaignFile ----------------------------
(* The harness runs a campaign file: runCampaignFile() of                    *)
(* packages/harness/src/commands/campaign.ts, over the lanes of evals'       *)
(* runCampaign(), the pool of --jobs workers and the directory it keeps its  *)
(* runs in.  A process may stop, fail or crash at any point; what is on disk *)
(* stays, and a later invocation may pick it up with --resume.               *)
EXTENDS Integers, Sequences, FiniteSets

CONSTANTS
  N,          \* the campaign's cells are 0 .. N - 1, by ordinal
  MaxJobs,    \* the most lanes an invocation asks for
  Shards,     \* the slices <<index, of>> an invocation may ask for; <<1, 1>> is the whole
  Journeys,   \* the cells that are a work item's journey, with a workflow run to keep
  Faults,     \* "idle-death": a worker dies with no cell to reject; "torn-json": a crash tears a JSON file
  MaxStarts,  \* bound: invocations
  MaxFaults   \* bound: faults, over all invocations

Cells == 0 .. N - 1

(* The run of a journey's other agent; a cell's own run is named by the cell. *)
Stage(c) == N + c

Runs == Cells \union {Stage(c) : c \in Journeys}
Lanes == 1 .. MaxJobs
None == -1

ASSUME CampaignAssumption ==
  /\ N \in Nat /\ MaxJobs \in Nat \ {0} /\ MaxStarts \in Nat /\ MaxFaults \in Nat
  /\ Shards \subseteq (Nat \ {0}) \X (Nat \ {0}) /\ <<1, 1>> \in Shards
  /\ \A s \in Shards : s[1] <= s[2]
  /\ Journeys \subseteq Cells
  /\ Faults \subseteq {"idle-death", "torn-json"}

VARIABLES
  (* On disk. *)
  rows,       \* the runs whose run.json can be read
  events,     \* what each run's events.jsonl holds, appended in turn (Traces)
  summaries,  \* the runs whose summary.json can be read
  workflows,  \* the journeys whose workflow run can be read
  lines,      \* the cells a readable line of cells.jsonl certifies
  torn,       \* cells.jsonl ends in a fragment of a line
  (* Of the process. *)
  phase,      \* how far runCampaignFile() is; "off": no process
  opt,        \* the invocation's options
  reusable,   \* the cells a stopped run finished and left verifiable
  todo,       \* the cells no lane has taken yet (`next` and what follows)
  lane,       \* what each lane of runCampaign() is doing
  worker,     \* the pool's workers
  how,        \* how each cell came to be placed in the report
  writing,    \* the writes chained and not performed yet
  awaited,    \* how many of them the invocation's end waits for
  (* Bounds. *)
  starts, faults

disk == <<rows, events, summaries, workflows, lines, torn>>
run == <<phase, opt, reusable, todo, lane, worker, how, writing, awaited>>
vars == <<disk, run, starts, faults>>

(* --jobs above 1 is a pool of workers; --concurrency is lanes on one thread. *)
Options ==
  {o \in [jobs : Lanes, pooled : BOOLEAN, resume : BOOLEAN, shard : Shards] : o.pooled => o.jobs > 1}

NoOptions == [jobs |-> 1, pooled |-> FALSE, resume |-> FALSE, shard |-> <<1, 1>>]

Placings == {"none", "ran", "error", "reused"}

(* What a trace that was appended reads as: whole; cut after one of its       *)
(* lines; cut within a line; or short of its first line, which was written    *)
(* behind such a fragment and joined it.                                     *)
Traces == {"whole", "part", "cut", "joined"}

Write == [kind : {"run", "events", "summary"}, run : Runs] \union [kind : {"line", "workflow"}, run : Cells]

Rest == [at |-> "out", cell |-> None, worker |-> 0]
Ready == [at |-> "loop", cell |-> None, worker |-> 0]
Fresh == [alive |-> TRUE, busy |-> FALSE]
Gone == [alive |-> FALSE, busy |-> FALSE]

First(S) == {c \in S : \A d \in S : c <= d}
ShardCells(s) == {c \in Cells : c % s[2] = s[1] - 1}
Elements(s) == {s[i] : i \in DOMAIN s}

(* MUTANT of Verified: the line is believed without the events' digest. *)
Believed == lines

(* reusableCells(): a line whose run's events still digest to what it recorded. *)
Verified == {c \in lines : events[c] = <<"whole">>}

Init ==
  /\ rows = {} /\ events = [r \in Runs |-> <<>>] /\ summaries = {} /\ workflows = {}
  /\ lines = {} /\ torn = FALSE
  /\ phase = "off" /\ opt = NoOptions
  /\ reusable = {} /\ todo = {}
  /\ lane = [l \in Lanes |-> Rest] /\ worker = [l \in Lanes |-> Gone]
  /\ how = [c \in Cells |-> "none"] /\ writing = <<>> /\ awaited = 0
  /\ starts = 0 /\ faults = 0

-----------------------------------------------------------------------------
(* The command is given: the reusable cells are read, the pool is started    *)
(* and every lane of runCampaign() with it.                                  *)
Start(o) ==
  /\ phase = "off" /\ starts < MaxStarts
  /\ starts' = starts + 1
  /\ phase' = "running" /\ opt' = o
  /\ reusable' = IF o.resume THEN Verified ELSE {}
  /\ todo' = ShardCells(o.shard)
  /\ lane' = [l \in Lanes |->
                IF l <= o.jobs /\ l <= Cardinality(ShardCells(o.shard)) THEN Ready ELSE Rest]
  /\ worker' = [w \in Lanes |-> IF o.pooled /\ w <= o.jobs THEN Fresh ELSE Gone]
  /\ how' = [c \in Cells |-> "none"] /\ writing' = <<>> /\ awaited' = 0
  /\ UNCHANGED <<disk, faults>>

(* A lane with no cell left goes home. *)
GoHome(l) ==
  /\ lane[l].at = "loop" /\ todo = {}
  /\ lane' = [lane EXCEPT ![l] = Rest]
  /\ UNCHANGED <<disk, phase, opt, reusable, todo, worker, how, writing, awaited, starts, faults>>

(* idle(): the first worker of the pool that is not busy, dead or alive. *)
Idle == {w \in Lanes : w <= opt.jobs /\ ~worker[w].busy}

(* The worker is given a cell. *)
Handed(w) == [worker EXCEPT ![w].busy = TRUE]

(* A lane takes the next cell: reused, run here, or handed to a worker. *)
Take(l) ==
  /\ lane[l].at = "loop" /\ todo # {}
  /\ \E c \in First(todo) :
     /\ todo' = todo \ {c}
     /\ \/ /\ c \in reusable
           /\ lane' = [lane EXCEPT ![l] = [at |-> "reuse", cell |-> c, worker |-> 0]]
           /\ UNCHANGED worker
        \/ /\ c \notin reusable /\ ~opt.pooled
           /\ lane' = [lane EXCEPT ![l] = [at |-> "run", cell |-> c, worker |-> 0]]
           /\ UNCHANGED worker
        \/ /\ c \notin reusable /\ opt.pooled
           /\ \E w \in First(Idle) :
                /\ lane' = [lane EXCEPT ![l] = [at |-> "run", cell |-> c, worker |-> w]]
                /\ worker' = Handed(w)
  /\ UNCHANGED <<disk, phase, opt, reusable, how, writing, awaited, starts, faults>>

(* The worker has answered: it is idle again. *)
Freed(w) == IF w = 0 THEN worker ELSE [worker EXCEPT ![w].busy = FALSE]

(* The first lane to throw settles runCampaign(): the catch waits for the    *)
(* writes chained so far.                                                    *)
RunThrows ==
  IF phase = "running" THEN phase' = "stopping" /\ awaited' = Len(writing') ELSE UNCHANGED <<phase, awaited>>

(* A run is kept: its record, its events, its summary. *)
RunWrites(r) ==
  <<[kind |-> "run", run |-> r], [kind |-> "events", run |-> r], [kind |-> "summary", run |-> r]>>

(* MUTANT of WritesOf: the line is chained before the run. *)
WritesLineFirst(c) == <<[kind |-> "line", run |-> c]>> \o RunWrites(c)

(* onTrace(): the cell's run, then the line that names it. *)
WritesOf(c) == RunWrites(c) \o <<[kind |-> "line", run |-> c]>>

(* onWorkflowRun(): the journey's other run and its workflow run, chained     *)
(* before the cell lands; a worker of the pool has nobody to tell.           *)
JourneyWrites(c) ==
  IF c \in Journeys /\ ~opt.pooled
  THEN RunWrites(Stage(c)) \o <<[kind |-> "workflow", run |-> c]>> ELSE <<>>

(* A cell that ran lands: placed by ordinal, its trace chained to disk; one   *)
(* that failed inside is an error of its own and leaves no run.              *)
Ran(l, traced) ==
  LET c == lane[l].cell IN
  /\ lane[l].at = "run" /\ (lane[l].worker # 0 => worker[lane[l].worker].alive)
  /\ worker' = Freed(lane[l].worker)
  /\ how' = [how EXCEPT ![c] = IF traced THEN "ran" ELSE "error"]
  /\ writing' = IF traced THEN writing \o JourneyWrites(c) \o WritesOf(c) ELSE writing

(* A reused cell lands as its line tells it. *)
Reused(l) ==
  /\ lane[l].at = "reuse"
  /\ how' = [how EXCEPT ![lane[l].cell] = "reused"]
  /\ UNCHANGED <<worker, writing>>

(* A cell lands and its lane goes on. *)
Lands(l) ==
  /\ Reused(l) \/ \E traced \in BOOLEAN : Ran(l, traced)
  /\ lane' = [lane EXCEPT ![l] = Ready]
  /\ UNCHANGED <<disk, phase, opt, reusable, todo, awaited, starts, faults>>

(* A cell lands, and onCell() or betweenCells() stops its lane with a throw. *)
LandsAndStops(l) ==
  /\ faults < MaxFaults /\ faults' = faults + 1
  /\ Reused(l) \/ \E traced \in BOOLEAN : Ran(l, traced)
  /\ lane' = [lane EXCEPT ![l] = Rest]
  /\ RunThrows
  /\ UNCHANGED <<disk, opt, reusable, todo, starts>>

(* MUTANT of Orphans: a death rejects nothing. *)
OrphansNone(w) == {}

(* The lanes whose cell a worker holds. *)
Orphans(w) == {l \in Lanes : lane[l].at = "run" /\ lane[l].worker = w}

(* A worker dies: the cell it holds is rejected, which no lane catches; the   *)
(* dead worker stays in the pool, and is idle.                               *)
WorkerDies(w) ==
  /\ faults < MaxFaults /\ faults' = faults + 1
  /\ worker[w].alive /\ (worker[w].busy \/ "idle-death" \in Faults)
  /\ worker' = [worker EXCEPT ![w] = Gone]
  /\ lane' = [l \in Lanes |-> IF l \in Orphans(w) THEN Rest ELSE lane[l]]
  /\ writing' = writing
  /\ IF Orphans(w) # {} THEN RunThrows ELSE UNCHANGED <<phase, awaited>>
  /\ UNCHANGED <<disk, opt, reusable, todo, how, starts>>

-----------------------------------------------------------------------------
(* appendEvents() adds to what the run's events.jsonl holds.  Behind a        *)
(* fragment its first line is lost with it; where the fragment was of the     *)
(* second line, the first one of the earlier attempt stands in for it.       *)
Appended(r) ==
  IF events[r] # <<>> /\ events[r][Len(events[r])] = "cut"
  THEN {Append(events[r], "joined")} \union {e \in {<<"whole">>} : events[r] = <<"cut">>}
  ELSE {Append(events[r], "whole")}

(* What one chained write leaves.  A line written after a fragment joins it   *)
(* and neither can be read.                                                  *)
Put(w) ==
  /\ rows' = IF w.kind = "run" THEN rows \union {w.run} ELSE rows
  /\ IF w.kind = "events" THEN \E e \in Appended(w.run) : events' = [events EXCEPT ![w.run] = e]
                          ELSE events' = events
  /\ summaries' = IF w.kind = "summary" THEN summaries \union {w.run} ELSE summaries
  /\ workflows' = IF w.kind = "workflow" THEN workflows \union {w.run} ELSE workflows
  /\ lines' = IF w.kind = "line" /\ ~torn THEN lines \union {w.run} ELSE lines
  /\ torn' = (torn /\ w.kind # "line")

(* A write cut short: part of a trace, a fragment of a line, a JSON file that *)
(* is no longer JSON.                                                        *)
Tear(w) ==
  /\ w.kind \in {"events", "line"} \/ "torn-json" \in Faults
  /\ rows' = IF w.kind = "run" THEN rows \ {w.run} ELSE rows
  /\ IF w.kind = "events"
     THEN \E t \in {"part", "cut"} : events' = [events EXCEPT ![w.run] = Append(@, t)]
     ELSE events' = events
  /\ summaries' = IF w.kind = "summary" THEN summaries \ {w.run} ELSE summaries
  /\ workflows' = IF w.kind = "workflow" THEN workflows \ {w.run} ELSE workflows
  /\ lines' = lines
  /\ torn' = (torn \/ w.kind = "line")

(* The one writer performs the next write of the chain. *)
WriteNext ==
  /\ phase # "off" /\ writing # <<>>
  /\ Put(Head(writing))
  /\ writing' = Tail(writing)
  /\ awaited' = IF awaited > 0 THEN awaited - 1 ELSE 0
  /\ UNCHANGED <<phase, opt, reusable, todo, lane, worker, how, starts, faults>>

(* The process is over, whatever it was doing. *)
Over ==
  /\ phase' = "off" /\ lane' = [l \in Lanes |-> Rest] /\ worker' = [w \in Lanes |-> Gone]
  /\ writing' = <<>> /\ awaited' = 0
  /\ opt' = NoOptions /\ reusable' = {} /\ todo' = {} /\ how' = [c \in Cells |-> "none"]
  /\ UNCHANGED <<starts>>

(* The process is killed, possibly in the middle of a write. *)
Crash ==
  /\ phase # "off" /\ faults < MaxFaults /\ faults' = faults + 1
  /\ UNCHANGED disk \/ (writing # <<>> /\ Tear(Head(writing)))
  /\ Over

(* A write fails, perhaps half done, and every write chained after it is      *)
(* skipped.  Awaited, the failure is the invocation's; awaited by nobody, it  *)
(* is an unhandled rejection and ends the process.                           *)
WriteFails ==
  /\ phase # "off" /\ writing # <<>> /\ faults < MaxFaults /\ faults' = faults + 1
  /\ UNCHANGED disk \/ Tear(Head(writing))
  /\ IF phase \in {"stopping", "settling"} /\ Len(writing) = awaited
     THEN /\ writing' = <<>> /\ awaited' = 0
          /\ phase' = IF phase = "settling" THEN "failed" ELSE phase
          /\ UNCHANGED <<opt, reusable, todo, lane, worker, how, starts>>
     ELSE Over

-----------------------------------------------------------------------------
(* Every lane is home: runCampaign() returns, and the writes are awaited. *)
RunReturns ==
  /\ phase = "running" /\ \A l \in Lanes : lane[l].at = "out"
  /\ phase' = "settling" /\ awaited' = Len(writing)
  /\ UNCHANGED <<disk, opt, reusable, todo, lane, worker, how, writing, starts, faults>>

(* MUTANT of Landed: the writes are not awaited. *)
Unawaited == TRUE

(* `await writing` resolves. *)
Landed == awaited = 0

(* The pool is let go. *)
Release ==
  /\ phase = "settling" /\ Landed
  /\ phase' = "telling" /\ worker' = [w \in Lanes |-> Gone]
  /\ UNCHANGED <<disk, opt, reusable, todo, lane, how, writing, awaited, starts, faults>>

(* The report, which is `how`, is filed step by step: the sampled stories are *)
(* told from the stored runs; the report is stored beside them; its file is   *)
(* written; then its renderings.                                             *)
Filing == {<<"telling", "storing">>, <<"storing", "reporting">>, <<"reporting", "rendering">>,
           <<"rendering", "ended">>}

FileReport ==
  /\ \E f \in Filing : phase = f[1] /\ phase' = f[2]
  /\ UNCHANGED <<disk, opt, reusable, todo, lane, worker, how, writing, awaited, starts, faults>>

(* A step of it fails, and those that follow are not taken. *)
FilingFails ==
  /\ \E f \in Filing : phase = f[1]
  /\ faults < MaxFaults /\ faults' = faults + 1
  /\ phase' = "failed"
  /\ UNCHANGED <<disk, opt, reusable, todo, lane, worker, how, writing, awaited, starts>>

(* What was written is whole, the pool is let go, and the stop is the error. *)
Rethrow ==
  /\ phase = "stopping" /\ Landed
  /\ phase' = "failed" /\ worker' = [w \in Lanes |-> Gone]
  /\ UNCHANGED <<disk, opt, reusable, todo, lane, how, writing, awaited, starts, faults>>

(* Nothing keeps the process: no write, no lane that could go on, no worker. *)
Exit ==
  /\ phase \in {"ended", "failed"} /\ writing = <<>>
  /\ \A l \in Lanes : lane[l].at = "out" \/ (lane[l].at = "run" /\ lane[l].worker # 0)
  /\ \A w \in Lanes : ~worker[w].alive
  /\ Over /\ UNCHANGED <<disk, faults>>

LaneStep(l) == GoHome(l) \/ Take(l) \/ Lands(l)
Finish == WriteNext \/ RunReturns \/ Release \/ FileReport \/ Rethrow \/ Exit
Fault == (\E l \in Lanes : LandsAndStops(l) \/ WorkerDies(l)) \/ Crash \/ WriteFails \/ FilingFails

Next ==
  \/ \E o \in Options : Start(o)
  \/ \E l \in Lanes : LaneStep(l)
  \/ Finish \/ Fault

(* A cell ends, by its budgets or its deadline; a write ends.  Nobody owes an *)
(* invocation.                                                               *)
Fairness == WF_vars(Finish) /\ \A l \in Lanes : WF_vars(LaneStep(l))

Spec == Init /\ [][Next]_vars /\ Fairness

-----------------------------------------------------------------------------
LaneState == [at : {"out", "loop", "run", "reuse"}, cell : Cells \union {None}, worker : 0 .. MaxJobs]

Phases ==
  {"off", "running", "stopping", "settling", "telling", "storing", "reporting", "rendering", "ended", "failed"}

(* The variables have their types. *)
TypeOK ==
  /\ rows \subseteq Runs /\ summaries \subseteq Runs /\ workflows \subseteq Cells
  /\ lines \subseteq Cells /\ torn \in BOOLEAN
  /\ events \in [Runs -> Seq(Traces)]
  /\ phase \in Phases
  /\ opt \in Options /\ reusable \subseteq Cells /\ todo \subseteq Cells
  /\ lane \in [Lanes -> LaneState] /\ worker \in [Lanes -> [alive : BOOLEAN, busy : BOOLEAN]]
  /\ how \in [Cells -> Placings]
  /\ writing \in Seq(Write) /\ awaited \in Nat /\ starts \in Nat /\ faults \in Nat

(* A trace of the run is stored: whole, or, where a write of an earlier       *)
(* attempt was cut within a line, whole but for the first event behind it.   *)
TraceStored(r) ==
  \/ "whole" \in Elements(events[r])
  \/ {"cut", "joined"} \subseteq Elements(events[r])

(* A run is stored: its record, a trace of it and its summary. *)
RunStored(r) == r \in rows /\ TraceStored(r) /\ r \in summaries

(* A line is written last: whatever crashed, a cell that cells.jsonl names    *)
(* has its run on disk, with a trace that misses an event only behind the     *)
(* fragment of an attempt that was cut short.                                *)
LineComesLast == "torn-json" \notin Faults => \A c \in lines : RunStored(c)

(* What is not run again is still what was recorded: a cell the report takes  *)
(* from an earlier run keeps its line and exactly one whole trace, while      *)
(* other lanes, the pool and the writer are at work.                         *)
ReusedIsVerified ==
  \A c \in Cells : how[c] = "reused" => c \in lines /\ events[c] = <<"whole">>

(* A report is stored, or its file written, only when it is whole: every     *)
(* cell of its slice is placed, and the run of every cell that ran for it,    *)
(* with a journey's other run and workflow run when no pool is used, has      *)
(* landed before it, as whole as LineComesLast says.                         *)
ReportIsWhole ==
  phase \in {"storing", "reporting", "rendering", "ended"} =>
    /\ \A c \in ShardCells(opt.shard) : how[c] # "none"
    /\ "torn-json" \notin Faults =>
         \A c \in Cells : how[c] = "ran" =>
           /\ RunStored(c)
           /\ c \in Journeys /\ ~opt.pooled => RunStored(Stage(c)) /\ c \in workflows

(* Every invocation comes to an end: a report, an error, or no process.      *)
CampaignEnds == phase = "running" ~> phase \in {"ended", "failed", "off"}

(* A resumed campaign has each run on disk once: nothing of a trace is stored *)
(* twice.                                                                    *)
StoredOnce ==
  opt.resume => \A c \in Cells : Len(SelectSeq(events[c], LAMBDA e : e = "whole")) <= 1
=============================================================================

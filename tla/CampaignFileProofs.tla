------------------------- MODULE CampaignFileProofs -------------------------
(* Theorems about CampaignFile, for any number of cells, lanes, slices,      *)
(* invocations and faults.                                                   *)
EXTENDS CampaignFile, FiniteSetTheorems, TLAPS

(***************************************************************************)
(* The pieces the steps share                                              *)
(***************************************************************************)

(* What is chained on a chain of writes. *)
LEMMA Chained ==
  ASSUME NEW S, NEW s \in Seq(S), NEW t \in Seq(S)
  PROVE  /\ s \o t \in Seq(S) /\ Len(s \o t) = Len(s) + Len(t)
         /\ \A i \in 1 .. Len(s) : (s \o t)[i] = s[i]
         /\ \A i \in 1 .. Len(t) : (s \o t)[Len(s) + i] = t[i]
  OBVIOUS

(* The runs of a cell are runs, and a stage's run is no cell's (runId). *)
LEMMA StagesAreRuns ==
  ASSUME NEW c \in Cells
  PROVE  c \in Runs /\ (c \in Journeys => Stage(c) \in Runs) /\ Stage(c) \notin Cells
BY CampaignAssumption DEF Runs, Stage, Cells

(* The writes of a cell are writes (onTrace, onWorkflowRun). *)
LEMMA WritesAreTyped ==
  ASSUME NEW c \in Cells
  PROVE  WritesOf(c) \in Seq(Write) /\ JourneyWrites(c) \in Seq(Write)
<1>1. ASSUME NEW r \in Runs
      PROVE  RunWrites(r) \in Seq(Write)
  <2>1. /\ [kind |-> "run", run |-> r] \in Write /\ [kind |-> "events", run |-> r] \in Write
        /\ [kind |-> "summary", run |-> r] \in Write
    BY DEF Write
  <2> HIDE DEF Write
  <2>2. QED
    BY <2>1 DEF RunWrites
<1>2. <<[kind |-> "line", run |-> c]>> \in Seq(Write) /\ <<[kind |-> "workflow", run |-> c]>> \in Seq(Write)
  <2>1. [kind |-> "line", run |-> c] \in Write /\ [kind |-> "workflow", run |-> c] \in Write
    BY DEF Write
  <2> HIDE DEF Write
  <2>2. QED
    BY <2>1
<1>3. \A s, t \in Seq(Write) : s \o t \in Seq(Write)
  BY Chained
<1> HIDE DEF Write
<1>4. WritesOf(c) \in Seq(Write)
  BY <1>1, <1>2, <1>3, StagesAreRuns DEF WritesOf
<1>5. CASE c \in Journeys /\ ~opt.pooled
  <2>1. RunWrites(Stage(c)) \in Seq(Write)
    BY <1>1, <1>5, StagesAreRuns
  <2>2. RunWrites(Stage(c)) \o <<[kind |-> "workflow", run |-> c]>> \in Seq(Write)
    BY <1>2, <1>3, <2>1
  <2>3. QED
    BY <1>4, <1>5, <2>2 DEF JourneyWrites
<1>6. CASE ~(c \in Journeys /\ ~opt.pooled)
  <2>1. JourneyWrites(c) = <<>>
    BY <1>6 DEF JourneyWrites
  <2>2. QED
    BY <1>4, <2>1
<1>7. QED
  BY <1>5, <1>6

(* A pool that is let go is a pool (close). *)
LEMMA LetGo == [w \in Lanes |-> Gone] \in [Lanes -> [alive : BOOLEAN, busy : BOOLEAN]]
<1>1. Gone \in [alive : BOOLEAN, busy : BOOLEAN]
  BY DEF Gone
<1>2. QED
  BY <1>1

(* A process that is over leaves nothing of the wrong type. *)
LEMMA OverTypes ==
  ASSUME TypeOK, Over
  PROVE  /\ phase' = "off" /\ opt' \in Options /\ reusable' \subseteq Cells /\ todo' \subseteq Cells
         /\ lane' \in [Lanes -> LaneState] /\ worker' \in [Lanes -> [alive : BOOLEAN, busy : BOOLEAN]]
         /\ how' \in [Cells -> Placings]
         /\ writing' \in Seq(Write) /\ awaited' \in Nat /\ starts' \in Nat
<1>1. NoOptions \in Options
  BY CampaignAssumption DEF NoOptions, Options, Lanes
<1>2. QED
  BY <1>1, CampaignAssumption DEF Over, Rest, Gone, LaneState, Placings, TypeOK, None

(* What a write leaves on disk has the right type (putRun, appendEvents). *)
LEMMA DiskTypes ==
  ASSUME TypeOK, NEW w \in Write, Put(w) \/ Tear(w)
  PROVE  /\ rows' \subseteq Runs /\ summaries' \subseteq Runs /\ workflows' \subseteq Cells
         /\ lines' \subseteq Cells /\ torn' \in BOOLEAN
         /\ events' \in [Runs -> Seq(Traces)]
<1>1. w.run \in Runs /\ (w.kind \in {"line", "workflow"} => w.run \in Cells)
  BY DEF Write, Runs
<1>2. Appended(w.run) \subseteq Seq(Traces)
  <2>1. events[w.run] \in Seq(Traces) /\ {"whole", "joined"} \subseteq Traces
    BY <1>1 DEF TypeOK, Traces
  <2> HIDE DEF Traces
  <2>2. /\ Append(events[w.run], "whole") \in Seq(Traces) /\ Append(events[w.run], "joined") \in Seq(Traces)
        /\ <<"whole">> \in Seq(Traces)
    BY <2>1
  <2>3. QED
    BY <2>2 DEF Appended
<1>3. CASE Put(w)
  <2>1. events' \in [Runs -> Seq(Traces)]
    BY <1>1, <1>2, <1>3 DEF Put, TypeOK
  <2>2. QED
    BY <1>1, <1>3, <2>1 DEF Put, TypeOK
<1>4. CASE Tear(w)
  <2>1. events' \in [Runs -> Seq(Traces)]
    <3>1. events \in [Runs -> Seq(Traces)] /\ {"part", "cut"} \subseteq Traces
      BY DEF TypeOK, Traces
    <3> HIDE DEF Traces
    <3>2. \A t \in {"part", "cut"} : Append(events[w.run], t) \in Seq(Traces)
      BY <1>1, <3>1
    <3>3. QED
      BY <1>1, <1>4, <3>1, <3>2 DEF Tear
  <2>2. QED
    BY <1>1, <1>4, <2>1 DEF Tear, TypeOK
<1>5. QED
  BY <1>3, <1>4

(***************************************************************************)
(* Types                                                                   *)
(***************************************************************************)

(* Cells that ran are chained as writes of theirs (onTrace). *)
LEMMA RanTypes ==
  ASSUME TypeOK, NEW l \in Lanes, NEW traced \in BOOLEAN, Ran(l, traced)
  PROVE  /\ lane[l].cell \in Cells => writing' \in Seq(Write) /\ how' \in [Cells -> Placings]
         /\ worker' \in [Lanes -> [alive : BOOLEAN, busy : BOOLEAN]]
<1>1. worker' \in [Lanes -> [alive : BOOLEAN, busy : BOOLEAN]]
  BY CampaignAssumption DEF Ran, Freed, TypeOK, LaneState, Lanes
<1>2. ASSUME lane[l].cell \in Cells
      PROVE  writing' \in Seq(Write) /\ how' \in [Cells -> Placings]
  <2>1. how' \in [Cells -> Placings]
    BY <1>2 DEF Ran, TypeOK, Placings
  <2>2. writing \o JourneyWrites(lane[l].cell) \in Seq(Write)
    BY <1>2, WritesAreTyped, Chained DEF TypeOK
  <2>3. writing \o JourneyWrites(lane[l].cell) \o WritesOf(lane[l].cell) \in Seq(Write)
    BY <1>2, <2>2, WritesAreTyped, Chained
  <2>4. QED
    BY <2>1, <2>3 DEF Ran, TypeOK
<1>3. QED
  BY <1>1, <1>2

(* A lane that runs or reuses a cell holds one (lane). *)
LanesHoldCells == \A l \in Lanes : lane[l].at \in {"run", "reuse"} => lane[l].cell \in Cells

(* A cell that lands leaves what it touches of the right type. *)
LEMMA LandingTypes ==
  ASSUME TypeOK, LanesHoldCells, NEW l \in Lanes, Reused(l) \/ \E traced \in BOOLEAN : Ran(l, traced)
  PROVE  /\ writing' \in Seq(Write) /\ how' \in [Cells -> Placings]
         /\ worker' \in [Lanes -> [alive : BOOLEAN, busy : BOOLEAN]]
<1>1. CASE Reused(l)
  BY <1>1 DEF Reused, TypeOK, LanesHoldCells, Placings
<1>2. ASSUME NEW traced \in BOOLEAN, Ran(l, traced)
      PROVE  /\ writing' \in Seq(Write) /\ how' \in [Cells -> Placings]
             /\ worker' \in [Lanes -> [alive : BOOLEAN, busy : BOOLEAN]]
  <2>1. lane[l].cell \in Cells
    BY <1>2 DEF Ran, LanesHoldCells
  <2>2. QED
    BY <1>2, <2>1, RanTypes
<1>3. QED
  BY <1>1, <1>2

(* A write that is cut short, or is not made at all, leaves the disk typed. *)
LEMMA CutShortTypes ==
  ASSUME TypeOK, UNCHANGED disk \/ (writing # <<>> /\ Tear(Head(writing)))
  PROVE  /\ rows' \subseteq Runs /\ summaries' \subseteq Runs /\ workflows' \subseteq Cells
         /\ lines' \subseteq Cells /\ torn' \in BOOLEAN
         /\ events' \in [Runs -> Seq(Traces)]
<1>1. CASE UNCHANGED disk
  BY <1>1 DEF disk, TypeOK
<1>2. CASE writing # <<>> /\ Tear(Head(writing))
  <2>1. Head(writing) \in Write
    BY <1>2 DEF TypeOK
  <2>2. QED
    BY <1>2, <2>1, DiskTypes
<1>3. QED
  BY <1>1, <1>2

(* The variables have their types at the start. *)
LEMMA TypesAtInit ==
  ASSUME Init
  PROVE  TypeOK /\ LanesHoldCells
<1>1. NoOptions \in Options
  BY CampaignAssumption DEF NoOptions, Options, Lanes
<1>2. lane \in [Lanes -> LaneState] /\ LanesHoldCells
  BY CampaignAssumption DEF Init, LanesHoldCells, Rest, LaneState, None
<1>3. worker \in [Lanes -> [alive : BOOLEAN, busy : BOOLEAN]]
      /\ events \in [Runs -> Seq(Traces)] /\ how \in [Cells -> Placings]
  BY LetGo DEF Init, Placings
<1>4. writing \in Seq(Write) /\ awaited \in Nat /\ starts \in Nat /\ faults \in Nat
  BY DEF Init
<1>5. rows \subseteq Runs /\ summaries \subseteq Runs /\ workflows \subseteq Cells
      /\ lines \subseteq Cells /\ reusable \subseteq Cells /\ todo \subseteq Cells
  BY DEF Init
<1>6. torn \in BOOLEAN
  BY DEF Init
<1>7. phase \in Phases /\ opt \in Options
  BY <1>1 DEF Init, Phases
<1>8. QED
  BY <1>2, <1>3, <1>4, <1>5, <1>6, <1>7 DEF TypeOK

(* Every step of every invocation keeps them. *)
LEMMA TypesStep ==
  ASSUME TypeOK, LanesHoldCells, [Next]_vars
  PROVE  TypeOK' /\ LanesHoldCells'
<1> USE CampaignAssumption DEF None
<1>1. ASSUME NEW o \in Options, Start(o)
      PROVE  TypeOK' /\ LanesHoldCells'
  <2>1. lane' \in [Lanes -> LaneState] /\ LanesHoldCells'
    BY <1>1 DEF Start, Ready, Rest, LaneState, LanesHoldCells
  <2>2. phase' \in Phases /\ writing' \in Seq(Write) /\ awaited' \in Nat /\ starts' \in Nat /\ faults' \in Nat
    BY <1>1 DEF Start, TypeOK, Phases
  <2>3. opt' \in Options /\ reusable' \subseteq Cells /\ todo' \subseteq Cells
    BY <1>1 DEF Start, TypeOK, ShardCells, Verified
  <2>4. worker' \in [Lanes -> [alive : BOOLEAN, busy : BOOLEAN]] /\ how' \in [Cells -> Placings]
    BY <1>1 DEF Start, Fresh, Gone, Placings
  <2>5. QED
    BY <1>1, <2>1, <2>2, <2>3, <2>4 DEF Start, TypeOK, disk
<1>2. ASSUME NEW l \in Lanes, GoHome(l)
      PROVE  TypeOK' /\ LanesHoldCells'
  BY <1>2 DEF GoHome, TypeOK, LanesHoldCells, disk, Rest, LaneState
<1>3. ASSUME NEW l \in Lanes, Take(l)
      PROVE  TypeOK' /\ LanesHoldCells'
  <2>1. PICK c \in First(todo) :
          /\ todo' = todo \ {c}
          /\ \/ /\ lane' = [lane EXCEPT ![l] = [at |-> "reuse", cell |-> c, worker |-> 0]]
                /\ worker' = worker
             \/ /\ lane' = [lane EXCEPT ![l] = [at |-> "run", cell |-> c, worker |-> 0]]
                /\ worker' = worker
             \/ \E w \in First(Idle) :
                  /\ lane' = [lane EXCEPT ![l] = [at |-> "run", cell |-> c, worker |-> w]]
                  /\ worker' = Handed(w)
    BY <1>3 DEF Take
  <2>2. c \in Cells /\ \A w \in First(Idle) : w \in Lanes /\ w \in 0 .. MaxJobs
    BY DEF First, Idle, TypeOK, Lanes
  <2>3. PICK at \in {"reuse", "run"}, w \in 0 .. MaxJobs :
          lane' = [lane EXCEPT ![l] = [at |-> at, cell |-> c, worker |-> w]]
    BY <2>1, <2>2
  <2>4. lane' \in [Lanes -> LaneState] /\ LanesHoldCells'
    BY <2>2, <2>3 DEF LaneState, TypeOK, LanesHoldCells
  <2>5. \A v \in Lanes : Handed(v) \in [Lanes -> [alive : BOOLEAN, busy : BOOLEAN]]
    BY DEF TypeOK, Handed
  <2>6. worker' \in [Lanes -> [alive : BOOLEAN, busy : BOOLEAN]]
    BY <2>1, <2>2, <2>5 DEF TypeOK
  <2>7. QED
    BY <1>3, <2>1, <2>4, <2>6 DEF Take, TypeOK, disk
<1>4. ASSUME NEW l \in Lanes, Lands(l)
      PROVE  TypeOK' /\ LanesHoldCells'
  <2>1. lane' \in [Lanes -> LaneState] /\ LanesHoldCells'
    BY <1>4 DEF Lands, Ready, LaneState, TypeOK, LanesHoldCells
  <2>2. /\ writing' \in Seq(Write) /\ how' \in [Cells -> Placings]
        /\ worker' \in [Lanes -> [alive : BOOLEAN, busy : BOOLEAN]]
    BY <1>4, LandingTypes DEF Lands
  <2>3. QED
    BY <1>4, <2>1, <2>2 DEF Lands, TypeOK, disk
<1>5. ASSUME NEW l \in Lanes, LandsAndStops(l)
      PROVE  TypeOK' /\ LanesHoldCells'
  <2>1. lane' \in [Lanes -> LaneState] /\ LanesHoldCells'
    BY <1>5 DEF LandsAndStops, Rest, LaneState, TypeOK, LanesHoldCells
  <2>2. /\ writing' \in Seq(Write) /\ how' \in [Cells -> Placings]
        /\ worker' \in [Lanes -> [alive : BOOLEAN, busy : BOOLEAN]]
    BY <1>5, LandingTypes DEF LandsAndStops
  <2>3. phase' \in Phases /\ awaited' \in Nat
    BY <1>5, <2>2 DEF LandsAndStops, RunThrows, TypeOK, Phases
  <2>4. QED
    BY <1>5, <2>1, <2>2, <2>3 DEF LandsAndStops, TypeOK, disk
<1>6. ASSUME NEW w \in Lanes, WorkerDies(w)
      PROVE  TypeOK' /\ LanesHoldCells'
  <2>1. lane' \in [Lanes -> LaneState] /\ LanesHoldCells'
    BY <1>6 DEF WorkerDies, Rest, LaneState, TypeOK, LanesHoldCells
  <2>2. phase' \in Phases /\ awaited' \in Nat
    BY <1>6 DEF WorkerDies, RunThrows, TypeOK, Phases
  <2>3. QED
    BY <1>6, <2>1, <2>2 DEF WorkerDies, Gone, TypeOK, disk
<1>7. CASE WriteNext
  <2>1. Head(writing) \in Write /\ writing' \in Seq(Write) /\ awaited' \in Nat
    BY <1>7 DEF WriteNext, TypeOK
  <2>2. QED
    BY <1>7, <2>1, DiskTypes DEF WriteNext, TypeOK, LanesHoldCells
<1>8. ASSUME Over
      PROVE  LanesHoldCells'
  BY <1>8 DEF Over, LanesHoldCells, Rest
<1>9. CASE Crash
  <2>1. /\ rows' \subseteq Runs /\ summaries' \subseteq Runs /\ workflows' \subseteq Cells
        /\ lines' \subseteq Cells /\ torn' \in BOOLEAN
        /\ events' \in [Runs -> Seq(Traces)]
    BY <1>9, CutShortTypes DEF Crash
  <2>2. QED
    BY <1>8, <1>9, <2>1, OverTypes DEF Crash, TypeOK, Phases
<1>10. CASE WriteFails
  <2>1. /\ rows' \subseteq Runs /\ summaries' \subseteq Runs /\ workflows' \subseteq Cells
        /\ lines' \subseteq Cells /\ torn' \in BOOLEAN
        /\ events' \in [Runs -> Seq(Traces)]
    BY <1>10, CutShortTypes DEF WriteFails
  <2>2. faults' \in Nat
    BY <1>10 DEF WriteFails, TypeOK
  <2>3. ASSUME Over
        PROVE  TypeOK' /\ LanesHoldCells'
    BY <1>8, <2>1, <2>2, <2>3, OverTypes DEF TypeOK, Phases
  <2>4. CASE phase \in {"stopping", "settling"} /\ Len(writing) = awaited
    <3>1. /\ writing' = <<>> /\ awaited' = 0 /\ phase' \in {"failed", phase}
          /\ UNCHANGED <<opt, reusable, todo, lane, worker, how, starts>>
      BY <1>10, <2>4 DEF WriteFails
    <3>2. QED
      BY <2>1, <2>2, <3>1 DEF TypeOK, LanesHoldCells, Phases
  <2>5. QED
    BY <1>10, <2>3, <2>4 DEF WriteFails
<1>11. CASE RunReturns
  BY <1>11 DEF RunReturns, TypeOK, disk, LanesHoldCells, Phases
<1>12. CASE Release \/ Rethrow
  <2>1. worker' \in [Lanes -> [alive : BOOLEAN, busy : BOOLEAN]]
    BY <1>12, LetGo DEF Release, Rethrow
  <2>2. QED
    BY <1>12, <2>1 DEF Release, Rethrow, TypeOK, disk, LanesHoldCells, Phases
<1>13. CASE FileReport \/ FilingFails
  <2>1. phase' \in Phases
    BY <1>13 DEF FileReport, FilingFails, Filing, Phases
  <2>2. QED
    BY <1>13, <2>1 DEF FileReport, FilingFails, TypeOK, disk, LanesHoldCells
<1>14. CASE Exit
  BY <1>8, <1>14, OverTypes DEF Exit, TypeOK, disk, Phases
<1>15. CASE UNCHANGED vars
  BY <1>15 DEF vars, disk, run, TypeOK, LanesHoldCells
<1>16. QED
  BY <1>1, <1>2, <1>3, <1>4, <1>5, <1>6, <1>7, <1>9, <1>10, <1>11, <1>12, <1>13, <1>14, <1>15
     DEF Next, LaneStep, Finish, Fault

(* Whatever fails, every reachable state is well typed. *)
LEMMA TypesAlways == Spec => [](TypeOK /\ LanesHoldCells)
  BY TypesAtInit, TypesStep, PTL DEF Spec

(* The variables keep their types, crashes and restarts included. *)
THEOREM TypeCorrect == Spec => []TypeOK
  BY TypesAlways, PTL

(***************************************************************************)
(* A line is written last                                                  *)
(***************************************************************************)

Kinds == {"run", "events", "summary", "line", "workflow"}

(* What a line says of a cell: its run, its events and its summary. *)
Marks == {"run", "events", "summary"}

(* A write of a kind that has landed for a run can be read back. *)
Stored(k, r) ==
  /\ k = "run" => r \in rows
  /\ k = "events" => TraceStored(r)
  /\ k = "summary" => r \in summaries
  /\ k = "workflow" => r \in workflows

(* A write is chained in front of the i-th. *)
Before(i, k, r) == \E j \in 1 .. i - 1 : writing[j] = [kind |-> k, run |-> r]

(* What a line is about is on disk, or chained in front of the line. *)
LinesWait ==
  \A i \in 1 .. Len(writing), c \in Cells, k \in Marks :
    writing[i] = [kind |-> "line", run |-> c] => Stored(k, c) \/ Before(i, k, c)

LinesHold == \A c \in lines, k \in Marks : Stored(k, c)

(* The strengthening of LineComesLast. *)
Ordered == LinesHold /\ LinesWait

(* A trace is among what the file holds as soon as it is appended. *)
LEMMA ElementsGrow ==
  ASSUME NEW S, NEW s \in Seq(S), NEW x \in S
  PROVE  Elements(Append(s, x)) = Elements(s) \union {x}
<1>1. \A i \in 1 .. Len(s) : Append(s, x)[i] = s[i]
  OBVIOUS
<1>2. Append(s, x)[Len(s) + 1] = x /\ Len(Append(s, x)) = Len(s) + 1
  OBVIOUS
<1>3. DOMAIN s = 1 .. Len(s) /\ DOMAIN Append(s, x) = 1 .. Len(s) + 1 /\ Len(s) \in Nat
  BY <1>2
<1> HIDE DEF Elements
<1>4. ASSUME NEW y
      PROVE  (\E i \in 1 .. Len(s) + 1 : y = Append(s, x)[i]) <=> (y = x \/ \E i \in 1 .. Len(s) : y = s[i])
  BY <1>1, <1>2, <1>3
<1>5. QED
  BY <1>3, <1>4 DEF Elements

(* What appendEvents() leaves holds a trace of the run, whatever was there. *)
LEMMA AppendedIsStored ==
  ASSUME TypeOK, NEW r \in Runs, NEW e \in Appended(r)
  PROVE  "whole" \in Elements(e) \/ {"cut", "joined"} \subseteq Elements(e)
<1>1. events[r] \in Seq(Traces) /\ {"whole", "joined", "cut"} \subseteq Traces
  BY DEF TypeOK, Traces
<1>2. CASE e = Append(events[r], "whole")
  BY <1>1, <1>2, ElementsGrow
<1>3. CASE e = <<"whole">>
  BY <1>3 DEF Elements
<1>4. CASE e = Append(events[r], "joined") /\ events[r] # <<>> /\ events[r][Len(events[r])] = "cut"
  <2>1. Elements(e) = Elements(events[r]) \union {"joined"}
    BY <1>1, <1>4, ElementsGrow
  <2>2. Len(events[r]) \in DOMAIN events[r]
    BY <1>1, <1>4
  <2>3. "cut" \in Elements(events[r])
    BY <1>4, <2>2 DEF Elements
  <2>4. QED
    BY <2>1, <2>3
<1>5. QED
  BY <1>2, <1>3, <1>4 DEF Appended

(* A write adds to what can be read back, and takes nothing away (putRun,    *)
(* appendEvents, putRunSummary).                                             *)
LEMMA PutStores ==
  ASSUME TypeOK, NEW w \in Write, Put(w)
  PROVE  /\ \A k \in Kinds, r \in Runs : Stored(k, r) => Stored(k, r)'
         /\ w.kind # "line" => Stored(w.kind, w.run)'
         /\ lines' \subseteq IF w.kind = "line" THEN lines \union {w.run} ELSE lines
<1>1. w.run \in Runs /\ w.kind \in Kinds
  BY DEF Write, Kinds, Runs
<1>2. /\ \A r \in Runs : TraceStored(r) => TraceStored(r)'
      /\ w.kind = "events" => TraceStored(w.run)'
  <2>1. CASE w.kind = "events"
    <3>1. PICK e \in Appended(w.run) : events' = [events EXCEPT ![w.run] = e]
      BY <2>1 DEF Put
    <3>2. \A r \in Runs : events'[r] = IF r = w.run THEN e ELSE events[r]
      BY <3>1 DEF TypeOK
    <3>3. "whole" \in Elements(e) \/ {"cut", "joined"} \subseteq Elements(e)
      BY <1>1, <3>1, AppendedIsStored
    <3>4. QED
      BY <1>1, <3>2, <3>3 DEF TraceStored
  <2>2. CASE w.kind # "events"
    BY <2>2 DEF Put, TraceStored
  <2>3. QED
    BY <2>1, <2>2
<1>3. \A r : (r \in rows => r \in rows') /\ (r \in summaries => r \in summaries')
             /\ (r \in workflows => r \in workflows')
  BY DEF Put
<1>4. /\ w.kind = "run" => w.run \in rows'
      /\ w.kind = "summary" => w.run \in summaries'
      /\ w.kind = "workflow" => w.run \in workflows'
      /\ lines' \subseteq IF w.kind = "line" THEN lines \union {w.run} ELSE lines
  BY DEF Put
<1>5. QED
  BY <1>1, <1>2, <1>3, <1>4 DEF Stored

(* A write cut short takes nothing away, if JSON files are not torn. *)
LEMMA TearKeeps ==
  ASSUME TypeOK, NEW w \in Write, Tear(w), "torn-json" \notin Faults
  PROVE  (\A k \in Kinds, r \in Runs : Stored(k, r) => Stored(k, r)') /\ lines' = lines
<1>1. w.run \in Runs /\ w.kind \in {"events", "line"} /\ {"part", "cut"} \subseteq Traces
  BY DEF Write, Tear, Runs, Traces
<1>2. \A r \in Runs : TraceStored(r) => TraceStored(r)'
  <2>1. CASE w.kind = "events"
    <3>1. PICK t \in {"part", "cut"} : events' = [events EXCEPT ![w.run] = Append(@, t)]
      BY <2>1 DEF Tear
    <3>2. \A r \in Runs : events'[r] = IF r = w.run THEN Append(events[r], t) ELSE events[r]
      BY <3>1 DEF TypeOK
    <3>3. Elements(Append(events[w.run], t)) = Elements(events[w.run]) \union {t}
      BY <1>1, ElementsGrow DEF TypeOK
    <3>4. \A r \in Runs : Elements(events[r]) \subseteq Elements(events'[r])
      BY <3>2, <3>3
    <3>5. QED
      BY <3>4 DEF TraceStored
  <2>2. CASE w.kind # "events"
    BY <2>2 DEF Tear, TraceStored
  <2>3. QED
    BY <2>1, <2>2
<1>3. QED
  BY <1>1, <1>2 DEF Tear, Stored, Kinds

(* The next write lands: what waited for it does so no longer (writing). *)
LEMMA NextLands ==
  ASSUME TypeOK, Ordered, WriteNext
  PROVE  Ordered'
<1>1. PICK w \in Write : w = Head(writing)
  BY DEF WriteNext, TypeOK
<1>2. /\ Len(writing') = Len(writing) - 1 /\ Len(writing) \in Nat \ {0}
      /\ \A i \in 1 .. Len(writing') : writing'[i] = writing[i + 1] /\ i + 1 \in 1 .. Len(writing)
      /\ writing[1] = w
  BY <1>1 DEF WriteNext, TypeOK
<1>3. Put(w)
  BY <1>1 DEF WriteNext
<1>4. /\ \A k \in Kinds, r \in Runs : Stored(k, r) => Stored(k, r)'
      /\ w.kind # "line" => Stored(w.kind, w.run)'
      /\ lines' \subseteq IF w.kind = "line" THEN lines \union {w.run} ELSE lines
  BY <1>3, PutStores
<1>5. ASSUME NEW c \in lines', NEW k \in Marks
      PROVE  Stored(k, c)'
  <2>1. k \in Kinds
    BY DEF Marks, Kinds
  <2>2. CASE c \in lines
    BY <1>4, <2>1, <2>2 DEF Ordered, LinesHold, TypeOK, Runs
  <2>3. CASE c \notin lines
    <3>1. c \in Runs /\ c \in Cells /\ w = [kind |-> "line", run |-> c]
      BY <1>4, <2>3 DEF Write, Runs
    <3>2. Stored(k, c) \/ Before(1, k, c)
      BY <1>2, <3>1 DEF Ordered, LinesWait
    <3>3. ~Before(1, k, c)
      BY DEF Before
    <3>4. QED
      BY <1>4, <2>1, <3>1, <3>2, <3>3
  <2>4. QED
    BY <2>2, <2>3
<1>6. ASSUME NEW i \in 1 .. Len(writing'), NEW c \in Cells, NEW k \in Marks,
             writing'[i] = [kind |-> "line", run |-> c]
      PROVE  Stored(k, c)' \/ Before(i, k, c)'
  <2>1. k \in Kinds /\ k # "line" /\ i \in Nat /\ c \in Runs
    BY <1>2 DEF Marks, Kinds, Runs
  <2>2. Stored(k, c) \/ Before(i + 1, k, c)
    BY <1>2, <1>6 DEF Ordered, LinesWait
  <2>3. CASE Stored(k, c)
    BY <1>4, <2>1, <2>3
  <2>4. CASE Before(i + 1, k, c)
    <3>1. PICK j \in 1 .. i : writing[j] = [kind |-> k, run |-> c]
      BY <2>1, <2>4 DEF Before
    <3>2. CASE j = 1
      <4>1. w.kind = k /\ w.run = c
        BY <1>2, <3>1, <3>2
      <4>2. QED
        BY <1>4, <2>1, <4>1
    <3>3. CASE j > 1
      <4>1. j - 1 \in 1 .. i - 1 /\ j - 1 \in 1 .. Len(writing') /\ (j - 1) + 1 = j
        BY <1>2, <2>1, <3>3
      <4>2. writing'[j - 1] = [kind |-> k, run |-> c]
        BY <1>2, <3>1, <4>1
      <4>3. QED
        BY <4>1, <4>2 DEF Before
    <3>4. QED
      BY <3>2, <3>3
  <2>5. QED
    BY <2>2, <2>3, <2>4
<1>7. QED
  BY <1>5, <1>6 DEF Ordered, LinesHold, LinesWait

(* What a cell that ran chains: a journey's other run and its workflow run,   *)
(* then its own run, its events, its summary and its line (onWorkflowRun,    *)
(* onTrace).                                                                 *)
IsChained(n, c) ==
  /\ n >= Len(writing) /\ Len(writing') = n + 4 /\ Len(writing) \in Nat
  /\ \A i \in 1 .. Len(writing) : writing'[i] = writing[i]
  /\ \A i \in Len(writing) + 1 .. n :
       c \in Journeys /\ writing'[i].run \in {c, Stage(c)} /\ writing'[i].kind # "line"
  /\ writing'[n + 1] = [kind |-> "run", run |-> c]
  /\ writing'[n + 2] = [kind |-> "events", run |-> c]
  /\ writing'[n + 3] = [kind |-> "summary", run |-> c]
  /\ writing'[n + 4] = [kind |-> "line", run |-> c]
  /\ c \in Journeys /\ ~opt.pooled =>
       /\ n = Len(writing) + 4
       /\ writing'[Len(writing) + 1] = [kind |-> "run", run |-> Stage(c)]
       /\ writing'[Len(writing) + 2] = [kind |-> "events", run |-> Stage(c)]
       /\ writing'[Len(writing) + 3] = [kind |-> "summary", run |-> Stage(c)]
       /\ writing'[Len(writing) + 4] = [kind |-> "workflow", run |-> c]

LEMMA WhatIsChained ==
  ASSUME TypeOK, LanesHoldCells, NEW l \in Lanes, Ran(l, TRUE), NEW c \in Cells, c = lane[l].cell
  PROVE  \E n \in Nat : IsChained(n, c)
<1> DEFINE J == JourneyWrites(c)
           W == WritesOf(c)
           s == writing \o J
<1>1. writing \in Seq(Write) /\ J \in Seq(Write) /\ W \in Seq(Write) /\ writing' = s \o W
  BY WritesAreTyped DEF TypeOK, Ran
<1>2. /\ Len(W) = 4
      /\ W[1] = [kind |-> "run", run |-> c] /\ W[2] = [kind |-> "events", run |-> c]
      /\ W[3] = [kind |-> "summary", run |-> c] /\ W[4] = [kind |-> "line", run |-> c]
  BY DEF WritesOf, RunWrites
<1>3. /\ c \in Journeys /\ ~opt.pooled =>
           /\ Len(J) = 4
           /\ J[1] = [kind |-> "run", run |-> Stage(c)] /\ J[2] = [kind |-> "events", run |-> Stage(c)]
           /\ J[3] = [kind |-> "summary", run |-> Stage(c)] /\ J[4] = [kind |-> "workflow", run |-> c]
      /\ ~(c \in Journeys /\ ~opt.pooled) => Len(J) = 0
  BY DEF JourneyWrites, RunWrites
<1> HIDE DEF J, W
<1>4. /\ s \in Seq(Write) /\ Len(s) = Len(writing) + Len(J)
      /\ \A i \in 1 .. Len(writing) : s[i] = writing[i]
      /\ \A i \in 1 .. Len(J) : s[Len(writing) + i] = J[i]
  BY <1>1, Chained
<1> HIDE DEF s
<1>5. /\ Len(writing') = Len(s) + Len(W)
      /\ \A i \in 1 .. Len(s) : writing'[i] = s[i]
      /\ \A i \in 1 .. Len(W) : writing'[Len(s) + i] = W[i]
  <2>1. s \in Seq(Write) /\ W \in Seq(Write)
    BY <1>1, <1>4
  <2>2. /\ Len(s \o W) = Len(s) + Len(W)
        /\ \A i \in 1 .. Len(s) : (s \o W)[i] = s[i]
        /\ \A i \in 1 .. Len(W) : (s \o W)[Len(s) + i] = W[i]
    BY <2>1, Chained
  <2>3. QED
    BY <1>1, <2>2
<1>6. Len(s) \in Nat /\ Len(writing) \in Nat /\ Len(J) \in {0, 4}
  BY <1>1, <1>3, <1>4
<1>7. /\ Len(s) >= Len(writing) /\ Len(writing') = Len(s) + 4
      /\ \A i \in 1 .. Len(writing) : writing'[i] = writing[i]
  <2>1. Len(s) >= Len(writing) /\ Len(writing') = Len(s) + 4
    BY <1>2, <1>4, <1>5, <1>6
  <2>2. \A i \in 1 .. Len(writing) : i \in 1 .. Len(s)
    BY <1>6, <2>1
  <2>3. QED
    BY <1>4, <1>5, <2>1, <2>2
<1>8. \A i \in 1 .. Len(J) : writing'[Len(writing) + i] = J[i]
  <2>1. \A i \in 1 .. Len(J) : Len(writing) + i \in 1 .. Len(s)
    BY <1>4, <1>6
  <2>2. QED
    BY <1>4, <1>5, <2>1
<1>9. /\ writing'[Len(s) + 1] = W[1] /\ writing'[Len(s) + 2] = W[2]
      /\ writing'[Len(s) + 3] = W[3] /\ writing'[Len(s) + 4] = W[4]
  BY <1>2, <1>5
<1>10. CASE c \in Journeys /\ ~opt.pooled
  <2>1. Len(J) = 4 /\ Len(s) = Len(writing) + 4
    BY <1>3, <1>4, <1>10
  <2>2. /\ writing'[Len(writing) + 1] = J[1] /\ writing'[Len(writing) + 2] = J[2]
        /\ writing'[Len(writing) + 3] = J[3] /\ writing'[Len(writing) + 4] = J[4]
    BY <1>8, <2>1
  <2>3. ASSUME NEW i \in Len(writing) + 1 .. Len(s)
        PROVE  writing'[i].run \in {c, Stage(c)} /\ writing'[i].kind # "line"
    <3>1. \/ i = Len(writing) + 1 \/ i = Len(writing) + 2
          \/ i = Len(writing) + 3 \/ i = Len(writing) + 4
      BY <1>6, <2>1
    <3>2. QED
      BY <1>3, <1>10, <2>2, <3>1
  <2>4. IsChained(Len(s), c)
    BY <1>2, <1>3, <1>6, <1>7, <1>9, <1>10, <2>1, <2>2, <2>3 DEF IsChained
  <2>5. QED
    BY <1>6, <2>4
<1>11. CASE ~(c \in Journeys /\ ~opt.pooled)
  <2>1. Len(s) = Len(writing)
    BY <1>3, <1>4, <1>6, <1>11
  <2>2. ~ \E i \in Len(writing) + 1 .. Len(s) : TRUE
    BY <1>6, <2>1
  <2>3. IsChained(Len(s), c)
    BY <1>2, <1>6, <1>7, <1>9, <1>11, <2>2 DEF IsChained
  <2>4. QED
    BY <1>6, <2>3
<1>12. QED
  BY <1>10, <1>11

(* A cell that ran chains its line behind its run, events and summary. *)
LEMMA RanIsOrdered ==
  ASSUME TypeOK, LanesHoldCells, Ordered, UNCHANGED disk, NEW l \in Lanes, NEW traced \in BOOLEAN, Ran(l, traced)
  PROVE  Ordered'
<1>1. /\ \A k, d : Stored(k, d)' <=> Stored(k, d)
      /\ lines' = lines
  BY DEF disk, Stored, TraceStored
<1>2. CASE ~traced
  <2>1. writing' = writing
    BY <1>2 DEF Ran
  <2>2. QED
    BY <1>1, <2>1 DEF Ordered, LinesHold, LinesWait, Before
<1>3. CASE traced
  <2>1. PICK c \in Cells : c = lane[l].cell
    BY DEF Ran, LanesHoldCells
  <2>2. PICK n \in Nat : IsChained(n, c)
    BY <1>3, <2>1, WhatIsChained
  <2> USE <2>2 DEF IsChained
  <2>3. ASSUME NEW i \in 1 .. Len(writing'), NEW d \in Cells, NEW k \in Marks,
               writing'[i] = [kind |-> "line", run |-> d]
        PROVE  Stored(k, d)' \/ Before(i, k, d)'
    <3>1. i \in 1 .. Len(writing) \/ i \in Len(writing) + 1 .. n \/ i \in n + 1 .. n + 4
      OBVIOUS
    <3>2. CASE i \in 1 .. Len(writing)
      <4>1. writing'[i] = writing[i] /\ \A j \in 1 .. i - 1 : writing'[j] = writing[j]
        BY <2>2, <3>2
      <4>2. Stored(k, d) \/ Before(i, k, d)
        BY <2>3, <3>2, <4>1 DEF Ordered, LinesWait
      <4>3. QED
        BY <1>1, <4>1, <4>2 DEF Before
    <3>3. CASE i \in Len(writing) + 1 .. n
      BY <2>3, <3>3
    <3>4. CASE i \in n + 1 .. n + 4
      <4>1. i = n + 4 /\ d = c
        BY <2>2, <2>3, <3>4
      <4>2. \E j \in 1 .. i - 1 : writing'[j] = [kind |-> k, run |-> d]
        BY <2>2, <4>1 DEF Marks
      <4>3. QED
        BY <4>2 DEF Before
    <3>5. QED
      BY <3>1, <3>2, <3>3, <3>4
  <2>4. QED
    BY <1>1, <2>3 DEF Ordered, LinesHold, LinesWait
<1>4. QED
  BY <1>2, <1>3

(* A step that leaves the disk and the chain alone, or ends the process with   *)
(* the disk as it is, leaves the order alone.                                *)
LEMMA OrderStands ==
  ASSUME Ordered, UNCHANGED disk, writing' = writing \/ writing' = <<>>
  PROVE  Ordered'
<1>1. (\A k, d : Stored(k, d)' <=> Stored(k, d)) /\ lines' = lines
  BY DEF disk, Stored, TraceStored
<1>2. CASE writing' = writing
  BY <1>1, <1>2 DEF Ordered, LinesHold, LinesWait, Before
<1>3. CASE writing' = <<>>
  BY <1>1, <1>3 DEF Ordered, LinesHold, LinesWait
<1>4. QED
  BY <1>2, <1>3

(* The order is kept by every step, if JSON files are not torn. *)
LEMMA OrderStep ==
  ASSUME TypeOK, LanesHoldCells, Ordered, [Next]_vars, "torn-json" \notin Faults
  PROVE  Ordered'
<1>1. ASSUME NEW o \in Options, Start(o)
      PROVE  Ordered'
  BY <1>1, OrderStands DEF Start
<1>2. ASSUME NEW l \in Lanes, GoHome(l) \/ Take(l) \/ WorkerDies(l)
      PROVE  Ordered'
  BY <1>2, OrderStands DEF GoHome, Take, WorkerDies
<1>3. ASSUME NEW l \in Lanes, Lands(l) \/ LandsAndStops(l)
      PROVE  Ordered'
  <2>1. UNCHANGED disk /\ (Reused(l) \/ \E traced \in BOOLEAN : Ran(l, traced))
    BY <1>3 DEF Lands, LandsAndStops
  <2>2. CASE Reused(l)
    BY <2>1, <2>2, OrderStands DEF Reused
  <2>3. ASSUME NEW traced \in BOOLEAN, Ran(l, traced)
        PROVE  Ordered'
    BY <2>1, <2>3, RanIsOrdered
  <2>4. QED
    BY <2>1, <2>2, <2>3
<1>4. CASE WriteNext
  BY <1>4, NextLands
<1>5. CASE Crash \/ WriteFails
  <2>1. writing' = <<>> /\ (UNCHANGED disk \/ (writing # <<>> /\ Tear(Head(writing))))
    BY <1>5 DEF Crash, WriteFails, Over
  <2>2. CASE UNCHANGED disk
    BY <2>1, <2>2, OrderStands
  <2>3. ASSUME writing # <<>>, Tear(Head(writing))
        PROVE  Ordered'
    <3>1. PICK w \in Write : w = Head(writing)
      BY <2>3 DEF TypeOK
    <3>2. (\A k \in Kinds, r \in Runs : Stored(k, r) => Stored(k, r)') /\ lines' = lines
      BY <2>3, <3>1, TearKeeps
    <3>3. Marks \subseteq Kinds /\ lines \subseteq Runs
      BY DEF Marks, Kinds, TypeOK, Runs
    <3>4. QED
      BY <2>1, <3>2, <3>3 DEF Ordered, LinesHold, LinesWait
  <2>4. QED
    BY <2>1, <2>2, <2>3
<1>6. CASE RunReturns \/ Release \/ Rethrow
  BY <1>6, OrderStands DEF RunReturns, Release, Rethrow
<1>7. CASE FileReport \/ FilingFails
  BY <1>7, OrderStands DEF FileReport, FilingFails
<1>8. CASE Exit
  BY <1>8, OrderStands DEF Exit, Over
<1>9. CASE UNCHANGED vars
  BY <1>9, OrderStands DEF vars, run
<1>10. QED
  BY <1>1, <1>2, <1>3, <1>4, <1>5, <1>6, <1>7, <1>8, <1>9 DEF Next, LaneStep, Finish, Fault

(* A line is written last: whatever crashed, however often, a cell that        *)
(* cells.jsonl names has its run, its summary and its trace on disk, whole    *)
(* or short of the event a torn attempt's fragment took with it.             *)
THEOREM LinesComeLast == Spec => []LineComesLast
<1> DEFINE Inv == "torn-json" \notin Faults => Ordered
<1>1. Init => Inv
  BY DEF Init, Ordered, LinesHold, LinesWait
<1>2. TypeOK /\ LanesHoldCells /\ Inv /\ [Next]_vars => Inv'
  BY OrderStep
<1>3. Inv => LineComesLast
  BY DEF Ordered, LinesHold, LineComesLast, RunStored, Marks, Stored
<1> HIDE DEF Inv
<1>4. QED
  BY <1>1, <1>2, <1>3, TypesAlways, PTL DEF Spec

(***************************************************************************)
(* What is reused is what was recorded                                     *)
(***************************************************************************)

(* No lane runs, and no write touches, a cell the invocation may reuse. *)
ReuseIsApart ==
  /\ \A c \in reusable : c \in lines /\ events[c] = <<"whole">>
  /\ \A i \in 1 .. Len(writing) : writing[i].run \notin reusable
  /\ \A l \in Lanes : /\ lane[l].at = "run" => lane[l].cell \notin reusable
                      /\ lane[l].at = "reuse" => lane[l].cell \in reusable
  /\ \A c \in Cells : how[c] = "reused" => c \in reusable

(* A cell that lands is reused only if it may be, and writes only if it may  *)
(* not (runCampaignFile's execute).                                          *)
LEMMA LandingIsApart ==
  ASSUME TypeOK, LanesHoldCells, ReuseIsApart, UNCHANGED <<disk, reusable>>, NEW l \in Lanes,
         Reused(l) \/ \E traced \in BOOLEAN : Ran(l, traced),
         lane' = [lane EXCEPT ![l] = Ready] \/ lane' = [lane EXCEPT ![l] = Rest]
  PROVE  ReuseIsApart'
<1>1. \A m \in Lanes : /\ lane'[m].at = "run" => lane'[m].cell \notin reusable
                       /\ lane'[m].at = "reuse" => lane'[m].cell \in reusable
  <2>1. \A m \in Lanes : lane'[m] = lane[m] \/ lane'[m] = Ready \/ lane'[m] = Rest
    BY DEF TypeOK
  <2>2. QED
    BY <2>1 DEF ReuseIsApart, Ready, Rest
<1>2. CASE Reused(l)
  BY <1>1, <1>2 DEF Reused, ReuseIsApart, TypeOK, disk, LanesHoldCells
<1>3. ASSUME NEW traced \in BOOLEAN, Ran(l, traced)
      PROVE  ReuseIsApart'
  <2>1. PICK c \in Cells : c = lane[l].cell
    BY <1>3 DEF Ran, LanesHoldCells
  <2>2. c \notin reusable
    BY <1>3, <2>1 DEF Ran, ReuseIsApart
  <2>3. \A i \in 1 .. Len(writing') : writing'[i].run \notin reusable
    <3>1. CASE ~traced
      BY <1>3, <3>1 DEF Ran, ReuseIsApart
    <3>2. CASE traced
      <4>1. PICK n \in Nat : IsChained(n, c)
        BY <1>3, <2>1, <3>2, WhatIsChained
      <4>2. ASSUME NEW i \in 1 .. Len(writing')
            PROVE  writing'[i].run \in {c, Stage(c)} \/ (i \in 1 .. Len(writing) /\ writing'[i] = writing[i])
        <5>1. i \in 1 .. Len(writing) \/ i \in Len(writing) + 1 .. n
              \/ i = n + 1 \/ i = n + 2 \/ i = n + 3 \/ i = n + 4
          BY <4>1 DEF IsChained
        <5>2. CASE i \in 1 .. Len(writing)
          BY <4>1, <5>2 DEF IsChained
        <5>3. CASE i \in Len(writing) + 1 .. n
          BY <4>1, <5>3 DEF IsChained
        <5>4. CASE i = n + 1 \/ i = n + 2 \/ i = n + 3 \/ i = n + 4
          BY <4>1, <5>4 DEF IsChained
        <5>5. QED
          BY <5>1, <5>2, <5>3, <5>4
      <4>3. Stage(c) \notin reusable
        BY StagesAreRuns DEF TypeOK
      <4>4. QED
        BY <2>2, <4>2, <4>3 DEF ReuseIsApart
    <3>3. QED
      BY <3>1, <3>2
  <2>4. how' = [how EXCEPT ![c] = IF traced THEN "ran" ELSE "error"]
    BY <1>3, <2>1 DEF Ran
  <2>5. QED
    BY <1>1, <2>3, <2>4 DEF ReuseIsApart, TypeOK, disk
<1>4. QED
  BY <1>2, <1>3

(* Every step keeps apart what is reused. *)
LEMMA ApartStep ==
  ASSUME TypeOK, LanesHoldCells, ReuseIsApart, [Next]_vars
  PROVE  ReuseIsApart'
<1> USE DEF ReuseIsApart
<1>1. ASSUME NEW o \in Options, Start(o)
      PROVE  ReuseIsApart'
  BY <1>1 DEF Start, disk, Verified, Ready, Rest, TypeOK
<1>2. ASSUME NEW l \in Lanes, GoHome(l)
      PROVE  ReuseIsApart'
  BY <1>2 DEF GoHome, disk, Rest, TypeOK
<1>3. ASSUME NEW l \in Lanes, Take(l)
      PROVE  ReuseIsApart'
  <2>1. PICK c \in First(todo) :
          \/ c \in reusable /\ lane' = [lane EXCEPT ![l] = [at |-> "reuse", cell |-> c, worker |-> 0]]
          \/ c \notin reusable /\ lane' = [lane EXCEPT ![l] = [at |-> "run", cell |-> c, worker |-> 0]]
          \/ c \notin reusable /\ \E w \in First(Idle) :
               lane' = [lane EXCEPT ![l] = [at |-> "run", cell |-> c, worker |-> w]]
    BY <1>3 DEF Take
  <2>2. UNCHANGED <<disk, reusable, how, writing>>
    BY <1>3 DEF Take
  <2>3. PICK at, w : /\ lane' = [lane EXCEPT ![l] = [at |-> at, cell |-> c, worker |-> w]]
                     /\ (at = "run" /\ c \notin reusable) \/ (at = "reuse" /\ c \in reusable)
    BY <2>1
  <2>4. \A m \in Lanes : lane'[m] = IF m = l THEN [at |-> at, cell |-> c, worker |-> w] ELSE lane[m]
    BY <2>3 DEF TypeOK
  <2>5. \A m \in Lanes : /\ lane'[m].at = "run" => lane'[m].cell \notin reusable
                         /\ lane'[m].at = "reuse" => lane'[m].cell \in reusable
    BY <2>3, <2>4
  <2>6. QED
    BY <2>2, <2>5 DEF disk
<1>4. ASSUME NEW l \in Lanes, Lands(l) \/ LandsAndStops(l)
      PROVE  ReuseIsApart'
  BY <1>4, LandingIsApart DEF Lands, LandsAndStops
<1>5. ASSUME NEW w \in Lanes, WorkerDies(w)
      PROVE  ReuseIsApart'
  BY <1>5 DEF WorkerDies, disk, Rest, TypeOK
<1>6. CASE WriteNext
  <2>1. PICK w \in Write : w = Head(writing) /\ Put(w) /\ w.run \notin reusable
    <3>1. Head(writing) \in Write /\ Head(writing) = writing[1] /\ 1 \in 1 .. Len(writing) /\ Put(Head(writing))
      BY <1>6 DEF WriteNext, TypeOK
    <3>2. QED
      BY <3>1
  <2>2. \A c \in reusable : events'[c] = events[c] /\ (c \in lines => c \in lines')
    <3>1. \A c \in reusable : c \in Runs /\ c # w.run
      BY <2>1 DEF TypeOK, Runs
    <3>2. \A r \in Runs : r # w.run => events'[r] = events[r]
      BY <2>1 DEF Put, TypeOK
    <3>3. QED
      BY <2>1, <3>1, <3>2 DEF Put
  <2>3. \A i \in 1 .. Len(writing') : writing'[i].run \notin reusable
    <3>1. \A i \in 1 .. Len(writing') : i + 1 \in 1 .. Len(writing) /\ writing'[i] = writing[i + 1]
      BY <1>6 DEF WriteNext, TypeOK
    <3>2. QED
      BY <3>1
  <2>4. QED
    BY <1>6, <2>1, <2>2, <2>3 DEF WriteNext, TypeOK
<1>7. ASSUME Over
      PROVE  ReuseIsApart'
  BY <1>7 DEF Over, Rest
<1>8. CASE Crash \/ Exit
  <2>1. Over
    BY <1>8 DEF Crash, Exit
  <2>2. QED
    BY <1>7, <2>1
<1>9. CASE WriteFails
  <2>1. CASE phase \in {"stopping", "settling"} /\ Len(writing) = awaited
    <3>1. /\ writing # <<>> /\ writing' = <<>> /\ UNCHANGED <<reusable, lane, how>>
          /\ UNCHANGED disk \/ Tear(Head(writing))
      BY <1>9, <2>1 DEF WriteFails
    <3>2. Head(writing) = writing[1] /\ 1 \in 1 .. Len(writing)
      BY <3>1 DEF TypeOK
    <3>3. \A c \in reusable : events'[c] = events[c] /\ (c \in lines => c \in lines')
      <4>1. CASE UNCHANGED disk
        BY <4>1 DEF disk
      <4>2. CASE Tear(Head(writing))
        <5>1. \A c \in reusable : c \in Runs /\ c # writing[1].run
          BY <3>2 DEF TypeOK, Runs
        <5>2. QED
          BY <3>2, <4>2, <5>1 DEF Tear, TypeOK
      <4>3. QED
        BY <3>1, <4>1, <4>2
    <3>4. QED
      BY <3>1, <3>3
  <2>2. QED
    BY <1>7, <1>9, <2>1 DEF WriteFails
<1>10. CASE RunReturns \/ Release \/ Rethrow
  BY <1>10 DEF RunReturns, Release, Rethrow, disk
<1>11. CASE FileReport \/ FilingFails
  BY <1>11 DEF FileReport, FilingFails, disk
<1>12. CASE UNCHANGED vars
  BY <1>12 DEF vars, run, disk
<1>13. QED
  BY <1>1, <1>2, <1>3, <1>4, <1>5, <1>6, <1>8, <1>9, <1>10, <1>11, <1>12 DEF Next, LaneStep, Finish, Fault

(* A cell the report takes from an earlier run keeps its line and exactly one *)
(* whole trace, whatever the other lanes, the pool and the writer do.        *)
THEOREM ReusedAreVerified == Spec => []ReusedIsVerified
<1>1. Init => ReuseIsApart
  BY DEF Init, ReuseIsApart, Rest
<1>2. TypeOK /\ LanesHoldCells /\ ReuseIsApart /\ [Next]_vars => ReuseIsApart'
  BY ApartStep
<1>3. ReuseIsApart => ReusedIsVerified
  BY DEF ReuseIsApart, ReusedIsVerified
<1>4. QED
  BY <1>1, <1>2, <1>3, TypesAlways, PTL DEF Spec

(***************************************************************************)
(* A report that is filed is whole                                         *)
(***************************************************************************)

(* The writes a cell that ran owes: its run's, and a journey's. *)
Owed(c) ==
  {[kind |-> k, run |-> c] : k \in Marks}
  \union {w \in {[kind |-> k, run |-> Stage(c)] : k \in Marks} \union {[kind |-> "workflow", run |-> c]} :
            c \in Journeys /\ ~opt.pooled}

(* A write is on disk or chained. *)
OnItsWay(w) == Stored(w.kind, w.run) \/ \E i \in 1 .. Len(writing) : writing[i] = w

RunsLand == \A c \in Cells : how[c] = "ran" => \A w \in Owed(c) : OnItsWay(w)

HeldCell(c) == \E l \in Lanes : lane[l].at \in {"run", "reuse"} /\ lane[l].cell = c

(* The invocation's writes have landed, and its report is being filed. *)
Told == phase \in {"telling", "storing", "reporting", "rendering", "ended"}

(* Nothing of the slice is forgotten while lanes run, and a lane is left as   *)
(* long as a cell is; when they are home everything is placed, and the end    *)
(* waits for every write.                                                    *)
Accounted ==
  /\ phase = "running" =>
       /\ \A c \in ShardCells(opt.shard) : c \in todo \/ how[c] # "none" \/ HeldCell(c)
       /\ todo # {} => \E l \in Lanes : lane[l].at # "out"
  /\ phase = "settling" \/ Told =>
       /\ \A c \in ShardCells(opt.shard) : how[c] # "none"
       /\ \A l \in Lanes : lane[l].at = "out"
       /\ awaited = Len(writing)
  /\ Told => writing = <<>>
  /\ phase \in {"running", "settling"} \/ Told => RunsLand

(* The lanes an invocation starts with: one at least, if it has a cell. *)
LEMMA SomeLaneStarts ==
  ASSUME NEW o \in Options, Start(o), todo' # {}
  PROVE  \E l \in Lanes : lane'[l].at # "out"
<1>1. IsFiniteSet(Cells) /\ ShardCells(o.shard) \in SUBSET Cells
  <2>1. 0 \in Int /\ N - 1 \in Int
    BY CampaignAssumption
  <2>2. IsFiniteSet(Cells)
    BY <2>1, FS_Interval DEF Cells
  <2>3. QED
    BY <2>2 DEF ShardCells
<1>2. IsFiniteSet(ShardCells(o.shard))
  BY <1>1, FS_Subset
<1>3. Cardinality(ShardCells(o.shard)) \in Nat \ {0}
  BY <1>2, FS_CardinalityType, FS_EmptySet DEF Start
<1>4. 1 \in Lanes /\ o.jobs >= 1
  BY CampaignAssumption DEF Lanes, Options
<1>5. lane'[1] = Ready
  BY <1>3, <1>4 DEF Start
<1>6. QED
  BY <1>4, <1>5 DEF Ready

(* What a cell owes are writes of runs, and no line (onTrace). *)
LEMMA OwedWrites ==
  ASSUME NEW c \in Cells, NEW x \in Owed(c)
  PROVE  x.kind \in Kinds /\ x.kind # "line" /\ x.run \in Runs
BY StagesAreRuns DEF Owed, Marks, Kinds

(* A write that lands is owed no longer, and none is lost (writing). *)
LEMMA NextPays ==
  ASSUME TypeOK, RunsLand, WriteNext
  PROVE  RunsLand'
<1>1. PICK w \in Write : w = Head(writing) /\ Put(w)
  BY DEF WriteNext, TypeOK
<1>2. /\ Len(writing') = Len(writing) - 1 /\ Len(writing) \in Nat \ {0}
      /\ \A i \in 1 .. Len(writing') : writing'[i] = writing[i + 1]
      /\ writing[1] = w
  BY <1>1 DEF WriteNext, TypeOK
<1>3. /\ \A k \in Kinds, r \in Runs : Stored(k, r) => Stored(k, r)'
      /\ w.kind # "line" => Stored(w.kind, w.run)'
  BY <1>1, PutStores
<1>4. ASSUME NEW c \in Cells, NEW x \in Owed(c)', how'[c] = "ran"
      PROVE  OnItsWay(x)'
  <2>1. how[c] = "ran" /\ x \in Owed(c)
    BY <1>4 DEF WriteNext, Owed
  <2>2. x.kind \in Kinds /\ x.kind # "line" /\ x.run \in Runs
    BY <2>1, OwedWrites
  <2>3. CASE Stored(x.kind, x.run)
    BY <1>3, <2>2, <2>3 DEF OnItsWay
  <2>4. CASE ~Stored(x.kind, x.run)
    <3>1. PICK i \in 1 .. Len(writing) : writing[i] = x
      BY <2>1, <2>4 DEF RunsLand, OnItsWay
    <3>2. CASE i = 1
      <4>1. w = x
        BY <1>2, <3>1, <3>2
      <4>2. QED
        BY <1>3, <2>2, <4>1 DEF OnItsWay
    <3>3. CASE i # 1
      <4>1. i - 1 \in 1 .. Len(writing') /\ writing'[i - 1] = x
        BY <1>2, <3>1, <3>3
      <4>2. QED
        BY <4>1 DEF OnItsWay
    <3>4. QED
      BY <3>2, <3>3
  <2>5. QED
    BY <2>3, <2>4
<1>5. QED
  BY <1>4 DEF RunsLand

(* A cell that lands has its writes chained (onTrace, onWorkflowRun). *)
LEMMA LandingOwes ==
  ASSUME TypeOK, LanesHoldCells, RunsLand, UNCHANGED <<disk, opt>>, NEW l \in Lanes,
         Reused(l) \/ \E traced \in BOOLEAN : Ran(l, traced)
  PROVE  RunsLand' /\ how'[lane[l].cell] # "none"
                   /\ \A c \in Cells : c # lane[l].cell => how'[c] = how[c]
<1>1. /\ \A k, r : Stored(k, r)' <=> Stored(k, r)
      /\ \A c : Owed(c)' = Owed(c)
  BY DEF disk, Stored, TraceStored, Owed
<1>2. CASE Reused(l)
  <2>1. lane[l].cell \in Cells /\ writing' = writing /\ how' = [how EXCEPT ![lane[l].cell] = "reused"]
    BY <1>2 DEF Reused, LanesHoldCells
  <2>2. QED
    BY <1>1, <2>1 DEF RunsLand, OnItsWay, TypeOK
<1>3. ASSUME NEW traced \in BOOLEAN, Ran(l, traced)
      PROVE  RunsLand' /\ how'[lane[l].cell] # "none"
                       /\ \A c \in Cells : c # lane[l].cell => how'[c] = how[c]
  <2>1. PICK c \in Cells : c = lane[l].cell
    BY <1>3 DEF Ran, LanesHoldCells
  <2>2. how' = [how EXCEPT ![c] = IF traced THEN "ran" ELSE "error"]
    BY <1>3, <2>1 DEF Ran
  <2>3. RunsLand'
    <3>1. CASE ~traced
      <4>1. writing' = writing
        BY <1>3, <3>1 DEF Ran
      <4>2. QED
        BY <1>1, <2>2, <3>1, <4>1 DEF RunsLand, OnItsWay, TypeOK
    <3>2. CASE traced
      <4>1. PICK n \in Nat : IsChained(n, c)
        BY <1>3, <2>1, <3>2, WhatIsChained
      <4>2. ASSUME NEW d \in Cells, NEW x \in Owed(d), how'[d] = "ran"
            PROVE  OnItsWay(x)'
        <5>1. CASE d # c
          <6>1. OnItsWay(x)
            BY <2>2, <4>2, <5>1 DEF RunsLand, TypeOK
          <6>2. \A i \in 1 .. Len(writing) : i \in 1 .. Len(writing') /\ writing'[i] = writing[i]
            BY <4>1 DEF IsChained
          <6>3. QED
            BY <1>1, <6>1, <6>2 DEF OnItsWay
        <5>2. CASE d = c
          <6>1. \E i \in 1 .. Len(writing') : writing'[i] = x
            <7>1. CASE x \in {[kind |-> k, run |-> c] : k \in Marks}
              <8>1. n + 1 \in 1 .. Len(writing') /\ n + 2 \in 1 .. Len(writing') /\ n + 3 \in 1 .. Len(writing')
                BY <4>1 DEF IsChained
              <8>2. x \in {writing'[n + 1], writing'[n + 2], writing'[n + 3]}
                BY <4>1, <7>1 DEF IsChained, Marks
              <8>3. QED
                BY <8>1, <8>2
            <7>2. CASE /\ c \in Journeys /\ ~opt.pooled
                       /\ \/ x \in {[kind |-> k, run |-> Stage(c)] : k \in Marks}
                          \/ x = [kind |-> "workflow", run |-> c]
              <8> DEFINE b == Len(writing)
              <8>1. /\ b + 1 \in 1 .. Len(writing') /\ b + 2 \in 1 .. Len(writing')
                    /\ b + 3 \in 1 .. Len(writing') /\ b + 4 \in 1 .. Len(writing')
                BY <4>1, <7>2 DEF IsChained
              <8>2. x \in {writing'[b + 1], writing'[b + 2], writing'[b + 3], writing'[b + 4]}
                BY <4>1, <7>2 DEF IsChained, Marks
              <8>3. QED
                BY <8>1, <8>2
            <7>3. QED
              BY <4>2, <5>2, <7>1, <7>2 DEF Owed
          <6>2. QED
            BY <6>1 DEF OnItsWay
        <5>3. QED
          BY <5>1, <5>2
      <4>3. QED
        BY <1>1, <4>2 DEF RunsLand
    <3>3. QED
      BY <3>1, <3>2
  <2>4. QED
    BY <2>1, <2>2, <2>3 DEF TypeOK
<1>4. QED
  BY <1>2, <1>3

(* Every step accounts for every cell. *)
LEMMA AccountStep ==
  ASSUME TypeOK, LanesHoldCells, Accounted, [Next]_vars
  PROVE  Accounted'
<1>1. ASSUME NEW o \in Options, Start(o)
      PROVE  Accounted'
  BY <1>1, SomeLaneStarts DEF Start, Accounted, Told, RunsLand
<1>2. ASSUME UNCHANGED <<disk, opt, how, writing>>
      PROVE  RunsLand' <=> RunsLand
  BY <1>2 DEF RunsLand, OnItsWay, Stored, TraceStored, Owed, disk
<1>3. ASSUME NEW l \in Lanes, GoHome(l)
      PROVE  Accounted'
  <2>1. \A c : HeldCell(c) => HeldCell(c)'
    BY <1>3 DEF GoHome, HeldCell, Rest, TypeOK
  <2>2. \A m \in Lanes : lane[m].at = "out" => lane'[m].at = "out"
    BY <1>3 DEF GoHome, Rest, TypeOK
  <2>3. QED
    BY <1>2, <1>3, <2>1, <2>2 DEF GoHome, Accounted, Told
<1>4. ASSUME NEW l \in Lanes, Take(l)
      PROVE  Accounted'
  <2>1. PICK c \in First(todo), at \in {"run", "reuse"}, w \in First(Idle) \union {0} :
          /\ lane' = [lane EXCEPT ![l] = [at |-> at, cell |-> c, worker |-> w]]
          /\ todo' = todo \ {c}
    BY <1>4 DEF Take
  <2>2. \A m \in Lanes : lane'[m] = IF m = l THEN [at |-> at, cell |-> c, worker |-> w] ELSE lane[m]
    BY <2>1 DEF TypeOK
  <2>3. lane[l].at = "loop" /\ UNCHANGED <<disk, phase, opt, how, writing, awaited>>
    BY <1>4 DEF Take
  <2>4. \A d : HeldCell(d) \/ d = c => HeldCell(d)'
    BY <2>2, <2>3 DEF HeldCell
  <2>5. lane'[l].at # "out" /\ lane[l].at # "out"
    BY <2>2, <2>3
  <2>6. QED
    BY <1>2, <2>1, <2>3, <2>4, <2>5 DEF Accounted, Told
<1>5. ASSUME NEW l \in Lanes, Lands(l) \/ LandsAndStops(l)
      PROVE  Accounted'
  <2>1. /\ UNCHANGED <<disk, opt, todo>>
        /\ Reused(l) \/ \E traced \in BOOLEAN : Ran(l, traced)
        /\ phase' = phase \/ (phase = "running" /\ phase' = "stopping")
        /\ phase = "running" /\ phase' = "running" => lane' = [lane EXCEPT ![l] = Ready]
    BY <1>5 DEF Lands, LandsAndStops, RunThrows
  <2>2. lane[l].at # "out" /\ phase # "settling" /\ ~Told
    BY <2>1 DEF Reused, Ran, Accounted, Told
  <2>3. phase = "running" => /\ RunsLand' /\ how'[lane[l].cell] # "none"
                             /\ \A c \in Cells : c # lane[l].cell => how'[c] = how[c]
    BY <2>1, LandingOwes DEF Accounted, Told
  <2>4. CASE phase = "running" /\ phase' = "running"
    <3>1. lane' = [lane EXCEPT ![l] = Ready]
      BY <2>1, <2>4
    <3>2. \A m \in Lanes : lane'[m] = IF m = l THEN Ready ELSE lane[m]
      BY <3>1 DEF TypeOK
    <3>3. \A c : HeldCell(c) => HeldCell(c)' \/ c = lane[l].cell
      BY <3>2 DEF HeldCell
    <3>4. \E m \in Lanes : lane'[m].at # "out"
      BY <3>2 DEF Ready
    <3>5. \A c \in ShardCells(opt.shard) : c \in Cells
      BY DEF ShardCells
    <3>6. QED
      BY <2>1, <2>3, <2>4, <3>3, <3>4, <3>5 DEF Accounted, Told
  <2>5. CASE phase' \notin {"running", "settling"} /\ ~Told'
    BY <2>5 DEF Accounted, Told
  <2>6. (phase = "running" /\ phase' = "running") \/ (phase' \notin {"running", "settling"} /\ ~Told')
    BY <2>1, <2>2 DEF Told
  <2>7. QED
    BY <2>4, <2>5, <2>6
<1>6. ASSUME NEW w \in Lanes, WorkerDies(w)
      PROVE  Accounted'
  <2>1. CASE Orphans(w) = {}
    <3>1. lane' = lane
      BY <1>6, <2>1 DEF WorkerDies, TypeOK
    <3>2. UNCHANGED <<disk, phase, opt, todo, how, writing, awaited>>
      BY <1>6, <2>1 DEF WorkerDies
    <3>3. QED
      BY <1>2, <3>1, <3>2 DEF Accounted, HeldCell, Told
  <2>2. CASE Orphans(w) # {}
    <3>1. phase # "settling" /\ ~Told
      BY <2>2 DEF Orphans, Accounted, Told
    <3>2. phase' \notin {"running", "settling"} /\ ~Told'
      BY <1>6, <2>2, <3>1 DEF WorkerDies, RunThrows, TypeOK, Told
    <3>3. QED
      BY <3>2 DEF Accounted, Told
  <2>3. QED
    BY <2>1, <2>2
<1>7. CASE WriteNext
  <2>1. /\ UNCHANGED <<phase, opt, todo, lane, how>> /\ writing # <<>> /\ writing \in Seq(Write)
        /\ writing' = Tail(writing) /\ awaited' = IF awaited > 0 THEN awaited - 1 ELSE 0
    BY <1>7 DEF WriteNext, TypeOK
  <2>2. Len(writing) \in Nat \ {0} /\ Len(writing') = Len(writing) - 1
    BY <2>1
  <2>3. awaited = Len(writing) => awaited' = Len(writing')
    BY <2>1, <2>2
  <2>4. RunsLand => RunsLand'
    BY <1>7, NextPays
  <2>5. QED
    BY <2>1, <2>3, <2>4 DEF Accounted, HeldCell, Told
<1>8. CASE Crash \/ Exit
  BY <1>8 DEF Crash, Exit, Over, Accounted, Told
<1>9. CASE WriteFails
  <2>1. phase' \in {"off", "failed", "stopping"}
    BY <1>9 DEF WriteFails, Over
  <2>2. QED
    BY <2>1 DEF Accounted, Told
<1>10. CASE RunReturns
  <2>1. /\ phase = "running" /\ phase' = "settling" /\ \A l \in Lanes : lane[l].at = "out"
        /\ awaited' = Len(writing) /\ UNCHANGED <<disk, opt, todo, lane, how, writing>>
    BY <1>10 DEF RunReturns
  <2>2. \A c \in ShardCells(opt.shard) : how[c] # "none"
    BY <2>1 DEF Accounted, HeldCell, Told
  <2>3. QED
    BY <1>2, <2>1, <2>2 DEF Accounted, Told
<1>11. CASE Release
  <2>1. /\ phase = "settling" /\ phase' = "telling" /\ awaited = 0
        /\ UNCHANGED <<disk, opt, lane, how, writing, awaited>>
    BY <1>11 DEF Release, Landed
  <2>2. writing = <<>>
    BY <2>1 DEF Accounted, TypeOK
  <2>3. QED
    BY <1>2, <2>1, <2>2 DEF Accounted, Told
<1>12. CASE FileReport
  <2>1. UNCHANGED <<disk, opt, lane, how, writing, awaited>> /\ Told /\ Told'
        /\ phase' \notin {"running", "settling"}
    BY <1>12 DEF FileReport, Filing, Told
  <2>2. QED
    BY <1>2, <2>1 DEF Accounted
<1>13. CASE Rethrow \/ FilingFails
  BY <1>13 DEF Rethrow, FilingFails, Accounted, Told
<1>14. CASE UNCHANGED vars
  <2>1. UNCHANGED <<disk, phase, opt, todo, lane, how, writing, awaited>>
    BY <1>14 DEF vars, run
  <2>2. QED
    BY <1>2, <2>1 DEF Accounted, HeldCell, Told
<1>15. QED
  BY <1>1, <1>3, <1>4, <1>5, <1>6, <1>7, <1>8, <1>9, <1>10, <1>11, <1>12, <1>13, <1>14
     DEF Next, LaneStep, Finish, Fault

(* A report that is filed has every cell of its slice, and the runs of those  *)
(* that ran for it are on disk, whichever lanes, workers and writes failed.  *)
THEOREM ReportsAreWhole == Spec => []ReportIsWhole
<1>1. Init => Accounted
  BY DEF Init, Accounted, Told
<1>2. TypeOK /\ LanesHoldCells /\ Accounted /\ [Next]_vars => Accounted'
  BY AccountStep
<1>3. TypeOK /\ Accounted => ReportIsWhole
  <2>1. SUFFICES ASSUME TypeOK, Accounted, Told
                 PROVE  /\ \A c \in ShardCells(opt.shard) : how[c] # "none"
                        /\ \A c \in Cells : how[c] = "ran" =>
                             /\ RunStored(c)
                             /\ c \in Journeys /\ ~opt.pooled => RunStored(Stage(c)) /\ c \in workflows
    BY DEF ReportIsWhole, Told
  <2>2. RunsLand /\ writing = <<>>
    BY <2>1 DEF Accounted
  <2>3. Len(writing) = 0
    BY <2>2
  <2>4. ASSUME NEW c \in Cells, how[c] = "ran"
        PROVE  /\ RunStored(c)
               /\ c \in Journeys /\ ~opt.pooled => RunStored(Stage(c)) /\ c \in workflows
    <3>1. \A w \in Owed(c) : Stored(w.kind, w.run)
      BY <2>2, <2>3, <2>4 DEF RunsLand, OnItsWay
    <3>2. ASSUME NEW k \in Marks
          PROVE  Stored(k, c)
      <4>1. [kind |-> k, run |-> c] \in Owed(c)
        BY <3>2 DEF Owed
      <4>2. QED
        BY <3>1, <4>1
    <3>3. ASSUME c \in Journeys, ~opt.pooled
          PROVE  (\A k \in Marks : Stored(k, Stage(c))) /\ Stored("workflow", c)
      <4>1. ASSUME NEW k \in Marks
            PROVE  Stored(k, Stage(c))
        <5>1. [kind |-> k, run |-> Stage(c)] \in Owed(c)
          BY <3>3, <4>1 DEF Owed
        <5>2. QED
          BY <3>1, <5>1
      <4>2. [kind |-> "workflow", run |-> c] \in Owed(c)
        BY <3>3 DEF Owed
      <4>3. QED
        BY <3>1, <4>1, <4>2
    <3>4. QED
      BY <3>2, <3>3 DEF RunStored, Marks, Stored
  <2>5. QED
    BY <2>1, <2>4 DEF Accounted
<1>4. QED
  BY <1>1, <1>2, <1>3, TypesAlways, PTL DEF Spec
=============================================================================

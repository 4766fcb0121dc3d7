------------------------------ MODULE BankDay ------------------------------
(* The scheduler of a bank day: runBank() of packages/workflow/src/bank.ts.  *)
(* Work items arrive on a clock and are queued at the first desk that takes  *)
(* their kind; a desk's lanes work them through a journey each, and a run    *)
(* may hand its case on as a new item for any desk.  A lane is an async      *)
(* function; what it does between two awaits is one step here.               *)
EXTENDS Integers, Sequences, SequencesExt, FiniteSets, FiniteSetsExt

CONSTANTS
  Arrived,    \* the clock delivers the items 1 .. Arrived, in that order
  Follower,   \* Follower[i]: the item i's journey may hand on, 0 when it never does
  KindOf,     \* the kind of every item
  NDesks,     \* desks are 1 .. NDesks, in the order runBank() was given them
  DeskKinds,  \* the kinds each desk takes
  Lanes,      \* the lanes of all desks
  DeskOf,     \* the desk of each lane
  StopAfter,  \* options.stopAfter
  Failing     \* what may throw: "run" (a journey), "sink" (a MonitorSink)

Items == DOMAIN KindOf
Desks == 1 .. NDesks

ASSUME BankAssumption ==
  /\ Arrived \in Nat /\ NDesks \in Nat \ {0} /\ StopAfter \in Nat
  /\ 1 .. Arrived \subseteq Items /\ IsFiniteSet(Items) /\ Items \subseteq Nat \ {0}
  /\ Follower \in [Items -> Items \union {0}]
  /\ DeskKinds \in [Desks -> SUBSET {KindOf[i] : i \in Items}]
  /\ DeskOf \in [Lanes -> Desks] /\ IsFiniteSet(Lanes)
  /\ \A d \in Desks : \E l \in Lanes : DeskOf[l] = d
  /\ Failing \subseteq {"run", "sink"}

VARIABLES
  delivered,  \* how many items the clock has delivered
  clockDone,  \* the clock's loop is over
  taken,      \* arrivals queued at a desk (against StopAfter)
  queue,      \* each desk's own queue
  handoffs,   \* items handed on, waiting for any lane of a desk that takes them
  lane,       \* what each lane is doing
  working,    \* the item a lane works, 0 for none
  outcome,    \* how a lane's run came out, while its sinks are awaited
  ordinal,    \* the ordinal an item was given: its run's clocks and ids are seeded by it
  workedIds,  \* the items workOne() has begun
  counts,     \* counts, over all kinds and desks
  runs,       \* the items of the runs recorded so far
  settled     \* how runBank()'s promise settled, "ended" with its process

vars == <<delivered, clockDone, taken, queue, handoffs, lane, working, outcome, ordinal,
          workedIds, counts, runs, settled>>

(* "ready": woken, to look for work when its turn comes.  "landing": the sinks *)
(* are awaited.  "landed", "throwing": workOne() is over and the lane has not  *)
(* resumed.  "looping": it has, and looks again in the same step.              *)
LaneStates == {"waiting", "ready", "running", "landing", "landed", "throwing",
               "looping", "returned", "thrown"}
Outcomes == {"completed", "stopped", "handed-off"}

InFlight == {l \in Lanes : lane[l] \in {"running", "landing", "landed", "throwing"}}
AtWork == {l \in Lanes : lane[l] \in {"running", "landing"}}

(* The first of a set of desks, 0 when no desk takes the kind. *)
FirstDesk(kind) ==
  LET takers == {d \in Desks : kind \in DeskKinds[d]}
  IN IF takers = {} THEN 0 ELSE Min(takers)

(* Nobody else runs between a lane's run and its next look: no await is there. *)
Uninterrupted(l) == \A k \in Lanes \ {l} : lane[k] # "looping"
Alive == settled # "ended"
Nobody == Alive /\ \A l \in Lanes : lane[l] # "looping"
Looks(l) == Alive /\ lane[l] \in {"ready", "looping"} /\ Uninterrupted(l)

(* MUTANT of Wake: the lane that waits last forgets who waited before it. *)
WakeLast(state) ==
  LET asleep == {l \in Lanes : state[l] = "waiting"}
  IN [l \in Lanes |-> IF asleep # {} /\ l = Max(asleep) THEN "ready" ELSE state[l]]

(* wakeAll(): every lane that waits looks again. *)
Wake(state) == [l \in Lanes |-> IF state[l] = "waiting" THEN "ready" ELSE state[l]]

Tally(names) == [n \in DOMAIN counts |-> counts[n] + IF n \in names THEN 1 ELSE 0]

(* The lanes are started before the clock, find nothing and wait. *)
Init ==
  /\ delivered = 0 /\ clockDone = FALSE /\ taken = 0
  /\ queue = [d \in Desks |-> <<>>] /\ handoffs = <<>>
  /\ lane = [l \in Lanes |-> "waiting"]
  /\ working = [l \in Lanes |-> 0] /\ outcome = [l \in Lanes |-> "completed"]
  /\ ordinal = [i \in Items |-> IF i <= Arrived THEN i ELSE 0]
  /\ workedIds = {} /\ runs = <<>> /\ settled = "pending"
  /\ counts = [n \in {"arrivals", "routed", "unrouted"} \union Outcomes |-> 0]

--------------------------------------------------------------------------------
(* The clock *)

TakesMore == taken < StopAfter

(* An arrival past stopAfter is counted and never worked. *)
Deliver ==
  /\ ~clockDone /\ delivered < Arrived /\ Nobody
  /\ delivered' = delivered + 1
  /\ LET item == delivered + 1
         desk == FirstDesk(KindOf[item])
     IN \/ /\ ~TakesMore
           /\ counts' = Tally({"arrivals"})
           /\ UNCHANGED <<taken, queue, lane>>
        \/ /\ TakesMore /\ desk = 0
           /\ counts' = Tally({"arrivals", "unrouted"})
           /\ UNCHANGED <<taken, queue, lane>>
        \/ /\ TakesMore /\ desk # 0
           /\ counts' = Tally({"arrivals", "routed"})
           /\ taken' = taken + 1
           /\ queue' = [queue EXCEPT ![desk] = Append(@, item)]
           /\ lane' = Wake(lane)
  /\ UNCHANGED <<clockDone, handoffs, working, outcome, ordinal, workedIds, runs, settled>>

ClockEnds ==
  /\ ~clockDone /\ delivered = Arrived /\ Nobody
  /\ clockDone' = TRUE
  /\ lane' = Wake(lane)
  /\ UNCHANGED <<delivered, taken, queue, handoffs, working, outcome, ordinal, workedIds,
                 counts, runs, settled>>

--------------------------------------------------------------------------------
(* A lane *)

(* MUTANT of Begin: an item handed on a second time is worked a second time. *)
BeginAgain(l, item) ==
  /\ working' = [working EXCEPT ![l] = item]
  /\ workedIds' = workedIds \union {item}
  /\ lane' = [lane EXCEPT ![l] = "running"]

(* workOne() throws at once for an item it has begun before. *)
Begin(l, item) ==
  /\ working' = [working EXCEPT ![l] = item]
  /\ workedIds' = workedIds \union {item}
  /\ lane' = [lane EXCEPT ![l] = IF item \in workedIds THEN "throwing" ELSE "running"]

TakeOwn(l) ==
  LET own == queue[DeskOf[l]]
  IN /\ Looks(l) /\ own # <<>>
     /\ queue' = [queue EXCEPT ![DeskOf[l]] = Tail(own)]
     /\ Begin(l, Head(own))
     /\ UNCHANGED <<delivered, clockDone, taken, handoffs, outcome, ordinal, counts, runs, settled>>

(* The handed-on items a lane would take. *)
Takes(l) == {n \in DOMAIN handoffs : KindOf[handoffs[n]] \in DeskKinds[DeskOf[l]]}

(* A lane with nothing of its own takes the first handed-on item its desk works. *)
TakeHandoff(l) ==
  /\ Looks(l) /\ queue[DeskOf[l]] = <<>> /\ Takes(l) # {}
  /\ LET n == Min(Takes(l))
     IN handoffs' = RemoveAt(handoffs, n) /\ Begin(l, handoffs[n])
  /\ counts' = Tally({"arrivals", "routed"})
  /\ UNCHANGED <<delivered, clockDone, taken, queue, outcome, ordinal, runs, settled>>

Drained == handoffs = <<>> /\ InFlight = {} /\ \A d \in Desks : queue[d] = <<>>

(* Nothing to take: the day is over, or the lane waits to be woken. *)
FindNothing(l) ==
  /\ Looks(l) /\ queue[DeskOf[l]] = <<>> /\ Takes(l) = {}
  /\ lane' = [lane EXCEPT ![l] = IF clockDone /\ Drained THEN "returned" ELSE "waiting"]
  /\ UNCHANGED <<delivered, clockDone, taken, queue, handoffs, working, outcome, ordinal,
                 workedIds, counts, runs, settled>>

(* The journey ends, and its run and its agents' runs are given to the sink. *)
RunEnds(l) ==
  /\ lane[l] = "running" /\ Nobody
  /\ lane' = [lane EXCEPT ![l] = "landing"]
  /\ \E how \in IF Follower[working[l]] = 0 THEN Outcomes \ {"handed-off"} ELSE Outcomes :
       outcome' = [outcome EXCEPT ![l] = how]
  /\ UNCHANGED <<delivered, clockDone, taken, queue, handoffs, working, ordinal, workedIds,
                 counts, runs, settled>>

(* MUTANT of HandOn: the case is counted as routed here, and again when it is taken. *)
HandOnRouted(item) ==
  /\ ordinal' = [ordinal EXCEPT ![item] = 1000000 + 1 + counts["handed-off"]]
  /\ handoffs' = Append(handoffs, item)
  /\ counts' = Tally({"handed-off", "arrivals", "routed"})

(* The case handed on is given the next ordinal in the order runs come out, *)
(* and waits for a lane; a kind no desk takes is counted and dropped.       *)
HandOn(item) ==
  /\ ordinal' = [ordinal EXCEPT ![item] = 1000000 + 1 + counts["handed-off"]]
  /\ IF FirstDesk(KindOf[item]) # 0
     THEN handoffs' = Append(handoffs, item) /\ counts' = Tally({"handed-off"})
     ELSE handoffs' = handoffs /\ counts' = Tally({"handed-off", "arrivals", "unrouted"})

(* The sinks have taken the run: it is counted. *)
RunLands(l) ==
  /\ lane[l] = "landing" /\ Nobody
  /\ IF outcome[l] = "handed-off"
     THEN HandOn(Follower[working[l]])
     ELSE counts' = Tally({outcome[l]}) /\ UNCHANGED <<handoffs, ordinal>>
  /\ runs' = Append(runs, working[l])
  /\ lane' = [lane EXCEPT ![l] = "landed"]
  /\ UNCHANGED <<delivered, clockDone, taken, queue, working, outcome, workedIds, settled>>

(* A journey or a sink throws, and the item is lost. *)
Throw(l) ==
  /\ Nobody
  /\ \/ lane[l] = "running" /\ "run" \in Failing
     \/ lane[l] = "landing" /\ "sink" \in Failing
  /\ lane' = [lane EXCEPT ![l] = "throwing"]
  /\ UNCHANGED <<delivered, clockDone, taken, queue, handoffs, working, outcome, ordinal,
                 workedIds, counts, runs, settled>>

(* The lane resumes after workOne(): it wakes the others, and goes on or is gone. *)
Resume(l) ==
  /\ lane[l] \in {"landed", "throwing"} /\ Nobody
  /\ lane' = Wake([lane EXCEPT ![l] = IF @ = "landed" THEN "looping" ELSE "thrown"])
  /\ UNCHANGED <<delivered, clockDone, taken, queue, handoffs, working, outcome, ordinal,
                 workedIds, counts, runs, settled>>

--------------------------------------------------------------------------------
(* The record *)

(* runs.sort(): the same runs by their ordinals, equal ones as they came. *)
Sorted(s) ==
  {[n \in DOMAIN s |-> s[p[n]]] :
     p \in {q \in Bijection(DOMAIN s, DOMAIN s) :
              \A m, n \in DOMAIN s : m < n =>
                \/ ordinal[s[q[m]]] < ordinal[s[q[n]]]
                \/ ordinal[s[q[m]]] = ordinal[s[q[n]]] /\ q[m] < q[n]}}

(* await Promise.all(lanes): the runs are sorted and recorded; one lane's *)
(* throw rejects the day at once, whatever the others are doing.          *)
Settle ==
  /\ clockDone /\ settled = "pending" /\ Nobody
  /\ \/ /\ \A l \in Lanes : lane[l] = "returned"
        /\ runs' \in Sorted(runs)
        /\ settled' \in {"recorded"} \union IF "sink" \in Failing THEN {"rejected"} ELSE {}
     \/ /\ \E l \in Lanes : lane[l] = "thrown"
        /\ settled' = "rejected"
        /\ UNCHANGED runs
  /\ UNCHANGED <<delivered, clockDone, taken, queue, handoffs, lane, working, outcome,
                 ordinal, workedIds, counts>>

(* Until the clock is done a lane's promise has no handler: Node ends the *)
(* process of a lane that throws before, and a browser lets it be.        *)
ProcessEnds ==
  /\ ~clockDone /\ settled = "pending" /\ Nobody
  /\ \E l \in Lanes : lane[l] = "thrown"
  /\ settled' = "ended"
  /\ UNCHANGED <<delivered, clockDone, taken, queue, handoffs, lane, working, outcome,
                 ordinal, workedIds, counts, runs>>

LaneStep(l) == TakeOwn(l) \/ TakeHandoff(l) \/ FindNothing(l) \/ RunEnds(l) \/ RunLands(l) \/ Resume(l)

Next == Deliver \/ ClockEnds \/ Settle \/ ProcessEnds \/ \E l \in Lanes : LaneStep(l) \/ Throw(l)

(* The event loop runs every continuation; journeys end (they are bounded   *)
(* by maxStages and their sessions by their ticks) and so does the clock.   *)
Fairness == WF_vars(Deliver) /\ WF_vars(ClockEnds) /\ WF_vars(Settle)
            /\ \A l \in Lanes : WF_vars(LaneStep(l))

Spec == Init /\ [][Next]_vars /\ Fairness

--------------------------------------------------------------------------------
(* Properties *)

TypeOK ==
  /\ delivered \in 0 .. Arrived /\ taken \in 0 .. StopAfter /\ clockDone \in BOOLEAN
  /\ queue \in [Desks -> Seq(Items)] /\ handoffs \in Seq(Items) /\ runs \in Seq(Items)
  /\ lane \in [Lanes -> LaneStates] /\ working \in [Lanes -> Items \union {0}]
  /\ outcome \in [Lanes -> Outcomes] /\ ordinal \in [Items -> Nat]
  /\ workedIds \subseteq Items
  /\ counts \in [{"arrivals", "routed", "unrouted"} \union Outcomes -> Nat]
  /\ settled \in {"pending", "recorded", "rejected", "ended"}

(* The places taken in the desks' queues. *)
Queued == UNION {{d} \X DOMAIN queue[d] : d \in Desks}
Failed == {l \in Lanes : lane[l] \in {"throwing", "thrown"}}

(* The day's figures add up at every moment, whatever has failed: what was  *)
(* routed is queued, in flight, recorded or lost with a lane, and every     *)
(* recorded run came out one way (counts, runs of bank.ts).                 *)
BooksBalance ==
  /\ counts["routed"] = Cardinality(Queued) + Cardinality(AtWork) + Len(runs) + Cardinality(Failed)
  /\ Len(runs) = counts["completed"] + counts["stopped"] + counts["handed-off"]
  /\ counts["arrivals"] - counts["routed"] - counts["unrouted"] \in 0 .. Arrived - taken

(* runBank()'s promise settles, or a lane's throw has ended its process: no  *)
(* lane sleeps through the end of the day, and a failure on one of them is   *)
(* not waited out (lane(), wakeAll()).                                       *)
DaySettles == <>(settled # "pending")

(* "Scheduling never reaches a result" (bank.ts:26): a run's ids and clocks *)
(* are seeded by its item's ordinal, and a day worked one item at a time    *)
(* gives the cases handed on their ordinals in the order of their parents.  *)
SchedulingNeverReachesAResult ==
  \A m, n \in DOMAIN runs :
    LET i == Follower[runs[m]]  j == Follower[runs[n]]
    IN /\ 0 \notin {i, j} /\ i # j /\ ordinal[i] > 0 /\ ordinal[j] > 0
       /\ ordinal[runs[m]] < ordinal[runs[n]]
       => ordinal[i] < ordinal[j]

(* A day as a pool of work: what is queued and not begun before, what lanes  *)
(* are at, what is recorded, and what was begun and came to nothing.         *)
Waiting == (UNION {ToSet(queue[d]) : d \in Desks}) \union ToSet(handoffs)
Todo == Waiting \ workedIds
Doing == {working[l] : l \in AtWork}
Done == ToSet(runs)
Lost == workedIds \ (Doing \union Done)
Failure == Failed # {} \/ settled = "rejected"
Over == settled = "recorded"

Pool == INSTANCE WorkPool WITH
  todo <- Todo, doing <- Doing, done <- Done, lost <- Lost, failed <- Failure, over <- Over

(* Every item is worked once, by one lane, and the day is recorded only when *)
(* nothing is left and nothing failed (workOne, lane, drained).              *)
WorksAsAPool == Pool!Spec
=============================================================================

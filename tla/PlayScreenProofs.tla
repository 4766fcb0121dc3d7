------------------------- MODULE PlayScreenProofs -------------------------
(* What the play screen keeps for any number of runs and events.  Three tiers, *)
(* each resting on the one before: what holds whatever the person does, what  *)
(* holds when no run is reset in mid-tick, and what holds when runs are       *)
(* moreover reset only once they are saved.                                   *)
EXTENDS PlayScreen, SequenceTheorems, TLAPS

Ev == Runs \X Nat
Kinds == {"run.started", "tick.completed", "run.finished", "other"}
Recorder == [buffer : Seq(Ev), queue : Seq(Seq(Ev)), stopped : BOOLEAN, broken : BOOLEAN]

(* The events a + 1 .. b of a run.                                            *)
Stretch(r, a, b) == [k \in 1 .. b - a |-> <<r, a + k>>]

(* What is written, what waits to be written and the buffer are the events    *)
(* o + 1 .. n of a run, cut at c[0], c[1] ...                                 *)
Cut(buffer, queue, written, r, o, n, c) ==
  /\ c \in [0 .. Len(queue) -> Nat]
  /\ o <= c[0] /\ written = Stretch(r, o, c[0])
  /\ \A i \in 1 .. Len(queue) : c[i - 1] <= c[i] /\ queue[i] = Stretch(r, c[i - 1], c[i])
  /\ \A i \in 0 .. Len(queue) : c[i] <= n
  /\ buffer = Stretch(r, c[Len(queue)], n)

InOrder(buffer, queue, written, r, o, n) == \E c : Cut(buffer, queue, written, r, o, n, c)

LEMMA StretchIsSeq ==
  ASSUME NEW r \in Runs, NEW a \in Nat, NEW b \in Nat, a <= b
  PROVE  Stretch(r, a, b) \in Seq(Ev) /\ Len(Stretch(r, a, b)) = b - a
  BY DEF Stretch, Ev

LEMMA StretchGrows ==
  ASSUME NEW r \in Runs, NEW a \in Nat, NEW b \in Nat, a <= b
  PROVE  Append(Stretch(r, a, b), <<r, b + 1>>) = Stretch(r, a, b + 1)
  <1> DEFINE u == Stretch(r, a, b)
  <1> DEFINE e == <<r, b + 1>>
  <1> DEFINE v == Stretch(r, a, b + 1)
  <1>0. e \in Ev BY DEF Ev
  <1>1. u \in Seq(Ev) /\ Len(u) = b - a BY StretchIsSeq
  <1>2. v \in Seq(Ev) /\ Len(v) = b + 1 - a BY StretchIsSeq
  <1>3. \A k \in 1 .. b - a : u[k] = v[k] BY DEF Stretch
  <1>4. v[b + 1 - a] = e
    <2>1. b + 1 - a \in 1 .. (b + 1) - a /\ a + (b + 1 - a) = b + 1 OBVIOUS
    <2> QED BY <2>1 DEF Stretch
  <1> HIDE DEF u, e, v
  <1>5. Append(u, e) \in Seq(Ev) /\ Len(Append(u, e)) = Len(v) BY <1>0, <1>1, <1>2
  <1>6. \A k \in 1 .. Len(v) : Append(u, e)[k] = v[k] BY <1>0, <1>1, <1>2, <1>3, <1>4
  <1>7. Append(u, e) = v BY <1>2, <1>5, <1>6, SeqEqual
  <1> QED BY <1>7 DEF u, e, v

LEMMA StretchesJoin ==
  ASSUME NEW r \in Runs, NEW o \in Nat, NEW a \in Nat, NEW b \in Nat, o <= a, a <= b
  PROVE  Stretch(r, o, a) \o Stretch(r, a, b) = Stretch(r, o, b)
  <1> DEFINE u == Stretch(r, o, a)
  <1> DEFINE v == Stretch(r, a, b)
  <1> DEFINE w == Stretch(r, o, b)
  <1>1. u \in Seq(Ev) /\ Len(u) = a - o BY StretchIsSeq
  <1>2. v \in Seq(Ev) /\ Len(v) = b - a BY StretchIsSeq
  <1>3. w \in Seq(Ev) /\ Len(w) = b - o
    <2>1. o <= b OBVIOUS
    <2> QED BY <2>1, StretchIsSeq
  <1>4. \A k \in 1 .. a - o : u[k] = w[k] BY DEF Stretch
  <1>5. ASSUME NEW k \in a - o + 1 .. b - o PROVE v[k - (a - o)] = w[k]
    <2>1. /\ k - (a - o) \in 1 .. b - a /\ a + (k - (a - o)) = o + k
          /\ k \in 1 .. b - o
      OBVIOUS
    <2> QED BY <2>1 DEF Stretch
  <1> HIDE DEF u, v, w
  <1>6. u \o v \in Seq(Ev) /\ Len(u \o v) = Len(w) BY <1>1, <1>2, <1>3
  <1>7. ASSUME NEW k \in 1 .. Len(w) PROVE (u \o v)[k] = w[k]
    <2>1. CASE k <= a - o
      <3>1. k \in 1 .. a - o /\ (u \o v)[k] = u[k] BY <1>1, <1>2, <1>3, <2>1
      <3> QED BY <1>4, <3>1
    <2>2. CASE k > a - o
      <3>1. k \in a - o + 1 .. b - o /\ (u \o v)[k] = v[k - (a - o)]
        BY <1>1, <1>2, <1>3, <2>2
      <3> QED BY <1>5, <3>1
    <2>3. k <= a - o \/ k > a - o BY <1>3
    <2> QED BY <2>1, <2>2, <2>3
  <1>8. u \o v = w BY <1>3, <1>6, <1>7, SeqEqual
  <1> QED BY <1>8 DEF u, v, w

LEMMA EmptyStretch ==
  ASSUME NEW r, NEW a \in Nat
  PROVE  Stretch(r, a, a) = <<>>
  BY DEF Stretch

(* Nothing has been emitted yet.                                              *)
LEMMA NothingInOrder ==
  ASSUME NEW r, NEW o \in Nat
  PROVE  InOrder(<<>>, <<>>, <<>>, r, o, o)
  <1> DEFINE c == [i \in 0 .. 0 |-> o]
  <1>1. Len(<<>>) = 0 OBVIOUS
  <1>2. c \in [0 .. Len(<<>>) -> Nat] /\ c[0] = o BY <1>1
  <1>3. Cut(<<>>, <<>>, <<>>, r, o, o, c) BY <1>1, <1>2, EmptyStretch DEF Cut
  <1> QED BY <1>3 DEF InOrder

(* One event more.                                                            *)
LEMMA OneMoreInOrder ==
  ASSUME NEW r \in Runs, NEW o \in Nat, NEW n \in Nat, NEW buffer, NEW written,
         NEW queue \in Seq(Seq(Ev)), InOrder(buffer, queue, written, r, o, n)
  PROVE  InOrder(Append(buffer, <<r, n + 1>>), queue, written, r, o, n + 1)
  <1>1. PICK c : Cut(buffer, queue, written, r, o, n, c) BY DEF InOrder
  <1>2. c[Len(queue)] \in Nat /\ c[Len(queue)] <= n
    <2>1. Len(queue) \in 0 .. Len(queue) OBVIOUS
    <2> QED BY <1>1, <2>1 DEF Cut
  <1>3. Append(buffer, <<r, n + 1>>) = Stretch(r, c[Len(queue)], n + 1)
    BY <1>1, <1>2, StretchGrows DEF Cut
  <1>4. \A i \in 0 .. Len(queue) : c[i] <= n + 1
    <2>1. \A i \in 0 .. Len(queue) : c[i] \in Nat /\ c[i] <= n BY <1>1 DEF Cut
    <2> QED BY <2>1
  <1>5. Cut(Append(buffer, <<r, n + 1>>), queue, written, r, o, n + 1, c)
    BY <1>1, <1>3, <1>4 DEF Cut
  <1> QED BY <1>5 DEF InOrder

(* The buffer joins the queue.                                                *)
LEMMA FlushInOrder ==
  ASSUME NEW r \in Runs, NEW o \in Nat, NEW n \in Nat, NEW buffer \in Seq(Ev),
         NEW queue \in Seq(Seq(Ev)), NEW written, InOrder(buffer, queue, written, r, o, n)
  PROVE  InOrder(<<>>, Append(queue, buffer), written, r, o, n)
  <1>1. PICK c : Cut(buffer, queue, written, r, o, n, c) BY DEF InOrder
  <1> DEFINE q == Append(queue, buffer)
  <1> DEFINE d == [i \in 0 .. Len(queue) + 1 |-> IF i <= Len(queue) THEN c[i] ELSE n]
  <1>2. /\ Len(queue) \in Nat /\ Len(q) = Len(queue) + 1
        /\ \A i \in 1 .. Len(queue) : q[i] = queue[i]
        /\ q[Len(queue) + 1] = buffer
    OBVIOUS
  <1>3. d \in [0 .. Len(q) -> Nat] BY <1>1, <1>2 DEF Cut
  <1>4. d[0] = c[0] /\ d[Len(q)] = n BY <1>2
  <1>5. ASSUME NEW i \in 1 .. Len(q)
        PROVE  d[i - 1] <= d[i] /\ q[i] = Stretch(r, d[i - 1], d[i])
    <2>1. CASE i <= Len(queue)
      <3>1. d[i] = c[i] /\ d[i - 1] = c[i - 1] /\ i \in 1 .. Len(queue) BY <1>2, <2>1
      <3> QED BY <1>1, <1>2, <3>1 DEF Cut
    <2>2. CASE i = Len(queue) + 1
      <3>1. d[i] = n /\ d[i - 1] = c[Len(queue)] BY <1>2, <2>2
      <3> QED BY <1>1, <1>2, <2>2, <3>1 DEF Cut
    <2> QED BY <1>2, <2>1, <2>2
  <1>6. \A i \in 0 .. Len(q) : d[i] <= n BY <1>1, <1>2 DEF Cut
  <1>7. o <= d[0] /\ written = Stretch(r, o, d[0]) /\ <<>> = Stretch(r, d[Len(q)], n)
    BY <1>1, <1>4, EmptyStretch DEF Cut
  <1> HIDE DEF q, d
  <1>8. Cut(<<>>, q, written, r, o, n, d) BY <1>3, <1>5, <1>6, <1>7 DEF Cut
  <1> QED BY <1>8 DEF InOrder, q

(* The first of the queue is written.                                         *)
LEMMA WriteInOrder ==
  ASSUME NEW r \in Runs, NEW o \in Nat, NEW n \in Nat, NEW buffer,
         NEW queue \in Seq(Seq(Ev)), queue # <<>>, NEW written, InOrder(buffer, queue, written, r, o, n)
  PROVE  InOrder(buffer, Tail(queue), written \o Head(queue), r, o, n)
  <1>1. PICK c : Cut(buffer, queue, written, r, o, n, c) BY DEF InOrder
  <1> DEFINE q == Tail(queue)
  <1> DEFINE d == [i \in 0 .. Len(queue) - 1 |-> c[i + 1]]
  <1>2. /\ Len(queue) \in Nat \ {0} /\ Len(q) = Len(queue) - 1
        /\ \A i \in 1 .. Len(q) : q[i] = queue[i + 1]
        /\ Head(queue) = queue[1]
    OBVIOUS
  <1>3. d \in [0 .. Len(q) -> Nat] /\ \A i \in 0 .. Len(q) : d[i] = c[i + 1]
    BY <1>1, <1>2 DEF Cut
  <1>4. c[0] \in Nat /\ c[1] \in Nat /\ c[0] <= c[1] /\ queue[1] = Stretch(r, c[0], c[1])
    <2>1. 1 \in 1 .. Len(queue) /\ 0 \in 0 .. Len(queue) /\ 1 \in 0 .. Len(queue) BY <1>2
    <2>2. c[1 - 1] <= c[1] /\ queue[1] = Stretch(r, c[1 - 1], c[1]) BY <1>1, <2>1 DEF Cut
    <2>3. c[0] \in Nat /\ c[1] \in Nat BY <1>1, <2>1 DEF Cut
    <2>4. 1 - 1 = 0 OBVIOUS
    <2> QED BY <2>2, <2>3, <2>4
  <1>5. o <= d[0] /\ written \o Head(queue) = Stretch(r, o, d[0])
    <2>1. d[0] = c[1] BY <1>2, <1>3
    <2>2. written = Stretch(r, o, c[0]) /\ Head(queue) = Stretch(r, c[0], c[1])
      BY <1>1, <1>2, <1>4 DEF Cut
    <2>3. Stretch(r, o, c[0]) \o Stretch(r, c[0], c[1]) = Stretch(r, o, c[1])
      BY <1>1, <1>4, StretchesJoin DEF Cut
    <2>4. o <= d[0] BY <1>1, <1>4, <2>1 DEF Cut
    <2> QED BY <2>1, <2>2, <2>3, <2>4
  <1>6. ASSUME NEW i \in 1 .. Len(q)
        PROVE  d[i - 1] <= d[i] /\ q[i] = Stretch(r, d[i - 1], d[i])
    <2>1. i + 1 \in 1 .. Len(queue) /\ (i + 1) - 1 = i BY <1>2
    <2>2. c[i] <= c[i + 1] /\ queue[i + 1] = Stretch(r, c[i], c[i + 1])
      BY <1>1, <2>1 DEF Cut
    <2>3. d[i] = c[i + 1] /\ d[i - 1] = c[i] BY <1>2, <1>3
    <2> QED BY <1>2, <2>2, <2>3
  <1>7. d[Len(q)] = c[Len(queue)] BY <1>2, <1>3
  <1>8. \A i \in 0 .. Len(q) : d[i] <= n
    <2>1. \A i \in 0 .. Len(q) : i + 1 \in 0 .. Len(queue) BY <1>2
    <2> QED BY <1>1, <1>3, <2>1 DEF Cut
  <1>9. buffer = Stretch(r, d[Len(q)], n) BY <1>1, <1>7 DEF Cut
  <1> HIDE DEF q, d
  <1>10. Cut(buffer, q, written \o Head(queue), r, o, n, d)
    BY <1>3, <1>5, <1>6, <1>8, <1>9 DEF Cut
  <1> QED BY <1>10 DEF InOrder, q

FirstEvents(r, o, m) == [k \in 1 .. m |-> <<r, o + k>>]

(* What is written begins with the first event and leaves none out.           *)
LEMMA WrittenInOrder ==
  ASSUME NEW r \in Runs, NEW o \in Nat, NEW n \in Nat, NEW buffer, NEW written,
         NEW queue \in Seq(Seq(Ev)), InOrder(buffer, queue, written, r, o, n)
  PROVE  \E m \in 0 .. n - o : written = FirstEvents(r, o, m)
  <1>1. PICK c : Cut(buffer, queue, written, r, o, n, c) BY DEF InOrder
  <1>2. 0 \in 0 .. Len(queue) OBVIOUS
  <1>3. c[0] - o \in 0 .. n - o
    <2>1. c \in [0 .. Len(queue) -> Nat] /\ o <= c[0] BY <1>1 DEF Cut
    <2>2. c[0] <= n BY <1>1, <1>2 DEF Cut
    <2>3. c[0] \in Nat BY <1>2, <2>1
    <2> QED BY <2>1, <2>2, <2>3
  <1>4. written = FirstEvents(r, o, c[0] - o) BY <1>1 DEF Cut, Stretch, FirstEvents
  <1> QED BY <1>3, <1>4

--------------------------------------------------------------------------------
(* The recorder                                                               *)

TurnEnds(kind) == kind \in {"tick.completed", "run.finished"}

(* A recorder after an event (Recorded of OnEvent).                           *)
After(x, e, kind) ==
  LET got == Took(x, e, TurnEnds(kind))
  IN IF kind = "run.finished" THEN [Flushed(got) EXCEPT !.stopped = TRUE] ELSE got

InOrderOf(x, written, r, o, n) == InOrder(x.buffer, x.queue, written, r, o, n)

LEMMA FlushedKeeps ==
  ASSUME NEW x \in Recorder
  PROVE  /\ Flushed(x) \in Recorder /\ Flushed(x).stopped = x.stopped /\ Flushed(x).buffer = <<>>
         /\ x.buffer = <<>> => Flushed(x) = x
         /\ \A r \in Runs, o, n \in Nat, written \in Seq(Ev) :
              InOrderOf(x, written, r, o, n) => InOrderOf(Flushed(x), written, r, o, n)
  <1>1. CASE x.buffer = <<>> BY <1>1 DEF Flushed
  <1>2. CASE x.buffer # <<>>
    <2> DEFINE q == Append(x.queue, x.buffer)
    <2>1. q \in Seq(Seq(Ev)) /\ <<>> \in Seq(Ev) BY DEF Recorder
    <2>2. Flushed(x) = [x EXCEPT !.buffer = <<>>, !.queue = q] BY <1>2 DEF Flushed
    <2>3. ASSUME NEW r \in Runs, NEW o \in Nat, NEW n \in Nat,
                 NEW written \in Seq(Ev), InOrderOf(x, written, r, o, n)
          PROVE  InOrder(<<>>, q, written, r, o, n)
      BY <2>3, FlushInOrder DEF InOrderOf, Recorder
    <2> HIDE DEF q
    <2>4. /\ Flushed(x) \in Recorder /\ Flushed(x).stopped = x.stopped
          /\ Flushed(x).buffer = <<>> /\ Flushed(x).queue = q
      BY <2>1, <2>2 DEF Recorder
    <2> QED BY <1>2, <2>3, <2>4 DEF InOrderOf
  <1> QED BY <1>1, <1>2

LEMMA AfterStopped ==
  ASSUME NEW x \in Recorder, x.stopped, x.buffer = <<>>, NEW e, NEW kind
  PROVE  After(x, e, kind) = x
  <1>1. Took(x, e, TurnEnds(kind)) = x BY DEF Took
  <1>2. Flushed(x) = x BY FlushedKeeps
  <1>3. [x EXCEPT !.stopped = TRUE] = x
    <2>1. x.stopped = TRUE BY DEF Recorder
    <2> QED BY <2>1 DEF Recorder
  <1> QED BY <1>1, <1>2, <1>3 DEF After

LEMMA AfterOneMore ==
  ASSUME NEW x \in Recorder, ~x.stopped, NEW s \in Runs, NEW o \in Nat, NEW n \in Nat,
         NEW kind, NEW written \in Seq(Ev)
  PROVE  LET y == After(x, <<s, n + 1>>, kind)
         IN /\ y \in Recorder
            /\ y.stopped <=> kind = "run.finished"
            /\ y.stopped => y.buffer = <<>>
            /\ InOrderOf(x, written, s, o, n) => InOrderOf(y, written, s, o, n + 1)
  <1> DEFINE e == <<s, n + 1>>
  <1> DEFINE b == Append(x.buffer, e)
  <1> DEFINE held == [x EXCEPT !.buffer = b]
  <1> DEFINE got == Took(x, e, TurnEnds(kind))
  <1>1. e \in Ev BY DEF Ev
  <1>2. b \in Seq(Ev) BY <1>1 DEF Recorder
  <1>3. InOrderOf(x, written, s, o, n) => InOrder(b, x.queue, written, s, o, n + 1)
    BY OneMoreInOrder DEF InOrderOf, Recorder
  <1>4. got = held \/ got = Flushed(held) BY DEF Took
  <1>5. After(x, e, kind) = IF kind = "run.finished" THEN [Flushed(got) EXCEPT !.stopped = TRUE]
                            ELSE got
    BY DEF After
  <1> HIDE DEF e, b, got
  <1>6. /\ held \in Recorder /\ held.stopped = x.stopped /\ held.buffer = b
        /\ held.queue = x.queue
    BY <1>2 DEF Recorder
  <1> HIDE DEF held
  <1>7. InOrderOf(x, written, s, o, n) => InOrderOf(held, written, s, o, n + 1)
    BY <1>3, <1>6 DEF InOrderOf
  <1>8. n + 1 \in Nat OBVIOUS
  <1>9. /\ got \in Recorder /\ ~got.stopped
        /\ InOrderOf(x, written, s, o, n) => InOrderOf(got, written, s, o, n + 1)
    BY <1>4, <1>6, <1>7, <1>8, FlushedKeeps
  <1>10. CASE kind # "run.finished" BY <1>5, <1>9, <1>10 DEF e
  <1>11. CASE kind = "run.finished"
    <2> DEFINE f == Flushed(got)
    <2>1. /\ f \in Recorder /\ f.buffer = <<>>
          /\ InOrderOf(x, written, s, o, n) => InOrderOf(f, written, s, o, n + 1)
      BY <1>8, <1>9, FlushedKeeps
    <2> HIDE DEF f
    <2> DEFINE y == [f EXCEPT !.stopped = TRUE]
    <2>2. /\ y \in Recorder /\ y.stopped = TRUE /\ y.buffer = f.buffer /\ y.queue = f.queue
      BY <2>1 DEF Recorder
    <2>3. After(x, e, kind) = y BY <1>5, <1>11 DEF f
    <2> HIDE DEF y
    <2> QED BY <1>11, <2>1, <2>2, <2>3 DEF InOrderOf, e
  <1> QED BY <1>10, <1>11

--------------------------------------------------------------------------------
(* The invariant                                                              *)

Session == [at : {"idle", "tick", "between", "ending", "finished"}, asks : BOOLEAN,
            stop : BOOLEAN, stepped : BOOLEAN]
View == [run : Runs \union {NoRun}, finished : BOOLEAN, shows : SUBSET Runs]
Rows == [Runs -> {"none", "in-progress", "finished"}]

Shape ==
  /\ sess \in [Runs -> Session] /\ count \in [Runs -> Nat] /\ current \in Runs
  /\ opened \in [Runs -> Nat] /\ closed \in [Runs -> Nat]
  /\ view \in View /\ recorder \in Runs \union {NoRun} /\ rec \in [Runs -> Recorder]
  /\ jobs \subseteq Jobs /\ saved \in BOOLEAN
  /\ rows \in Rows /\ events \in [Runs -> Seq(Ev)] /\ stray \in BOOLEAN

Begun(r) == opened[r] # 0

(* What a session's events say of where it is.  That its run has ended does   *)
(* not say that it has: a tick left at a question may go on.                  *)
Life(r) ==
  /\ opened[r] <= count[r] /\ closed[r] <= count[r]
  /\ closed[r] # 0 => opened[r] <= closed[r]
  /\ sess[r].at = "idle" => ~Begun(r) /\ closed[r] = 0
  /\ ~Begun(r) => sess[r].at \in {"idle", "finished"}
  /\ sess[r].at = "finished" => closed[r] # 0
  /\ sess[r].asks => sess[r].at \in {"tick", "finished"} /\ Begun(r)

(* The sessions reset are over, and the view is of the current one.           *)
Screen ==
  /\ \A r \in Runs : /\ Life(r)
                     /\ r < current => sess[r].at = "finished" /\ ~sess[r].asks
                     /\ r > current => sess[r].at = "idle" /\ count[r] = 0
  /\ view.run \in {NoRun, current} /\ view.shows \subseteq {view.run}
  /\ view.run = NoRun <=> count[current] = 0
  /\ view.finished <=> closed[current] # 0
  /\ \A r \in Runs : rows[r] = "finished" => closed[r] # 0

(* What a run's recorder holds and has written is in order, from the run's    *)
(* opening on; the page's recorder has every event of its run, or is stopped. *)
Kept(r) ==
  \E n \in opened[r] - 1 .. Latest(r) :
    /\ InOrderOf(rec[r], events[r], r, opened[r] - 1, n)
    /\ recorder = r /\ ~rec[r].stopped => n = count[r]

KeepingOf(r) ==
  /\ Begun(r) => Kept(r)
  /\ ~Begun(r) => rec[r] = NewRecorder /\ events[r] = <<>> /\ recorder # r
  /\ rec[r].stopped => rec[r].buffer = <<>> /\ closed[r] # 0
  /\ recorder = r /\ closed[r] # 0 => rec[r].stopped

Keeping == \A r \in Runs : KeepingOf(r)

(* What is under way is of the current run, but for the ending of a session   *)
(* that was reset and had not begun, or had ended before.                     *)
CarefulJob(j) ==
  /\ j.at = "progress" => j.for = current /\ Begun(current)
  /\ j.at = "stopping" => \/ j.for = current /\ closed[current] # 0
                          \/ j.awaits = NoRun /\ count[current] = 0
  /\ j.at = "persisting" => /\ j.for = current /\ closed[current] # 0
                            /\ recorder = NoRun

Careful ==
  /\ ~stray
  /\ \A j \in jobs : CarefulJob(j)
  /\ recorder # NoRun => ~saved /\ Begun(current)
  /\ Begun(current) /\ closed[current] = 0 => ~saved

NoMidTick == "reset-mid-tick" \notin took
AllSaved == NoMidTick /\ "reset-unsaved" \notin took

IInv == Shape /\ (NoMidTick => Screen /\ Keeping) /\ (AllSaved => Careful)

LEMMA InitInv == Init => IInv
  <1> SUFFICES ASSUME Init PROVE IInv
    OBVIOUS
  <1>1. 1 \in Runs /\ <<>> \in Seq(Ev) /\ <<>> \in Seq(Seq(Ev))
    BY PlayAssumption DEF Runs
  <1>2. NewRecorder \in Recorder /\ ~NewRecorder.stopped BY <1>1 DEF NewRecorder, Recorder
  <1>3. Blank \in View /\ Blank.run = NoRun /\ Blank.shows = {} /\ ~Blank.finished
    BY DEF Blank, View
  <1>4. Shape BY <1>1, <1>2, <1>3 DEF Init, Shape, Session, Rows
  <1>5. \A r \in Runs : /\ Life(r)
                        /\ r < 1 => sess[r].at = "finished" /\ ~sess[r].asks
                        /\ r > 1 => sess[r].at = "idle" /\ count[r] = 0
    BY DEF Init, Life, Begun, Runs
  <1>6. Screen BY <1>1, <1>3, <1>5 DEF Init, Screen
  <1>7. Keeping BY <1>2, PlayAssumption DEF Init, Keeping, KeepingOf, Begun, Runs, NoRun
  <1>8. Careful BY <1>1 DEF Init, Careful, Begun
  <1> QED BY <1>4, <1>6, <1>7, <1>8 DEF IInv

LEMMA InvImplies == IInv => ViewIsOneRun /\ StorageIsTrue
  <1> SUFFICES ASSUME IInv PROVE ViewIsOneRun /\ StorageIsTrue
    OBVIOUS
  <1>1. ViewIsOneRun BY DEF IInv, NoMidTick, Screen, ViewIsOneRun
  <1>2. ASSUME NoMidTick, NEW r \in Runs
        PROVE  \E n \in 0 .. Told(r) : events[r] = [k \in 1 .. n |-> <<r, opened[r] - 1 + k>>]
    <2>0. /\ KeepingOf(r) /\ Life(r) /\ opened[r] \in Nat /\ closed[r] \in Nat
          /\ count[r] \in Nat /\ rec[r].queue \in Seq(Seq(Ev))
      BY <1>2 DEF IInv, Keeping, Screen, Shape, Recorder
    <2>1. CASE ~Begun(r)
      <3>1. events[r] = <<>> /\ Told(r) = 0 BY <2>0, <2>1 DEF KeepingOf, Told, Begun
      <3>2. events[r] = [k \in 1 .. 0 |-> <<r, opened[r] - 1 + k>>] BY <3>1
      <3> QED BY <3>1, <3>2
    <2>2. CASE Begun(r)
      <3> DEFINE o == opened[r] - 1
      <3>1. o \in Nat /\ Latest(r) \in Nat /\ Told(r) = Latest(r) - o
        BY <2>0, <2>2 DEF Told, Begun, Latest
      <3>2. PICK n \in o .. Latest(r) : InOrderOf(rec[r], events[r], r, o, n)
        BY <2>0, <2>2 DEF KeepingOf, Kept
      <3> DEFINE x == rec[r]
      <3> DEFINE w == events[r]
      <3> HIDE DEF o
      <3>3. InOrder(x.buffer, x.queue, w, r, o, n) BY <3>2 DEF InOrderOf
      <3>4. x.queue \in Seq(Seq(Ev)) BY <2>0
      <3> HIDE DEF x, w
      <3>5. n \in Nat BY <3>1, <3>2
      <3>6. PICK m \in 0 .. n - o : w = FirstEvents(r, o, m)
        BY <3>1, <3>3, <3>4, <3>5, WrittenInOrder
      <3>7. m \in 0 .. Told(r) BY <3>1, <3>2, <3>5, <3>6
      <3> QED BY <3>6, <3>7 DEF w, o, FirstEvents
    <2> QED BY <2>1, <2>2
  <1>3. NoMidTick => \A r \in Runs : rows[r] = "finished" => closed[r] # 0
    BY DEF IInv, Screen
  <1>4. NoMidTick => (stray => "reset-unsaved" \in took) BY DEF IInv, AllSaved, Careful
  <1>5. StorageIsTrue BY <1>2, <1>3, <1>4 DEF StorageIsTrue, NoMidTick
  <1> QED BY <1>1, <1>5

--------------------------------------------------------------------------------
(* One event of the current session                                           *)

(* What onRunEvent() does of an event, with the cases of each variable apart. *)
LEMMA OnEventDoes ==
  ASSUME Shape, NEW s \in Runs, NEW kind \in Kinds, NEW v \in View, v.run \in Runs,
         OnEvent(s, kind, v)
  PROVE  /\ count' = [count EXCEPT ![s] = count[s] + 1]
         /\ opened' = IF kind = "run.started" THEN [opened EXCEPT ![s] = count[s] + 1]
                      ELSE opened
         /\ closed' = IF kind = "run.finished" /\ closed[s] = 0
                      THEN [closed EXCEPT ![s] = count[s] + 1] ELSE closed
         /\ recorder' = IF kind = "run.started" THEN s ELSE recorder
         /\ rec' = IF recorder' = NoRun THEN rec
                   ELSE [rec EXCEPT ![recorder'] =
                           After(rec[recorder'], <<s, count[s] + 1>>, kind)]
         /\ kind = "run.started" => ~saved'
         /\ kind # "run.started" => saved' = saved
         /\ \/ kind = "run.started" /\ rows' = [rows EXCEPT ![v.run] = Status(v)]
            \/ rows' = rows
         /\ kind # "run.started" => rows' = rows /\ failed' = failed
         /\ stray' = stray
         /\ \A j \in jobs' \ jobs :
              \/ /\ kind = "tick.completed" /\ j.at = "progress" /\ j.for = v.run
                 /\ j.awaits = NoRun
              \/ /\ kind = "run.finished" /\ j.at = "stopping" /\ j.for = s
                 /\ j.awaits = recorder'
         /\ jobs \subseteq jobs'
  <1>1. v.run # NoRun BY PlayAssumption DEF Runs, NoRun
  <1>2. /\ count' = [count EXCEPT ![s] = count[s] + 1]
        /\ opened' = IF kind = "run.started" THEN [opened EXCEPT ![s] = count[s] + 1]
                     ELSE opened
        /\ closed' = IF kind = "run.finished" /\ closed[s] = 0
                     THEN [closed EXCEPT ![s] = count[s] + 1] ELSE closed
    BY DEF OnEvent
  <1>3. recorder' = IF kind = "run.started" THEN s ELSE recorder BY DEF OnEvent
  <1>4. rec' = IF recorder' = NoRun THEN rec
               ELSE [rec EXCEPT ![recorder'] =
                       After(rec[recorder'], <<s, count[s] + 1>>, kind)]
    BY <1>3 DEF OnEvent, After, TurnEnds
  <1>5. /\ kind = "run.started" => ~saved'
        /\ kind # "run.started" => saved' = saved
        /\ \/ kind = "run.started" /\ rows' = [rows EXCEPT ![v.run] = Status(v)]
           \/ rows' = rows
        /\ kind # "run.started" => rows' = rows /\ failed' = failed
        /\ stray' = stray
    BY <1>1 DEF OnEvent, Put, PutFails
  <1>6. jobs' = jobs \union
          CASE kind = "tick.completed" -> {[at |-> "progress", for |-> v.run, awaits |-> NoRun]}
            [] kind = "run.finished"   -> {[at |-> "stopping", for |-> s, awaits |-> recorder']}
            [] OTHER -> {}
    BY <1>3 DEF OnEvent
  <1>7. /\ jobs \subseteq jobs'
        /\ \A j \in jobs' \ jobs :
             \/ /\ kind = "tick.completed" /\ j.at = "progress" /\ j.for = v.run
                /\ j.awaits = NoRun
             \/ /\ kind = "run.finished" /\ j.at = "stopping" /\ j.for = s
                /\ j.awaits = recorder'
    <2>1. CASE kind = "tick.completed" BY <1>6, <2>1
    <2>2. CASE kind = "run.finished" BY <1>6, <2>2
    <2>3. CASE kind \notin {"tick.completed", "run.finished"} BY <1>6, <2>3
    <2> QED BY <2>1, <2>2, <2>3
  <1> QED BY <1>2, <1>3, <1>4, <1>5, <1>7

LEMMA OnEventShape ==
  ASSUME Shape, NEW s \in Runs, NEW kind \in Kinds, NEW v \in View, v.run \in Runs,
         OnEvent(s, kind, v)
  PROVE  /\ count' \in [Runs -> Nat] /\ opened' \in [Runs -> Nat] /\ closed' \in [Runs -> Nat]
         /\ recorder' \in Runs \union {NoRun}
         /\ rec' \in [Runs -> Recorder] /\ jobs' \subseteq Jobs /\ saved' \in BOOLEAN
         /\ rows' \in Rows /\ stray' \in BOOLEAN
  <1>1. /\ count' \in [Runs -> Nat] /\ opened' \in [Runs -> Nat] /\ closed' \in [Runs -> Nat]
        /\ recorder' \in Runs \union {NoRun}
    <2>1. count' = [count EXCEPT ![s] = count[s] + 1] BY OnEventDoes
    <2>2. recorder' = IF kind = "run.started" THEN s ELSE recorder BY OnEventDoes
    <2>3. opened' = IF kind = "run.started" THEN [opened EXCEPT ![s] = count[s] + 1]
                    ELSE opened
      BY OnEventDoes
    <2>4. closed' = IF kind = "run.finished" /\ closed[s] = 0
                    THEN [closed EXCEPT ![s] = count[s] + 1] ELSE closed
      BY OnEventDoes
    <2>5. count[s] + 1 \in Nat BY DEF Shape
    <2> QED BY <2>1, <2>2, <2>3, <2>4, <2>5 DEF Shape
  <1>2. rec' \in [Runs -> Recorder]
    <2>1. CASE recorder' = NoRun BY <2>1, OnEventDoes DEF Shape
    <2>2. CASE recorder' \in Runs
      <3> DEFINE y == After(rec[recorder'], <<s, count[s] + 1>>, kind)
      <3>1. rec[recorder'] \in Recorder /\ count[s] \in Nat /\ <<>> \in Seq(Ev)
        BY <2>2 DEF Shape
      <3>2. y \in Recorder
        <4>1. CASE ~rec[recorder'].stopped BY <3>1, <4>1, AfterOneMore
        <4>2. CASE rec[recorder'].stopped
          <5> DEFINE x == rec[recorder']
          <5>1. Took(x, <<s, count[s] + 1>>, TurnEnds(kind)) = x BY <4>2 DEF Took
          <5>2. Flushed(x) \in Recorder BY <3>1, FlushedKeeps
          <5>3. [Flushed(x) EXCEPT !.stopped = TRUE] \in Recorder BY <5>2 DEF Recorder
          <5> HIDE DEF x
          <5>4. After(x, <<s, count[s] + 1>>, kind) \in Recorder
            BY <3>1, <5>1, <5>3 DEF After, x
          <5> QED BY <5>4 DEF x
        <4> QED BY <4>1, <4>2
      <3>3. rec' = [rec EXCEPT ![recorder'] = y]
        BY <2>2, OnEventDoes, PlayAssumption DEF Runs, NoRun
      <3> HIDE DEF y
      <3> QED BY <3>2, <3>3 DEF Shape
    <2> QED BY <1>1, <2>1, <2>2
  <1>3. jobs' \subseteq Jobs
    <2>1. jobs' = jobs \union
          CASE kind = "tick.completed" -> {[at |-> "progress", for |-> v.run, awaits |-> NoRun]}
            [] kind = "run.finished"   -> {[at |-> "stopping", for |-> s, awaits |-> recorder']}
            [] OTHER -> {}
      BY DEF OnEvent
    <2>0. jobs \subseteq Jobs BY DEF Shape
    <2>2. CASE kind = "tick.completed" BY <2>0, <2>1, <2>2 DEF Jobs
    <2>3. CASE kind = "run.finished" BY <1>1, <2>0, <2>1, <2>3 DEF Jobs
    <2>4. CASE kind \notin {"tick.completed", "run.finished"} BY <2>0, <2>1, <2>4
    <2> QED BY <2>2, <2>3, <2>4
  <1>4. saved' \in BOOLEAN /\ stray' \in BOOLEAN
    BY OnEventDoes DEF Shape, OnEvent
  <1>5. rows' \in Rows
    <2>1. Status(v) \in {"in-progress", "finished"} BY DEF Status
    <2>2. rows' = [rows EXCEPT ![v.run] = Status(v)] \/ rows' = rows BY OnEventDoes
    <2> QED BY <2>1, <2>2 DEF Shape, Rows
  <1> QED BY <1>1, <1>2, <1>3, <1>4, <1>5

(* The page's recorder is that of the current run, which has not ended, and   *)
(* takes the event; or it is none or a stopped one, and takes nothing.        *)
LEMMA OnEventRecorder ==
  ASSUME Shape, Screen, Keeping, NEW s \in Runs, s = current, NEW kind \in Kinds,
         NEW v \in View, v.run \in Runs, OnEvent(s, kind, v),
         kind = "run.started" => sess[s].at = "idle"
  PROVE  \/ /\ recorder' = s /\ ~rec[s].stopped /\ closed[s] = 0
            /\ kind = "run.started" \/ (Begun(s) /\ recorder = s)
            /\ rec' = [rec EXCEPT ![s] = After(rec[s], <<s, count[s] + 1>>, kind)]
            /\ opened'[s] - 1 \in Nat /\ opened'[s] - 1 <= count[s]
            /\ InOrderOf(rec[s], events[s], s, opened'[s] - 1, count[s])
         \/ /\ kind # "run.started" /\ rec' = rec /\ recorder' = recorder
            /\ recorder \in Runs => rec[recorder].stopped
  <1>1. /\ count[s] \in Nat /\ opened[s] \in Nat /\ NoRun \notin Runs
        /\ KeepingOf(s) /\ Life(s)
    BY PlayAssumption DEF Shape, Runs, NoRun, Keeping, Screen
  <1>2. /\ opened' = IF kind = "run.started" THEN [opened EXCEPT ![s] = count[s] + 1]
                     ELSE opened
        /\ recorder' = IF kind = "run.started" THEN s ELSE recorder
        /\ rec' = IF recorder' = NoRun THEN rec
                  ELSE [rec EXCEPT ![recorder'] =
                          After(rec[recorder'], <<s, count[s] + 1>>, kind)]
    BY OnEventDoes
  <1>3. recorder' \in Runs \union {NoRun} BY <1>1, <1>2 DEF Shape
  <1>4. CASE kind = "run.started"
    <2>1. ~Begun(s) /\ closed[s] = 0 BY <1>1, <1>4 DEF Life
    <2>2. rec[s] = NewRecorder /\ events[s] = <<>> BY <1>1, <2>1 DEF KeepingOf
    <2>3. opened'[s] = count[s] + 1 BY <1>2, <1>4 DEF Shape
    <2>4. opened'[s] - 1 = count[s] BY <1>1, <2>3
    <2>5. InOrderOf(rec[s], events[s], s, count[s], count[s])
      BY <1>1, <2>2, NothingInOrder DEF InOrderOf, NewRecorder
    <2>6. ~rec[s].stopped BY <2>2 DEF NewRecorder
    <2>7. recorder' = s /\ rec' = [rec EXCEPT ![s] = After(rec[s], <<s, count[s] + 1>>, kind)]
      BY <1>1, <1>2, <1>4
    <2>8. opened'[s] - 1 \in Nat /\ opened'[s] - 1 <= count[s] BY <1>1, <2>4
    <2>9. InOrderOf(rec[s], events[s], s, opened'[s] - 1, count[s]) BY <2>4, <2>5
    <2> QED BY <1>4, <2>1, <2>6, <2>7, <2>8, <2>9
  <1>5. CASE kind # "run.started" /\ recorder \in Runs /\ ~rec[recorder].stopped
    <2>0. recorder' = recorder /\ opened' = opened BY <1>2, <1>5
    <2>1. KeepingOf(recorder) /\ Life(recorder) BY <1>5 DEF Keeping, Screen
    <2>2. Begun(recorder) /\ closed[recorder] = 0 BY <1>5, <2>1 DEF KeepingOf
    <2>3. sess[recorder].at # "idle" /\ sess[recorder].at # "finished"
      BY <2>1, <2>2 DEF Life
    <2>4. ~(recorder > s) /\ ~(recorder < s) BY <1>5, <2>3 DEF Screen
    <2>5. recorder = s BY <1>5, <2>4 DEF Runs
    <2>6. opened[s] # 0 BY <2>2, <2>5 DEF Begun
    <2>7. Kept(s) BY <1>1, <2>2, <2>5 DEF KeepingOf
    <2>8. InOrderOf(rec[s], events[s], s, opened[s] - 1, count[s])
      BY <1>5, <2>5, <2>7 DEF Kept
    <2>9. opened[s] - 1 \in Nat /\ opened[s] - 1 <= count[s] BY <1>1, <2>6 DEF Life
    <2>10. rec' = [rec EXCEPT ![s] = After(rec[s], <<s, count[s] + 1>>, kind)]
      BY <1>1, <1>2, <2>0, <2>5
    <2> QED BY <1>5, <2>0, <2>2, <2>5, <2>8, <2>9, <2>10
  <1>6. CASE kind # "run.started" /\ recorder \in Runs /\ rec[recorder].stopped
    <2>1. recorder' = recorder BY <1>2, <1>6
    <2>2. rec[recorder] \in Recorder /\ KeepingOf(recorder) BY <1>6 DEF Shape, Keeping
    <2>3. rec[recorder].buffer = <<>> BY <1>6, <2>2 DEF KeepingOf
    <2>4. After(rec[recorder], <<s, count[s] + 1>>, kind) = rec[recorder]
      BY <1>6, <2>2, <2>3, AfterStopped
    <2>5. rec' = [rec EXCEPT ![recorder] = rec[recorder]] BY <1>1, <1>2, <1>6, <2>1, <2>4
    <2>6. rec' = rec BY <1>6, <2>5 DEF Shape
    <2> QED BY <1>6, <2>1, <2>6
  <1>7. CASE kind # "run.started" /\ recorder = NoRun BY <1>1, <1>2, <1>7
  <1> QED BY <1>4, <1>5, <1>6, <1>7 DEF Shape

(* Of the other runs nothing changes but what their recorders may be.         *)
LEMMA OnEventOthers ==
  ASSUME Shape, NEW s \in Runs, NEW kind \in Kinds, NEW v \in View, v.run \in Runs,
         OnEvent(s, kind, v)
  PROVE  /\ \A q \in Runs : q # s => /\ count'[q] = count[q] /\ opened'[q] = opened[q]
                                     /\ closed'[q] = closed[q] /\ Latest(q)' = Latest(q)
         /\ count'[s] = count[s] + 1
         /\ opened'[s] = IF kind = "run.started" THEN count[s] + 1 ELSE opened[s]
         /\ closed'[s] = IF kind = "run.finished" /\ closed[s] = 0 THEN count[s] + 1
                         ELSE closed[s]
         /\ Latest(s)' = IF closed[s] = 0 THEN count[s] + 1 ELSE Latest(s)
  <1>1. /\ count' = [count EXCEPT ![s] = count[s] + 1]
        /\ opened' = IF kind = "run.started" THEN [opened EXCEPT ![s] = count[s] + 1]
                     ELSE opened
        /\ closed' = IF kind = "run.finished" /\ closed[s] = 0
                     THEN [closed EXCEPT ![s] = count[s] + 1] ELSE closed
    BY OnEventDoes
  <1>2. count[s] \in Nat /\ closed[s] \in Nat BY DEF Shape
  <1>3. /\ \A q \in Runs : q # s => /\ count'[q] = count[q] /\ opened'[q] = opened[q]
                                    /\ closed'[q] = closed[q]
        /\ count'[s] = count[s] + 1
        /\ opened'[s] = IF kind = "run.started" THEN count[s] + 1 ELSE opened[s]
        /\ closed'[s] = IF kind = "run.finished" /\ closed[s] = 0 THEN count[s] + 1
                        ELSE closed[s]
    BY <1>1 DEF Shape
  <1>4. Latest(s)' = IF closed[s] = 0 THEN count[s] + 1 ELSE Latest(s)
    BY <1>2, <1>3 DEF Latest
  <1> QED BY <1>3, <1>4 DEF Latest

LEMMA OnEventKeeps ==
  ASSUME Shape, Screen, Keeping, NEW s \in Runs, s = current, NEW kind \in Kinds,
         NEW v \in View, v.run \in Runs, OnEvent(s, kind, v), events' = events,
         kind = "run.started" => sess[s].at = "idle"
  PROVE  Keeping'
  <1>1. /\ count[s] \in Nat /\ opened[s] \in Nat /\ closed[s] \in Nat
        /\ Life(s) /\ rec[s] \in Recorder /\ events[s] \in Seq(Ev)
    BY DEF Shape, Screen
  <1>2. /\ \A q \in Runs : q # s => /\ count'[q] = count[q] /\ opened'[q] = opened[q]
                                    /\ closed'[q] = closed[q] /\ Latest(q)' = Latest(q)
        /\ count'[s] = count[s] + 1
        /\ opened'[s] = IF kind = "run.started" THEN count[s] + 1 ELSE opened[s]
        /\ closed'[s] = IF kind = "run.finished" /\ closed[s] = 0 THEN count[s] + 1
                        ELSE closed[s]
        /\ Latest(s)' = IF closed[s] = 0 THEN count[s] + 1 ELSE Latest(s)
    BY OnEventOthers
  <1>3. CASE /\ recorder' = s /\ ~rec[s].stopped /\ closed[s] = 0
             /\ kind = "run.started" \/ (Begun(s) /\ recorder = s)
             /\ rec' = [rec EXCEPT ![s] = After(rec[s], <<s, count[s] + 1>>, kind)]
             /\ opened'[s] - 1 \in Nat /\ opened'[s] - 1 <= count[s]
             /\ InOrderOf(rec[s], events[s], s, opened'[s] - 1, count[s])
    <2> DEFINE y == After(rec[s], <<s, count[s] + 1>>, kind)
    <2> DEFINE o == opened'[s] - 1
    <2>0. o \in Nat /\ InOrderOf(rec[s], events[s], s, o, count[s]) BY <1>3
    <2> HIDE DEF o
    <2>1. /\ y.stopped <=> kind = "run.finished"
          /\ y.stopped => y.buffer = <<>>
          /\ InOrderOf(y, events[s], s, o, count[s] + 1)
      BY <1>1, <1>3, <2>0, AfterOneMore
    <2>2. rec' = [rec EXCEPT ![s] = y] BY <1>3
    <2> HIDE DEF y
    <2>3. rec'[s] = y /\ \A q \in Runs : q # s => rec'[q] = rec[q] BY <2>2 DEF Shape
    <2>4. ASSUME NEW q \in Runs, q # s PROVE KeepingOf(q)'
      <3>1. KeepingOf(q) BY DEF Keeping
      <3>2. Kept(q) => Kept(q)' BY <1>2, <1>3, <2>3, <2>4 DEF Kept
      <3>3. Begun(q)' <=> Begun(q) BY <1>2, <2>4 DEF Begun
      <3> QED BY <1>2, <1>3, <2>3, <2>4, <3>1, <3>2, <3>3 DEF KeepingOf
    <2>5. Kept(s)'
      <3>1. Latest(s)' = count[s] + 1 BY <1>2, <1>3
      <3>2. count[s] + 1 \in opened'[s] - 1 .. Latest(s)' BY <1>1, <1>3, <3>1
      <3>3. InOrderOf(rec'[s], events'[s], s, opened'[s] - 1, count[s] + 1)
        BY <2>1, <2>3 DEF o
      <3> DEFINE n == count[s] + 1
      <3>4. n = count'[s] BY <1>2
      <3> HIDE DEF n
      <3>5. \E m \in opened'[s] - 1 .. Latest(s)' :
              /\ InOrderOf(rec'[s], events'[s], s, opened'[s] - 1, m)
              /\ m = count'[s]
        BY <3>2, <3>3, <3>4 DEF n
      <3> QED BY <3>5 DEF Kept
    <2>6. KeepingOf(s)'
      <3>1. opened'[s] # 0 BY <1>1, <1>3
      <3>2. kind = "run.finished" => closed'[s] # 0 BY <1>1, <1>2
      <3>3. kind # "run.finished" => closed'[s] = 0 BY <1>2, <1>3
      <3>4. rec'[s].stopped => rec'[s].buffer = <<>> /\ closed'[s] # 0
        BY <2>1, <2>3, <3>2
      <3>5. closed'[s] # 0 => rec'[s].stopped BY <2>1, <2>3, <3>3
      <3> QED BY <2>5, <3>1, <3>4, <3>5 DEF KeepingOf, Begun
    <2> QED BY <2>4, <2>6 DEF Keeping
  <1>4. CASE /\ kind # "run.started" /\ rec' = rec /\ recorder' = recorder
             /\ recorder \in Runs => rec[recorder].stopped
    <2>1. \A q \in Runs : opened'[q] = opened[q] BY <1>2, <1>4
    <2>2. ASSUME NEW q \in Runs PROVE closed[q] # 0 => closed'[q] = closed[q]
      BY <1>2
    <2>3. ASSUME NEW q \in Runs PROVE Latest(q)' \in Int /\ Latest(q) <= Latest(q)'
      <3>1. Latest(q) \in Nat BY DEF Shape, Latest
      <3>2. CASE q # s BY <1>2, <3>1, <3>2
      <3>3. CASE q = s
        <4>1. closed[s] = 0 => Latest(s) = count[s] BY DEF Latest
        <4> QED BY <1>1, <1>2, <3>1, <3>3, <4>1
      <3> QED BY <3>2, <3>3
    <2>4. ASSUME NEW q \in Runs PROVE KeepingOf(q)'
      <3>1. KeepingOf(q) BY DEF Keeping
      <3>2. ASSUME Kept(q) PROVE Kept(q)'
        <4>1. PICK n \in opened[q] - 1 .. Latest(q) :
                InOrderOf(rec[q], events[q], q, opened[q] - 1, n)
          BY <3>2 DEF Kept
        <4>2. opened[q] \in Nat /\ Latest(q) \in Nat BY DEF Shape, Latest
        <4>3. n \in opened'[q] - 1 .. Latest(q)' BY <2>1, <2>3, <4>1, <4>2
        <4>4. InOrderOf(rec'[q], events'[q], q, opened'[q] - 1, n) BY <1>4, <2>1, <4>1
        <4>5. recorder' = q => rec'[q].stopped BY <1>4
        <4> QED BY <4>3, <4>4, <4>5 DEF Kept
      <3>3. Begun(q)' <=> Begun(q) BY <2>1 DEF Begun
      <3>4. recorder' = q => rec'[q].stopped BY <1>4
      <3> QED BY <1>4, <2>2, <3>1, <3>2, <3>3, <3>4 DEF KeepingOf
    <2> QED BY <2>4 DEF Keeping
  <1> QED BY <1>3, <1>4, OnEventRecorder

(* How a session goes on with an event.                                       *)
Moves(s, x, kind) ==
  /\ x \in Session /\ sess[s].at # "finished"
  /\ sess' = [sess EXCEPT ![s] = x]
  /\ x.at = "finished" <=> kind = "run.finished"
  /\ kind = "run.started" => sess[s].at = "idle" /\ x.at = "tick"
  /\ x.at = "idle" => sess[s].at = "idle" /\ kind = "other"
  /\ sess[s].at = "idle" => /\ kind \in {"run.started", "run.finished", "other"} /\ Quiet
                            /\ kind = "other" => x.at = "idle"
  /\ x.asks => \/ sess[s].asks /\ x.at \in {sess[s].at, "tick", "finished"}
               \/ sess[s].at = "tick" /\ x.at = "tick"

LEMMA AbsorbedShape ==
  ASSUME Shape, NEW s \in Runs, NEW kind \in Kinds
  PROVE  Absorbed(s, kind) \in View /\ Absorbed(s, kind).run \in Runs
  <1>1. view.finished \in BOOLEAN BY DEF Shape, View
  <1>2. (view.finished \/ kind = "run.finished") \in BOOLEAN BY <1>1
  <1> QED BY <1>2 DEF Shape, View, Absorbed

(* A session that moves has begun unless it is idle.                          *)
LEMMA MovesBegun ==
  ASSUME NEW s, NEW x, NEW kind, Moves(s, x, kind), Life(s)
  PROVE  Begun(s) <=> sess[s].at # "idle"
  BY DEF Moves, Life

LEMMA EmitLife ==
  ASSUME Shape, NEW s \in Runs, NEW kind \in Kinds, NEW x, Moves(s, x, kind), Life(s),
         NEW v \in View, v.run \in Runs, OnEvent(s, kind, v)
  PROVE  Life(s)'
  <1>1. /\ count'[s] = count[s] + 1
        /\ opened'[s] = IF kind = "run.started" THEN count[s] + 1 ELSE opened[s]
        /\ closed'[s] = IF kind = "run.finished" /\ closed[s] = 0 THEN count[s] + 1
                        ELSE closed[s]
    BY OnEventOthers
  <1>2. count[s] \in Nat /\ opened[s] \in Nat /\ closed[s] \in Nat BY DEF Shape
  <1>3. sess'[s] = x BY DEF Moves, Shape
  <1>4. Begun(s) <=> sess[s].at # "idle" BY MovesBegun
  <1>5. opened'[s] <= count'[s] /\ closed'[s] <= count'[s]
    BY <1>1, <1>2 DEF Life
  <1>6. closed'[s] # 0 => opened'[s] <= closed'[s]
    BY <1>1, <1>2 DEF Life, Moves
  <1>7. x.at = "idle" => opened'[s] = 0 /\ closed'[s] = 0
    BY <1>1, <1>4 DEF Life, Moves, Begun
  <1>8. opened'[s] = 0 => x.at \in {"idle", "finished"}
    <2>1. ASSUME opened'[s] = 0 PROVE sess[s].at = "idle" /\ kind # "run.started"
      BY <1>1, <1>2, <1>4, <2>1 DEF Begun
    <2> QED BY <2>1 DEF Moves
  <1>9. x.at = "finished" => closed'[s] # 0 BY <1>1, <1>2 DEF Moves
  <1>10. x.asks => x.at \in {"tick", "finished"} /\ opened'[s] # 0
    <2>1. ASSUME x.asks PROVE sess[s].at # "idle" /\ x.at \in {"tick", "finished"}
      BY <2>1 DEF Moves, Life
    <2>2. x.asks => opened'[s] # 0 BY <1>1, <1>2, <1>4, <2>1 DEF Begun
    <2> QED BY <2>1, <2>2
  <1> QED BY <1>3, <1>5, <1>6, <1>7, <1>8, <1>9, <1>10 DEF Life, Begun

LEMMA EmitScreen ==
  ASSUME Shape, Screen, NEW s \in Runs, s = current, NEW kind \in Kinds, NEW x,
         Moves(s, x, kind), Emit(s, kind)
  PROVE  Screen'
  <1>1. current' = s BY DEF Emit
  <1>2. sess'[s] = x /\ \A q \in Runs : q # s => sess'[q] = sess[q]
    BY DEF Moves, Shape
  <1> DEFINE v == Absorbed(s, kind)
  <1>3. view' = v /\ OnEvent(s, kind, v) /\ v \in View /\ v.run \in Runs
    BY AbsorbedShape DEF Emit
  <1>4. /\ v.run = s /\ v.shows = view.shows \union {s}
        /\ v.finished = (view.finished \/ kind = "run.finished")
    BY DEF Absorbed, Screen
  <1> HIDE DEF v
  <1>5. /\ \A q \in Runs : q # s => /\ count'[q] = count[q] /\ opened'[q] = opened[q]
                                    /\ closed'[q] = closed[q]
        /\ count'[s] = count[s] + 1
        /\ closed'[s] = IF kind = "run.finished" /\ closed[s] = 0 THEN count[s] + 1
                        ELSE closed[s]
    BY <1>3, OnEventOthers
  <1>6. count[s] \in Nat /\ closed[s] \in Nat /\ s # NoRun
    BY PlayAssumption DEF Shape, Runs, NoRun
  <1>7. Life(s)' BY <1>3, EmitLife DEF Screen
  <1>8. ASSUME NEW q \in Runs
        PROVE  /\ Life(q)'
               /\ q < s => sess'[q].at = "finished" /\ ~sess'[q].asks
               /\ q > s => sess'[q].at = "idle" /\ count'[q] = 0
    <2>1. CASE q # s BY <1>2, <1>5, <2>1 DEF Screen, Life, Begun
    <2>2. CASE q = s BY <1>7, <2>2 DEF Runs
    <2> QED BY <2>1, <2>2
  <1>9. view'.run = s /\ view'.shows \subseteq {s}
    BY <1>3, <1>4, <1>6 DEF Screen, Shape, View, Runs, NoRun
  <1>10. count'[s] # 0 BY <1>5, <1>6
  <1>11. view'.finished <=> closed'[s] # 0
    <2>1. view'.finished <=> view.finished \/ kind = "run.finished" BY <1>3, <1>4
    <2>2. view.finished <=> closed[s] # 0 BY DEF Screen
    <2>3. closed'[s] # 0 <=> closed[s] # 0 \/ kind = "run.finished" BY <1>5, <1>6
    <2> QED BY <2>1, <2>2, <2>3
  <1>12. ASSUME NEW q \in Runs, rows'[q] = "finished" PROVE closed'[q] # 0
    <2>1. rows[q] = "finished"
      <3>1. CASE rows' = rows BY <1>12, <3>1
      <3>2. CASE kind = "run.started" /\ rows' = [rows EXCEPT ![v.run] = Status(v)]
        <4>1. ~view.finished BY <3>2 DEF Moves, Screen, Life
        <4>2. Status(v) = "in-progress" BY <1>4, <3>2, <4>1 DEF Status
        <4> QED BY <1>3, <1>12, <3>2, <4>2 DEF Shape, Rows
      <3> QED BY <1>3, <3>1, <3>2, OnEventDoes
    <2>2. closed[q] # 0 BY <2>1 DEF Screen
    <2> QED BY <1>5, <2>2
  <1> QED BY <1>1, <1>6, <1>8, <1>9, <1>10, <1>11, <1>12 DEF Screen

LEMMA EmitCareful ==
  ASSUME Shape, Screen, Careful, NEW s \in Runs, s = current, NEW kind \in Kinds, NEW x,
         Moves(s, x, kind), Emit(s, kind)
  PROVE  Careful'
  <1>1. current' = s BY DEF Emit
  <1> DEFINE v == Absorbed(s, kind)
  <1>2. OnEvent(s, kind, v) /\ v \in View /\ v.run \in Runs
    BY AbsorbedShape DEF Emit
  <1>3. v.run = s BY DEF Absorbed, Screen
  <1> HIDE DEF v
  <1>4. /\ count'[s] = count[s] + 1
        /\ opened'[s] = IF kind = "run.started" THEN count[s] + 1 ELSE opened[s]
        /\ closed'[s] = IF kind = "run.finished" /\ closed[s] = 0 THEN count[s] + 1
                        ELSE closed[s]
    BY <1>2, OnEventOthers
  <1>5. /\ count[s] \in Nat /\ opened[s] \in Nat /\ closed[s] \in Nat /\ Life(s)
        /\ Begun(s) <=> sess[s].at # "idle"
    BY MovesBegun DEF Shape, Screen
  <1>6. /\ recorder' = IF kind = "run.started" THEN s ELSE recorder
        /\ kind = "run.started" => ~saved'
        /\ kind # "run.started" => saved' = saved
        /\ stray' = stray
        /\ \A j \in jobs' \ jobs :
              \/ kind = "tick.completed" /\ j.at = "progress" /\ j.for = v.run
              \/ kind = "run.finished" /\ j.at = "stopping" /\ j.for = s
    <2>1. \A j \in jobs' \ jobs :
            \/ /\ kind = "tick.completed" /\ j.at = "progress" /\ j.for = v.run
               /\ j.awaits = NoRun
            \/ /\ kind = "run.finished" /\ j.at = "stopping" /\ j.for = s
               /\ j.awaits = recorder'
      BY <1>2, OnEventDoes
    <2>2. /\ recorder' = IF kind = "run.started" THEN s ELSE recorder
          /\ kind = "run.started" => ~saved'
          /\ kind # "run.started" => saved' = saved
          /\ stray' = stray
      BY <1>2, OnEventDoes
    <2> QED BY <2>1, <2>2
  <1>7. Begun(s) => Begun(s)' BY <1>4, <1>5 DEF Begun
  <1>8. closed[s] # 0 => closed'[s] # 0 BY <1>4, <1>5
  <1>9. kind = "run.finished" => closed'[s] # 0 BY <1>4, <1>5
  <1>10. kind = "tick.completed" => Begun(s)' BY <1>5, <1>7 DEF Moves
  <1>11. kind = "run.started" => Begun(s)' /\ ~Begun(s) /\ closed[s] = 0
    BY <1>4, <1>5 DEF Begun, Moves, Life
  <1>12. ASSUME NEW j \in jobs PROVE CarefulJob(j)'
    <2>1. CarefulJob(j) BY DEF Careful
    <2>2. j.at = "stopping" => j.for = s /\ closed[s] # 0
      <3>1. ASSUME j.at = "stopping", j.awaits = NoRun, count[s] = 0 PROVE FALSE
        <4>1. ~Begun(s) BY <1>5, <3>1 DEF Life, Begun
        <4>2. Quiet BY <1>5, <4>1 DEF Moves
        <4> QED BY <3>1, <4>2 DEF Quiet, Landed
      <3> QED BY <2>1, <3>1 DEF CarefulJob
    <2>3. j.at = "persisting" => kind # "run.started" BY <1>11, <2>1 DEF CarefulJob
    <2> QED BY <1>1, <1>6, <1>7, <1>8, <2>1, <2>2, <2>3 DEF CarefulJob
  <1>13. ASSUME NEW j \in jobs', j \notin jobs PROVE CarefulJob(j)'
    BY <1>1, <1>3, <1>6, <1>9, <1>10, <1>13 DEF CarefulJob
  <1>14. recorder' # NoRun => ~saved' /\ Begun(s)'
    BY <1>6, <1>7, <1>11 DEF Careful
  <1>15. Begun(s)' /\ closed'[s] = 0 => ~saved'
    <2>1. CASE kind = "run.started" BY <1>6, <2>1
    <2>2. CASE kind # "run.started"
      BY <1>4, <1>5, <1>6, <2>2 DEF Careful, Begun
    <2> QED BY <2>1, <2>2
  <1>16. ~stray' BY <1>6 DEF Careful
  <1>17. \A j \in jobs' : CarefulJob(j)' BY <1>12, <1>13
  <1> QED BY <1>1, <1>14, <1>15, <1>16, <1>17 DEF Careful, Begun

LEMMA EmitShape ==
  ASSUME Shape, NEW s \in Runs, NEW kind \in Kinds, NEW x, Moves(s, x, kind), Emit(s, kind)
  PROVE  Shape'
  <1>1. view' = Absorbed(s, kind) /\ OnEvent(s, kind, view') BY DEF Emit
  <1>2. view' \in View /\ view'.run \in Runs BY <1>1, AbsorbedShape
  <1>3. sess' \in [Runs -> Session] BY DEF Moves, Shape
  <1>4. current' = current /\ events' = events BY DEF Emit
  <1> QED BY <1>1, <1>2, <1>3, <1>4, OnEventShape DEF Shape

(* A session that is neither idle nor over is the screen's.                   *)
LEMMA TheScreens ==
  ASSUME Shape, Screen, NEW s \in Runs, s = current \/ sess[s].at \notin {"idle", "finished"}
  PROVE  s = current
  <1>1. s = current \/ (~(s < current) /\ ~(s > current)) BY DEF Screen
  <1>2. s \in Int /\ current \in Int BY DEF Shape, Runs
  <1> QED BY <1>1, <1>2

LEMMA EmitStep ==
  ASSUME IInv, NEW s \in Runs, NEW kind \in Kinds, NEW x, Moves(s, x, kind), Emit(s, kind),
         s = current \/ sess[s].at \notin {"idle", "finished"}
  PROVE  IInv'
  <1>1. took' = took /\ events' = events BY DEF Emit
  <1>2. Shape /\ Shape' BY EmitShape DEF IInv
  <1>3. ASSUME NoMidTick PROVE s = current /\ Screen /\ Keeping
    BY <1>2, <1>3, TheScreens DEF IInv
  <1>4. ASSUME NoMidTick PROVE Screen'
    BY <1>2, <1>3, <1>4, EmitScreen
  <1>5. ASSUME NoMidTick PROVE Keeping'
    <2> DEFINE v == Absorbed(s, kind)
    <2>1. OnEvent(s, kind, v) /\ v \in View /\ v.run \in Runs
      BY <1>2, AbsorbedShape DEF Emit
    <2> HIDE DEF v
    <2>2. kind = "run.started" => sess[s].at = "idle" BY DEF Moves
    <2> QED BY <1>1, <1>2, <1>3, <1>5, <2>1, <2>2, OnEventKeeps
  <1>6. ASSUME AllSaved PROVE Careful'
    BY <1>2, <1>3, <1>6, EmitCareful DEF IInv, AllSaved
  <1> QED BY <1>1, <1>2, <1>4, <1>5, <1>6 DEF IInv, NoMidTick, AllSaved

(* What the sessions and the person do is a move with its event.              *)
LEMMA PlayingMoves ==
  ASSUME Shape, NEW s \in Runs, Works(s) \/ Asks(s) \/ EndsTick(s) \/ Breaks(s) \/ Ends(s)
  PROVE  \E kind, x : /\ kind \in Kinds /\ Moves(s, x, kind) /\ Emit(s, kind)
                      /\ sess[s].at \notin {"idle", "finished"}
  <1>0. sess[s] \in Session BY DEF Shape
  <1>1. CASE Works(s)
    <2>1. sess' = [sess EXCEPT ![s] = sess[s]] BY <1>0, <1>1 DEF Works, Shape
    <2>2. Moves(s, sess[s], "other") BY <1>0, <1>1, <2>1 DEF Moves, Works, Working
    <2> QED BY <1>1, <2>2 DEF Works, Working, Kinds
  <1>2. CASE Asks(s)
    <2> DEFINE x == [sess[s] EXCEPT !.asks = TRUE]
    <2>1. sess' = [sess EXCEPT ![s] = x] BY <1>2 DEF Asks
    <2>2. x \in Session /\ x.at = sess[s].at BY <1>0 DEF Session
    <2> HIDE DEF x
    <2>3. Moves(s, x, "other") BY <1>2, <2>1, <2>2 DEF Moves, Asks, Working
    <2> QED BY <1>2, <2>3 DEF Asks, Working, Kinds
  <1>3. CASE EndsTick(s)
    <2>1. PICK at \in {"between", "ending"} : sess' = Rested(s, at)
      BY <1>3 DEF EndsTick
    <2> DEFINE x == [sess[s] EXCEPT !.at = at, !.stop = FALSE, !.stepped = FALSE]
    <2>2. sess' = [sess EXCEPT ![s] = x] BY <1>0, <2>1 DEF Rested, Shape
    <2>3. x \in Session /\ x.at = at /\ x.asks = sess[s].asks BY <1>0 DEF Session
    <2> HIDE DEF x
    <2>4. Moves(s, x, "tick.completed")
      BY <1>0, <1>3, <2>2, <2>3 DEF Moves, EndsTick, Working, Session
    <2> QED BY <1>3, <2>4 DEF EndsTick, Working, Kinds
  <1>4. CASE Breaks(s)
    <2> DEFINE x == [sess[s] EXCEPT !.at = "finished", !.stop = FALSE, !.stepped = FALSE]
    <2>1. sess' = [sess EXCEPT ![s] = x] BY <1>0, <1>4 DEF Breaks, Rested, Shape
    <2>2. x \in Session /\ x.at = "finished" /\ x.asks = sess[s].asks BY <1>0 DEF Session
    <2> HIDE DEF x
    <2>3. Moves(s, x, "run.finished")
      BY <1>0, <1>4, <2>1, <2>2 DEF Moves, Breaks, Working, Session
    <2> QED BY <1>4, <2>3 DEF Breaks, Working, Kinds
  <1>5. CASE Ends(s)
    <2> DEFINE x == [sess[s] EXCEPT !.at = "finished"]
    <2>1. sess' = [sess EXCEPT ![s] = x] BY <1>5 DEF Ends
    <2>2. x \in Session /\ x.at = "finished" /\ x.asks = sess[s].asks BY <1>0 DEF Session
    <2> HIDE DEF x
    <2>3. Moves(s, x, "run.finished") BY <1>0, <1>5, <2>1, <2>2 DEF Moves, Ends, Session
    <2> QED BY <1>5, <2>3 DEF Ends, Kinds
  <1> QED BY <1>1, <1>2, <1>3, <1>4, <1>5

LEMMA PersonMoves ==
  ASSUME Shape, Quiet,
         \/ \E stepped \in BOOLEAN : Begin(stepped)
         \/ Say
         \/ (Stop \/ Declare) /\ ~Working(current)
  PROVE  \E kind, x : kind \in Kinds /\ Moves(current, x, kind) /\ Emit(current, kind)
  <1>0. current \in Runs /\ sess[current] \in Session BY DEF Shape
  <1>1. CASE \E stepped \in BOOLEAN : Begin(stepped)
    <2>1. PICK stepped \in BOOLEAN : Begin(stepped) BY <1>1
    <2> DEFINE x == [sess[current] EXCEPT !.at = "tick", !.stepped = stepped]
    <2>2. sess' = [sess EXCEPT ![current] = x] BY <1>0, <2>1 DEF Begin, Shape
    <2>3. x \in Session /\ x.at = "tick" /\ x.asks = sess[current].asks BY <1>0 DEF Session
    <2> HIDE DEF x
    <2>4. Moves(current, x, "run.started") BY <1>0, <2>1, <2>2, <2>3 DEF Moves, Begin, Session
    <2> QED BY <2>1, <2>4 DEF Begin, Kinds
  <1>2. CASE Say
    <2>1. sess' = [sess EXCEPT ![current] = sess[current]] BY <1>0, <1>2 DEF Say, Shape
    <2>2. Moves(current, sess[current], "other")
      BY <1>0, <1>2, <2>1 DEF Moves, Say, Session
    <2> QED BY <1>2, <2>2 DEF Say, Kinds
  <1>3. CASE (Stop \/ Declare) /\ ~Working(current)
    <2>1. PICK stops \in BOOLEAN : Concludes(stops) BY <1>3 DEF Stop, Declare
    <2> DEFINE st == (sess[current].stop \/ stops) /\ sess[current].asks
    <2> DEFINE x == [sess[current] EXCEPT !.at = "finished", !.stop = st]
    <2>2. sess' = [sess EXCEPT ![current] = x] /\ Emit(current, "run.finished")
      BY <1>0, <1>3, <2>1 DEF Concludes, Shape
    <2>3. st \in BOOLEAN BY <1>0 DEF Session
    <2> HIDE DEF st
    <2>4. x \in Session /\ x.at = "finished" /\ x.asks = sess[current].asks
      BY <1>0, <2>3 DEF Session
    <2> HIDE DEF x
    <2>5. sess[current].at # "finished" BY <1>3 DEF Stop, Declare
    <2>6. Moves(current, x, "run.finished")
      BY <1>0, <2>2, <2>4, <2>5 DEF Moves, Session
    <2> QED BY <2>2, <2>6 DEF Kinds
  <1> QED BY <1>1, <1>2, <1>3

--------------------------------------------------------------------------------
(* What happens without an event                                              *)

SameSessions ==
  \A r \in Runs : \/ sess'[r].at = sess[r].at /\ sess'[r].asks = sess[r].asks
                  \/ r = current /\ Begun(r) /\ sess'[r].at = "tick" /\ ~sess'[r].asks

LEMMA SessionsStay == sess' = sess => SameSessions
  BY DEF SameSessions

LEMMA KeepingSame ==
  ASSUME Keeping, UNCHANGED <<count, opened, closed, rec, events>>, recorder' \in {recorder, NoRun}
  PROVE  Keeping'
  <1>1. NoRun \notin Runs BY PlayAssumption DEF Runs, NoRun
  <1> SUFFICES ASSUME NEW q \in Runs PROVE KeepingOf(q)'
    BY DEF Keeping
  <1>2. KeepingOf(q) BY DEF Keeping
  <1>3. Kept(q) => Kept(q)' BY <1>1 DEF Kept, Latest
  <1> QED BY <1>1, <1>2, <1>3 DEF KeepingOf, Begun

LEMMA ScreenSame ==
  ASSUME Shape, Screen, UNCHANGED <<count, opened, closed, current, view>>, SameSessions,
         \/ rows' = rows
         \/ view.run # NoRun /\ rows' = [rows EXCEPT ![view.run] = Status(view)]
  PROVE  Screen'
  <1>1. PICK s \in Runs : s = current /\ current' = s BY DEF Shape
  <1>2. ASSUME NEW r \in Runs
        PROVE  /\ Life(r)'
               /\ r < s => sess'[r].at = "finished" /\ ~sess'[r].asks
               /\ r > s => sess'[r].at = "idle" /\ count'[r] = 0
    <2>1. CASE sess'[r].at = sess[r].at /\ sess'[r].asks = sess[r].asks
      BY <1>1, <2>1 DEF Screen, Life, Begun
    <2>2. CASE r = current /\ Begun(r) /\ sess'[r].at = "tick" /\ ~sess'[r].asks
      BY <1>1, <2>2 DEF Screen, Life, Begun, Runs
    <2> QED BY <2>1, <2>2 DEF SameSessions
  <1>3. \A r \in Runs : rows'[r] = "finished" => closed'[r] # 0
    <2>1. CASE rows' = rows BY <2>1 DEF Screen
    <2>2. CASE view.run # NoRun /\ rows' = [rows EXCEPT ![view.run] = Status(view)]
      <3>1. rows' = [rows EXCEPT ![s] = Status(view)] BY <1>1, <2>2 DEF Screen
      <3>2. Status(view) = "finished" => closed[s] # 0 BY <1>1 DEF Status, Screen
      <3> QED BY <3>1, <3>2 DEF Screen, Shape, Rows
    <2> QED BY <2>1, <2>2
  <1> QED BY <1>1, <1>2, <1>3 DEF Screen

LEMMA CarefulSame ==
  ASSUME Careful, UNCHANGED <<count, opened, closed, current, recorder, saved, stray>>,
         jobs' \subseteq jobs
  PROVE  Careful'
  <1>1. \A j \in jobs : CarefulJob(j)' BY DEF Careful, CarefulJob, Begun
  <1> QED BY <1>1 DEF Careful, Begun

(* A click that only lets the session go on, or has it end with its tick.     *)
Nudge ==
  \/ \E stepped \in BOOLEAN : GoOn(stepped)
  \/ Answer
  \/ (Stop \/ Declare) /\ Working(current)

LEMMA NudgeDoes ==
  ASSUME Shape, Nudge
  PROVE  /\ UNCHANGED <<count, opened, closed, current, view, recorder, rec, jobs, saved, rows,
                        events, stray, failed, took>>
         /\ sess' \in [Runs -> Session]
         /\ Screen => SameSessions
  <1>0. sess \in [Runs -> Session] /\ current \in Runs /\ sess[current] \in Session
    BY DEF Shape
  <1>1. CASE \E stepped \in BOOLEAN : GoOn(stepped)
    <2>1. PICK stepped \in BOOLEAN : GoOn(stepped) BY <1>1
    <2> DEFINE x == [sess[current] EXCEPT !.at = "tick", !.stepped = stepped]
    <2>2. sess' = [sess EXCEPT ![current] = x] BY <1>0, <2>1 DEF GoOn
    <2>3. x \in Session /\ x.at = "tick" /\ x.asks = sess[current].asks BY <1>0 DEF Session
    <2>4. sess[current].at = "between" BY <2>1 DEF GoOn
    <2> HIDE DEF x
    <2>5. Screen => Begun(current) /\ ~sess[current].asks BY <1>0, <2>4 DEF Screen, Life
    <2> QED BY <1>0, <2>1, <2>2, <2>3, <2>5 DEF SameSessions, GoOn, trace, page, storage
  <1>2. CASE Answer
    <2> DEFINE x == [sess[current] EXCEPT !.at = "tick", !.asks = FALSE]
    <2>1. sess' = [sess EXCEPT ![current] = x] BY <1>0, <1>2 DEF Answer
    <2>2. x \in Session /\ x.at = "tick" /\ ~x.asks BY <1>0 DEF Session
    <2> HIDE DEF x
    <2>3. Screen => Begun(current) BY <1>0, <1>2 DEF Screen, Life, Answer
    <2> QED BY <1>0, <1>2, <2>1, <2>2, <2>3 DEF SameSessions, Answer, trace, page, storage
  <1>3. CASE (Stop \/ Declare) /\ Working(current)
    <2> DEFINE x == [sess[current] EXCEPT !.stop = TRUE]
    <2>1. sess' = [sess EXCEPT ![current] = x] /\ UNCHANGED <<trace, current, page, storage, took>>
      BY <1>3 DEF Stop, Declare, Concludes
    <2>2. x \in Session /\ x.at = sess[current].at /\ x.asks = sess[current].asks
      BY <1>0 DEF Session
    <2> HIDE DEF x
    <2> QED BY <1>0, <2>1, <2>2 DEF SameSessions, trace, page, storage
  <1> QED BY <1>1, <1>2, <1>3 DEF Nudge

LEMMA NudgeStep ==
  ASSUME IInv, Nudge
  PROVE  IInv'
  <1>1. /\ UNCHANGED <<count, opened, closed, current, view, recorder, rec, jobs, saved, rows,
                       events, stray, took>>
        /\ sess' \in [Runs -> Session]
        /\ Screen => SameSessions
    BY NudgeDoes DEF IInv
  <1>2. Shape' BY <1>1 DEF IInv, Shape
  <1>3. NoMidTick => Screen' /\ Keeping'
    BY <1>1, ScreenSame, KeepingSame DEF IInv
  <1>4. AllSaved => Careful' BY <1>1, CarefulSame DEF IInv
  <1> QED BY <1>1, <1>2, <1>3, <1>4 DEF IInv, NoMidTick, AllSaved

--------------------------------------------------------------------------------
(* The world is reset                                                         *)

(* A reset that takes no liberty finds nothing under way.                     *)
LEMMA NothingUnderWay ==
  ASSUME Shape, Screen, Careful, Quiet, NEW s \in Runs, s = current,
         sess[s].at = "idle" \/ ~Unsaved
  PROVE  jobs = {} /\ recorder = NoRun /\ (Begun(s) => closed[s] # 0)
  <1>1. Life(s) BY DEF Screen
  <1>2. Begun(s) \/ closed[s] # 0 => saved /\ \A j \in jobs : j.for # s
    BY <1>1 DEF Life, Unsaved, Shape
  <1>3. ASSUME NEW j \in jobs PROVE FALSE
    <2>1. j.at \in {"progress", "stopping", "persisting"} BY <1>3 DEF Shape, Jobs
    <2>2. CarefulJob(j) BY <1>3 DEF Careful
    <2>3. CASE j.at = "progress" BY <1>2, <1>3, <2>2, <2>3 DEF CarefulJob
    <2>4. CASE j.at = "stopping"
      <3>1. j.awaits = NoRun BY <1>2, <1>3, <2>2, <2>4 DEF CarefulJob
      <3> QED BY <1>3, <2>4, <3>1 DEF Quiet, Landed
    <2>5. CASE j.at = "persisting" BY <1>2, <1>3, <2>2, <2>5 DEF CarefulJob
    <2> QED BY <2>1, <2>3, <2>4, <2>5
  <1>4. recorder = NoRun BY <1>2 DEF Careful
  <1> QED BY <1>2, <1>3, <1>4 DEF Careful

LEMMA ResetShape ==
  ASSUME Shape, Reset
  PROVE  Shape'
  <1>0. current \in Runs /\ sess[current] \in Session /\ "run.finished" \in Kinds
    BY DEF Shape, Kinds
  <1>1. current' \in Runs /\ current' = current + 1 /\ events' = events
    BY <1>0, PlayAssumption DEF Reset, Runs
  <1>2. view' \in View BY DEF Reset, Blank, View
  <1>3. sess' \in [Runs -> Session]
    <2> DEFINE x == [sess[current] EXCEPT !.at = "finished"]
    <2> DEFINE y == [sess[current] EXCEPT !.at = "tick", !.asks = FALSE, !.stop = TRUE]
    <2>1. \/ sess' = [sess EXCEPT ![current] = x] \/ sess' = [sess EXCEPT ![current] = y]
          \/ sess' = sess
      BY <1>0 DEF Reset, Released, Shape
    <2>2. x \in Session /\ y \in Session BY <1>0 DEF Session
    <2> HIDE DEF x, y
    <2> QED BY <2>1, <2>2 DEF Shape
  <1>4. CASE OnEvent(current, "run.finished", Absorbed(current, "run.finished"))
    <2> DEFINE v == Absorbed(current, "run.finished")
    <2>1. v \in View /\ v.run \in Runs BY <1>0, AbsorbedShape
    <2>2. OnEvent(current, "run.finished", v) BY <1>4
    <2> HIDE DEF v
    <2> QED BY <1>0, <1>1, <1>2, <1>3, <2>1, <2>2, OnEventShape DEF Shape
  <1>5. CASE UNCHANGED <<trace, recorder, rec, jobs, saved, rows, stray, failed>>
    BY <1>1, <1>2, <1>3, <1>5 DEF Shape, trace
  <1> QED BY <1>4, <1>5 DEF Reset

(* A reset of a run that is not in mid-tick ends it at once, or finds it over.*)
LEMMA ResetDoes ==
  ASSUME Shape, Reset, "reset-mid-tick" \notin took', NEW s \in Runs, s = current
  PROVE  /\ current' = s + 1 /\ s + 1 \in Runs /\ view' = Blank /\ events' = events
         /\ took \subseteq took' /\ ~sess[s].asks /\ sess[s].at \in {"idle", "between", "finished"}
         /\ sess[s].at # "idle" /\ Unsaved => "reset-unsaved" \in took'
         /\ \/ /\ sess[s].at \in {"idle", "between"}
               /\ sess' = [sess EXCEPT ![s] = [sess[s] EXCEPT !.at = "finished"]]
               /\ OnEvent(s, "run.finished", Absorbed(s, "run.finished"))
            \/ /\ sess[s].at = "finished"
               /\ UNCHANGED <<sess, count, opened, closed, recorder, rec, jobs, saved, rows,
                              stray, failed>>
  <1>0. sess[s] \in Session /\ s + 1 \in Runs BY PlayAssumption DEF Shape, Reset, Runs
  <1>1. ~InFlight(s) /\ (sess[s].at # "idle" /\ Unsaved => "reset-unsaved" \in took')
    <2>1. InFlight(s) => "reset-mid-tick" \in took' BY DEF Reset, Care
    <2> QED BY <2>1 DEF Reset, Care
  <1>2. ~sess[s].asks /\ sess[s].at \in {"idle", "between", "finished"}
    BY <1>0, <1>1 DEF InFlight, Session, Reset, Settled
  <1>3. CASE sess[s].at \in {"idle", "between"}
    <2>1. /\ sess' = [sess EXCEPT ![s].at = "finished"]
          /\ OnEvent(s, "run.finished", Absorbed(s, "run.finished"))
      BY <1>3 DEF Reset
    <2> QED BY <1>0, <1>1, <1>2, <1>3, <2>1 DEF Reset
  <1>4. CASE sess[s].at = "finished"
    BY <1>0, <1>1, <1>2, <1>4 DEF Reset, Released, trace
  <1> QED BY <1>2, <1>3, <1>4

LEMMA ResetStep ==
  ASSUME IInv, Quiet, Reset
  PROVE  IInv'
  <1>0. Shape /\ Shape' BY ResetShape DEF IInv
  <1>1. PICK s \in Runs : s = current BY <1>0 DEF Shape
  <1>2. CASE "reset-mid-tick" \in took' BY <1>0, <1>2 DEF IInv, NoMidTick, AllSaved
  <1>3. CASE "reset-mid-tick" \notin took'
    <2> DEFINE x == [sess[s] EXCEPT !.at = "finished"]
    <2> DEFINE v == Absorbed(s, "run.finished")
    <2>1. /\ current' = s + 1 /\ s + 1 \in Runs /\ view' = Blank /\ events' = events
          /\ took \subseteq took' /\ ~sess[s].asks
          /\ sess[s].at \in {"idle", "between", "finished"}
          /\ sess[s].at # "idle" /\ Unsaved => "reset-unsaved" \in took'
          /\ \/ /\ sess[s].at \in {"idle", "between"}
                /\ sess' = [sess EXCEPT ![s] = x]
                /\ OnEvent(s, "run.finished", v)
             \/ /\ sess[s].at = "finished"
                /\ UNCHANGED <<sess, count, opened, closed, recorder, rec, jobs, saved, rows,
                               stray, failed>>
      BY <1>0, <1>1, <1>3, ResetDoes
    <2>2. x \in Session /\ x.at = "finished" /\ x.asks = sess[s].asks
      <3>1. sess[s] \in Session BY <1>0 DEF Shape
      <3> QED BY <3>1 DEF Session
    <2>3. v \in View /\ v.run \in Runs BY <1>0, AbsorbedShape DEF Kinds
    <2> HIDE DEF x, v
    <2>4. NoMidTick /\ Screen /\ Keeping BY <1>3, <2>1 DEF IInv, NoMidTick
    <2>5. AllSaved' => AllSaved /\ Careful /\ (sess[s].at = "idle" \/ ~Unsaved)
      BY <2>1 DEF IInv, NoMidTick, AllSaved
    <2>6. /\ \A q \in Runs : q # s => sess'[q] = sess[q] /\ count'[q] = count[q]
                                      /\ opened'[q] = opened[q] /\ closed'[q] = closed[q]
          /\ sess'[s].at = "finished" /\ ~sess'[s].asks /\ Life(s)'
          /\ rows' = rows /\ stray' = stray /\ recorder' = recorder /\ saved' = saved
      <3>1. CASE sess[s].at \in {"idle", "between"} /\ sess' = [sess EXCEPT ![s] = x]
                 /\ OnEvent(s, "run.finished", v)
        <4>1. /\ \A q \in Runs : q # s => /\ count'[q] = count[q] /\ opened'[q] = opened[q]
                                          /\ closed'[q] = closed[q]
              /\ count'[s] = count[s] + 1 /\ opened'[s] = opened[s]
              /\ closed'[s] = IF closed[s] = 0 THEN count[s] + 1 ELSE closed[s]
          BY <1>0, <2>3, <3>1, OnEventOthers DEF Kinds
        <4>2. rows' = rows /\ stray' = stray /\ recorder' = recorder /\ saved' = saved
          BY <1>0, <2>3, <3>1, OnEventDoes DEF Kinds
        <4>3. sess'[s] = x /\ \A q \in Runs : q # s => sess'[q] = sess[q]
          BY <1>0, <3>1 DEF Shape
        <4>4. /\ count[s] \in Nat /\ opened[s] \in Nat /\ closed[s] \in Nat
          BY <1>0 DEF Shape
        <4>5. Life(s) BY <2>4 DEF Screen
        <4>6. Life(s)'
          BY <2>1, <2>2, <4>1, <4>3, <4>4, <4>5 DEF Life, Begun
        <4> QED BY <2>1, <2>2, <4>1, <4>2, <4>3, <4>6
      <3>2. CASE sess[s].at = "finished" /\ UNCHANGED <<sess, count, opened, closed, recorder,
                   rec, jobs, saved, rows, stray, failed>>
        BY <2>1, <2>4, <3>2 DEF Screen, Life, Begun
      <3> QED BY <2>1, <3>1, <3>2
    <2>7. Keeping'
      <3>1. CASE OnEvent(s, "run.finished", v)
        BY <1>0, <1>1, <2>1, <2>3, <2>4, <3>1, OnEventKeeps DEF Kinds
      <3>2. CASE UNCHANGED <<count, opened, closed, recorder, rec>>
        BY <2>1, <2>4, <3>2, KeepingSame
      <3> QED BY <2>1, <3>1, <3>2
    <2>8. Screen'
      <3>1. ASSUME NEW q \in Runs
            PROVE  /\ Life(q)'
                   /\ q < s + 1 => sess'[q].at = "finished" /\ ~sess'[q].asks
                   /\ q > s + 1 => sess'[q].at = "idle" /\ count'[q] = 0
        <4>1. CASE q # s
          <5>1. Life(q)' BY <2>4, <2>6, <4>1 DEF Screen, Life, Begun
          <5>2. q < s + 1 => q < s BY <4>1 DEF Runs
          <5>3. q > s + 1 => q > s BY DEF Runs
          <5> QED BY <1>1, <2>4, <2>6, <4>1, <5>1, <5>2, <5>3 DEF Screen
        <4>2. CASE q = s BY <2>6, <4>2 DEF Runs
        <4> QED BY <4>1, <4>2
      <3>2. sess[s + 1].at = "idle" /\ count[s + 1] = 0 /\ Life(s + 1)
        BY <1>1, <2>1, <2>4 DEF Screen, Runs
      <3>3. count'[s + 1] = 0 /\ closed'[s + 1] = 0
        BY <2>1, <2>6, <3>2 DEF Life, Runs
      <3>4. \A q \in Runs : rows'[q] = "finished" => closed'[q] # 0
        BY <2>4, <2>6 DEF Screen, Life
      <3> QED BY <2>1, <3>1, <3>3, <3>4 DEF Screen, Blank
    <2>9. ASSUME AllSaved' PROVE Careful'
      <3>1. jobs = {} /\ recorder = NoRun
        BY <1>0, <1>1, <2>4, <2>5, <2>9, NothingUnderWay
      <3>2. \A j \in jobs' : j.at = "stopping" /\ j.awaits = NoRun
        <4>1. CASE OnEvent(s, "run.finished", v)
          <5>1. \A j \in jobs' \ jobs : j.at = "stopping" /\ j.awaits = recorder'
            BY <1>0, <2>3, <4>1, OnEventDoes DEF Kinds
          <5> QED BY <2>6, <3>1, <5>1
        <4>2. CASE jobs' = jobs BY <3>1, <4>2
        <4> QED BY <2>1, <4>1, <4>2
      <3>3. count'[s + 1] = 0 /\ opened'[s + 1] = 0
        <4>1. count[s + 1] = 0 /\ opened[s + 1] = 0
          BY <1>1, <2>1, <2>4 DEF Screen, Life, Begun, Runs
        <4> QED BY <2>1, <2>6, <4>1 DEF Runs
      <3>4. \A j \in jobs' : CarefulJob(j)' BY <2>1, <3>2, <3>3 DEF CarefulJob
      <3> QED BY <2>1, <2>5, <2>6, <2>9, <3>1, <3>3, <3>4 DEF Careful, Begun
    <2> QED BY <1>0, <2>7, <2>8, <2>9 DEF IInv
  <1> QED BY <1>2, <1>3

--------------------------------------------------------------------------------
(* What the handlers and the recorder go on to do                             *)

(* A batch that is written leaves the recorder and what is stored in order.   *)
LEMMA BatchWritten ==
  ASSUME NEW r \in Runs, rec \in [Runs -> Recorder], rec[r] \in Recorder,
         events[r] \in Seq(Ev), Write(r)
  PROVE  \E x \in Recorder, w \in Seq(Ev) :
           /\ rec' = [rec EXCEPT ![r] = x] /\ events' = [events EXCEPT ![r] = w]
           /\ x.stopped = rec[r].stopped /\ x.buffer = rec[r].buffer /\ x.broken = rec[r].broken
           /\ rec[r].queue # <<>> /\ Len(events[r]) <= Len(w)
           /\ \A o, n \in Nat : InOrderOf(rec[r], events[r], r, o, n) => InOrderOf(x, w, r, o, n)
  <1> DEFINE q == rec[r].queue
  <1> DEFINE w == events[r] \o Head(q)
  <1> DEFINE x == [rec[r] EXCEPT !.queue = Tail(q)]
  <1>1. q \in Seq(Seq(Ev)) /\ q # <<>> BY DEF Recorder, Write
  <1>2. Head(q) \in Seq(Ev) /\ Tail(q) \in Seq(Seq(Ev))
    <2> HIDE DEF q
    <2> QED BY <1>1
  <1>3. w \in Seq(Ev) /\ Len(events[r]) <= Len(w)
    <2>1. \A a, b \in Seq(Ev) : a \o b \in Seq(Ev) /\ Len(a) <= Len(a \o b) OBVIOUS
    <2> QED BY <1>2, <2>1
  <1>4. x \in Recorder /\ x.stopped = rec[r].stopped /\ x.buffer = rec[r].buffer
        /\ x.queue = Tail(q) /\ x.broken = rec[r].broken
    BY <1>2 DEF Recorder
  <1>5. rec' = [rec EXCEPT ![r] = x] /\ events' = [events EXCEPT ![r] = w]
    BY DEF Write
  <1>6. ASSUME NEW o \in Nat, NEW n \in Nat, InOrderOf(rec[r], events[r], r, o, n)
        PROVE  InOrder(rec[r].buffer, Tail(q), w, r, o, n)
    BY <1>1, <1>6, WriteInOrder DEF InOrderOf
  <1> HIDE DEF x, w
  <1>7. \A o, n \in Nat : InOrderOf(rec[r], events[r], r, o, n) => InOrderOf(x, w, r, o, n)
    BY <1>4, <1>6 DEF InOrderOf
  <1> QED BY <1>1, <1>3, <1>4, <1>5, <1>7

LEMMA WritingStep ==
  ASSUME IInv, NEW r \in Runs, Writing(r)
  PROVE  IInv'
  <1>0. Shape /\ rec[r] \in Recorder /\ events[r] \in Seq(Ev) BY DEF IInv, Shape
  <1>1. UNCHANGED <<sess, count, opened, closed, current, view, recorder, jobs, saved, rows,
                    stray, took>>
    BY DEF Writing, Write, WriteFails, trace
  <1>2. ASSUME Write(r)
        PROVE  \E x \in Recorder, w \in Seq(Ev) :
                 /\ rec' = [rec EXCEPT ![r] = x] /\ events' = [events EXCEPT ![r] = w]
                 /\ x.stopped = rec[r].stopped /\ x.buffer = rec[r].buffer
                 /\ rec[r].queue # <<>>
                 /\ \A o, n \in Nat :
                      InOrderOf(rec[r], events[r], r, o, n) => InOrderOf(x, w, r, o, n)
    <2>1. rec \in [Runs -> Recorder] BY <1>0 DEF Shape
    <2> QED BY <1>0, <1>2, <2>1, BatchWritten
  <1>3. ASSUME WriteFails(r)
        PROVE  \E x \in Recorder, w \in Seq(Ev) :
                 /\ rec' = [rec EXCEPT ![r] = x] /\ events' = [events EXCEPT ![r] = w]
                 /\ x.stopped = rec[r].stopped /\ x.buffer = rec[r].buffer
                 /\ rec[r].queue # <<>>
                 /\ \A o, n \in Nat :
                      InOrderOf(rec[r], events[r], r, o, n) => InOrderOf(x, w, r, o, n)
    <2> DEFINE x == [rec[r] EXCEPT !.broken = TRUE]
    <2>1. /\ x \in Recorder /\ x.stopped = rec[r].stopped /\ x.buffer = rec[r].buffer
          /\ x.queue = rec[r].queue
      BY <1>0 DEF Recorder
    <2>2. rec' = [rec EXCEPT ![r] = x] /\ rec[r].queue # <<>> BY <1>3 DEF WriteFails
    <2> HIDE DEF x
    <2>3. events' = [events EXCEPT ![r] = events[r]] BY <1>0, <1>3 DEF WriteFails, Shape
    <2>4. \A o, n \in Nat :
            InOrderOf(rec[r], events[r], r, o, n) => InOrderOf(x, events[r], r, o, n)
      BY <2>1 DEF InOrderOf
    <2> QED BY <1>0, <2>1, <2>2, <2>3, <2>4
  <1>4. PICK x \in Recorder, w \in Seq(Ev) :
          /\ rec' = [rec EXCEPT ![r] = x] /\ events' = [events EXCEPT ![r] = w]
          /\ x.stopped = rec[r].stopped /\ x.buffer = rec[r].buffer
          /\ rec[r].queue # <<>>
          /\ \A o, n \in Nat :
               InOrderOf(rec[r], events[r], r, o, n) => InOrderOf(x, w, r, o, n)
    BY <1>2, <1>3 DEF Writing
  <1>5. /\ rec'[r] = x /\ events'[r] = w
        /\ \A q \in Runs : q # r => rec'[q] = rec[q] /\ events'[q] = events[q]
    BY <1>0, <1>4 DEF Shape
  <1>6. Shape' BY <1>1, <1>4 DEF IInv, Shape
  <1>7. ASSUME Keeping PROVE Keeping'
    <2> SUFFICES ASSUME NEW q \in Runs PROVE KeepingOf(q)'
      BY DEF Keeping
    <2>1. KeepingOf(q) BY <1>7 DEF Keeping
    <2>2. CASE q # r
      <3>1. Kept(q) => Kept(q)' BY <1>1, <1>5, <2>2 DEF Kept, Latest
      <3> QED BY <1>1, <1>5, <2>1, <2>2, <3>1 DEF KeepingOf, Begun
    <2>3. CASE q = r
      <3>1. Begun(r) BY <1>4, <2>1, <2>3 DEF KeepingOf, NewRecorder
      <3>2. rec'[r].stopped = rec[r].stopped /\ rec'[r].buffer = rec[r].buffer
        BY <1>4, <1>5
      <3>3. PICK n \in opened[r] - 1 .. Latest(r) :
              /\ InOrderOf(rec[r], events[r], r, opened[r] - 1, n)
              /\ recorder = r /\ ~rec[r].stopped => n = count[r]
        BY <2>1, <2>3, <3>1 DEF KeepingOf, Kept
      <3>4. opened[r] - 1 \in Nat /\ n \in Nat
        <4>1. opened[r] \in Nat /\ opened[r] # 0 /\ Latest(r) \in Nat
          BY <1>0, <3>1 DEF Shape, Begun, Latest
        <4> QED BY <3>3, <4>1
      <3> DEFINE o == opened[r] - 1
      <3>5. o \in Nat /\ InOrderOf(rec[r], events[r], r, o, n) BY <3>3, <3>4
      <3> HIDE DEF o
      <3>6. InOrderOf(x, w, r, o, n) BY <1>4, <3>4, <3>5
      <3>7. InOrderOf(rec'[r], events'[r], r, opened'[r] - 1, n) BY <1>1, <1>5, <3>6 DEF o
      <3>8. opened'[r] = opened[r] /\ Latest(r)' = Latest(r) BY <1>1 DEF Latest
      <3>9. Kept(r)' BY <1>1, <3>2, <3>3, <3>7, <3>8 DEF Kept
      <3> QED BY <1>1, <2>1, <2>3, <3>1, <3>2, <3>9 DEF KeepingOf, Begun
    <2> QED BY <2>2, <2>3
  <1>8. NoMidTick => Screen' /\ Keeping'
    BY <1>0, <1>1, <1>7, SessionsStay, ScreenSame DEF IInv
  <1>9. AllSaved => Careful' BY <1>1, CarefulSame DEF IInv
  <1> QED BY <1>1, <1>6, <1>8, <1>9 DEF IInv, NoMidTick, AllSaved

(* A record that is put, or a call that is rejected.                          *)
LEMMA PutDoes ==
  ASSUME Shape, Put(view) \/ PutFails \/ UNCHANGED <<rows, stray>>
  PROVE  /\ rows' \in Rows /\ stray' \in BOOLEAN
         /\ \/ rows' = rows
            \/ view.run # NoRun /\ rows' = [rows EXCEPT ![view.run] = Status(view)]
         /\ view.run # NoRun => stray' = stray
  <1>1. Status(view) \in {"in-progress", "finished"} BY DEF Status
  <1>2. CASE PutFails \/ UNCHANGED <<rows, stray>> BY <1>2 DEF PutFails, Shape
  <1>3. CASE Put(view) /\ view.run = NoRun BY <1>3 DEF Put, Shape
  <1>4. CASE Put(view) /\ view.run # NoRun
    <2>1. rows' = [rows EXCEPT ![view.run] = Status(view)] /\ stray' = stray
      BY <1>4 DEF Put
    <2> QED BY <1>1, <1>4, <2>1 DEF Shape, View, Rows
  <1> QED BY <1>2, <1>3, <1>4

LEMMA ProgressStep ==
  ASSUME IInv, NEW j \in jobs, Progress(j)
  PROVE  IInv'
  <1>0. Shape BY DEF IInv
  <1>1. /\ UNCHANGED <<sess, count, opened, closed, current, view, recorder, rec, saved, events,
                       took>>
        /\ jobs' = jobs \ {j} /\ j.at = "progress"
    BY DEF Progress, trace
  <1>2. /\ rows' \in Rows /\ stray' \in BOOLEAN
        /\ \/ rows' = rows
           \/ view.run # NoRun /\ rows' = [rows EXCEPT ![view.run] = Status(view)]
        /\ view.run # NoRun => stray' = stray
    BY <1>0, PutDoes DEF Progress
  <1>3. Shape' BY <1>0, <1>1, <1>2 DEF Shape
  <1>4. NoMidTick => Screen' /\ Keeping'
    BY <1>0, <1>1, <1>2, SessionsStay, ScreenSame, KeepingSame DEF IInv
  <1>5. ASSUME AllSaved PROVE Careful'
    <2>1. Careful /\ Screen BY <1>5 DEF IInv, AllSaved
    <2>2. CarefulJob(j) /\ current \in Runs BY <1>0, <2>1 DEF Careful, Shape
    <2>3. Begun(current) BY <1>1, <2>2 DEF CarefulJob
    <2>4. count[current] # 0
      <3>1. Life(current) /\ opened[current] \in Nat /\ count[current] \in Nat
        BY <1>0, <2>1 DEF Screen, Shape
      <3> QED BY <2>3, <3>1 DEF Life, Begun
    <2>5. stray' = stray BY <1>2, <2>1, <2>4 DEF Screen
    <2> QED BY <1>1, <2>1, <2>5, CarefulSame
  <1> QED BY <1>1, <1>3, <1>4, <1>5 DEF IInv, NoMidTick, AllSaved

(* A session of which nothing was heard has not begun, nor ended.             *)
LEMMA Unheard ==
  ASSUME Shape, Screen, NEW r \in Runs, count[r] = 0
  PROVE  ~Begun(r) /\ closed[r] = 0
  <1>1. Life(r) /\ opened[r] \in Nat /\ closed[r] \in Nat BY DEF Screen, Shape
  <1> QED BY <1>1 DEF Life, Begun

LEMMA StoppedStep ==
  ASSUME IInv, NEW j \in jobs, Stopped(j)
  PROVE  IInv'
  <1>0. Shape /\ j \in Jobs /\ current \in Runs BY DEF IInv, Shape
  <1> DEFINE k == [j EXCEPT !.at = "persisting"]
  <1>1. /\ UNCHANGED <<sess, count, opened, closed, current, view, rec, rows, events, stray, took>>
        /\ j.at = "stopping" /\ recorder' = NoRun
    BY DEF Stopped, storage, trace
  <1>2. \/ /\ view.run # NoRun /\ view.finished
           /\ jobs' = (jobs \ {j}) \union {k} /\ saved' = saved
        \/ /\ ~(view.run # NoRun /\ view.finished)
           /\ jobs' = jobs \ {j} /\ saved' = TRUE
    BY DEF Stopped
  <1>3. k \in Jobs /\ k.at = "persisting" /\ k.for = j.for BY <1>0 DEF Jobs
  <1> HIDE DEF k
  <1>4. Shape' BY <1>0, <1>1, <1>2, <1>3 DEF Shape
  <1>5. NoMidTick => Screen' /\ Keeping'
    BY <1>0, <1>1, SessionsStay, ScreenSame, KeepingSame DEF IInv
  <1>6. ASSUME AllSaved PROVE Careful'
    <2>1. Careful /\ Screen BY <1>6 DEF IInv, AllSaved
    <2>2. CarefulJob(j) BY <2>1 DEF Careful
    <2>3. ASSUME NEW i \in jobs PROVE CarefulJob(i)'
      BY <1>1, <2>1 DEF Careful, CarefulJob, Begun
    <2>4. CASE /\ view.run # NoRun /\ view.finished
               /\ jobs' = (jobs \ {j}) \union {k} /\ saved' = saved
      <3>1. closed[current] # 0 BY <2>1, <2>4 DEF Screen
      <3>2. count[current] # 0 BY <1>0, <2>1, <3>1, Unheard
      <3>3. j.for = current BY <1>1, <2>2, <3>2 DEF CarefulJob
      <3>4. CarefulJob(k)' BY <1>1, <1>3, <3>1, <3>3 DEF CarefulJob
      <3> QED BY <1>1, <2>1, <2>3, <2>4, <3>1, <3>4 DEF Careful, Begun
    <2>5. CASE /\ ~(view.run # NoRun /\ view.finished)
               /\ jobs' = jobs \ {j} /\ saved' = TRUE
      <3>1. ~(Begun(current) /\ closed[current] = 0)
        <4>1. CASE count[current] = 0 BY <1>0, <2>1, <4>1, Unheard
        <4>2. CASE count[current] # 0 BY <1>1, <2>2, <4>2 DEF CarefulJob
        <4> QED BY <4>1, <4>2
      <3> QED BY <1>1, <2>1, <2>3, <2>5, <3>1 DEF Careful, Begun
    <2> QED BY <1>2, <2>4, <2>5
  <1> QED BY <1>1, <1>4, <1>5, <1>6 DEF IInv, NoMidTick, AllSaved

LEMMA StopFailsStep ==
  ASSUME IInv, NEW j \in jobs, StopFails(j)
  PROVE  IInv'
  <1>0. Shape BY DEF IInv
  <1>1. /\ UNCHANGED <<sess, count, opened, closed, current, view, recorder, rec, saved, rows,
                       events, stray, took>>
        /\ jobs' = jobs \ {j}
    BY DEF StopFails, storage, trace
  <1>2. Shape' BY <1>0, <1>1 DEF Shape
  <1>3. NoMidTick => Screen' /\ Keeping'
    BY <1>0, <1>1, SessionsStay, ScreenSame, KeepingSame DEF IInv
  <1>4. AllSaved => Careful' BY <1>1, CarefulSame DEF IInv
  <1> QED BY <1>1, <1>2, <1>3, <1>4 DEF IInv, NoMidTick, AllSaved

LEMMA PersistedStep ==
  ASSUME IInv, NEW j \in jobs, Persisted(j)
  PROVE  IInv'
  <1>0. Shape /\ current \in Runs BY DEF IInv, Shape
  <1>1. /\ UNCHANGED <<sess, count, opened, closed, current, view, recorder, rec, events, took>>
        /\ jobs' = jobs \ {j} /\ saved' \in {TRUE, saved} /\ j.at = "persisting"
    BY DEF Persisted, trace
  <1>2. /\ rows' \in Rows /\ stray' \in BOOLEAN
        /\ \/ rows' = rows
           \/ view.run # NoRun /\ rows' = [rows EXCEPT ![view.run] = Status(view)]
        /\ view.run # NoRun => stray' = stray
    BY <1>0, PutDoes DEF Persisted
  <1>3. Shape' BY <1>0, <1>1, <1>2 DEF Shape
  <1>4. NoMidTick => Screen' /\ Keeping'
    BY <1>0, <1>1, <1>2, SessionsStay, ScreenSame, KeepingSame DEF IInv
  <1>5. ASSUME AllSaved PROVE Careful'
    <2>1. Careful /\ Screen BY <1>5 DEF IInv, AllSaved
    <2>2. closed[current] # 0 /\ recorder = NoRun
      <3>1. CarefulJob(j) BY <2>1 DEF Careful
      <3> QED BY <1>1, <3>1 DEF CarefulJob
    <2>3. count[current] # 0 BY <1>0, <2>1, <2>2, Unheard
    <2>4. stray' = stray BY <1>2, <2>1, <2>3 DEF Screen
    <2>5. ASSUME NEW i \in jobs PROVE CarefulJob(i)'
      BY <1>1, <2>1 DEF Careful, CarefulJob, Begun
    <2> QED BY <1>1, <2>1, <2>2, <2>4, <2>5 DEF Careful, Begun
  <1> QED BY <1>1, <1>3, <1>4, <1>5 DEF IInv, NoMidTick, AllSaved

--------------------------------------------------------------------------------
(* What the person does, other than to reset: a move with its event, or none. *)
LEMMA PersonDoes ==
  ASSUME Shape, Person
  PROVE  \/ \E kind, x : kind \in Kinds /\ Moves(current, x, kind) /\ Emit(current, kind)
         \/ Nudge
         \/ Quiet /\ Reset
  <1>1. CASE Stop \/ Declare
    <2>1. CASE Working(current) BY <1>1, <2>1 DEF Nudge
    <2>2. CASE ~Working(current) BY <1>1, <2>2, PersonMoves DEF Person
    <2> QED BY <2>1, <2>2
  <1>2. CASE Answer BY <1>2 DEF Nudge
  <1>3. CASE Say BY <1>3, PersonMoves DEF Person
  <1>4. CASE Reset BY <1>4 DEF Person
  <1>5. CASE \E stepped \in BOOLEAN : Begin(stepped) BY <1>5, PersonMoves DEF Person
  <1>6. CASE \E stepped \in BOOLEAN : GoOn(stepped) BY <1>6 DEF Nudge
  <1> QED BY <1>1, <1>2, <1>3, <1>4, <1>5, <1>6 DEF Person

LEMMA NextInv == IInv /\ [Next]_vars => IInv'
  <1> SUFFICES ASSUME IInv, [Next]_vars PROVE IInv'
    OBVIOUS
  <1>0. Shape /\ current \in Runs BY DEF IInv, Shape
  <1>1. CASE Person
    <2>1. ASSUME NEW kind, NEW x, kind \in Kinds, Moves(current, x, kind), Emit(current, kind)
          PROVE  IInv'
      BY <1>0, <2>1, EmitStep
    <2> QED BY <1>0, <1>1, <2>1, PersonDoes, NudgeStep, ResetStep
  <1>2. ASSUME NEW s \in Runs,
               Works(s) \/ Asks(s) \/ EndsTick(s) \/ Breaks(s) \/ Ends(s) \/ Writing(s)
        PROVE  IInv'
    <2>1. CASE Writing(s) BY <2>1, WritingStep
    <2>2. CASE Works(s) \/ Asks(s) \/ EndsTick(s) \/ Breaks(s) \/ Ends(s)
      <3>1. PICK kind, x : /\ kind \in Kinds /\ Moves(s, x, kind) /\ Emit(s, kind)
                           /\ sess[s].at \notin {"idle", "finished"}
        BY <1>0, <2>2, PlayingMoves
      <3> QED BY <3>1, EmitStep
    <2> QED BY <1>2, <2>1, <2>2
  <1>3. ASSUME NEW j \in jobs, Job(j) PROVE IInv'
    BY <1>3, ProgressStep, StoppedStep, StopFailsStep, PersistedStep DEF Job
  <1>4. CASE UNCHANGED vars
    <2>1. /\ UNCHANGED <<sess, count, opened, closed, current, view, recorder, rec, saved, rows,
                         events, stray, took>>
          /\ jobs' \subseteq jobs /\ recorder' \in {recorder, NoRun}
      BY <1>4 DEF vars, trace, page, storage
    <2>2. Shape' BY <2>1 DEF IInv, Shape
    <2>3. NoMidTick => Screen' /\ Keeping'
      BY <2>1, SessionsStay, ScreenSame, KeepingSame DEF IInv
    <2>4. AllSaved => Careful' BY <2>1, CarefulSame DEF IInv
    <2> QED BY <2>1, <2>2, <2>3, <2>4 DEF IInv, NoMidTick, AllSaved
  <1> QED BY <1>1, <1>2, <1>3, <1>4 DEF Next

(* The view shows one run and no event of another, for any number of runs, as *)
(* long as none is reset while a tick of it is in flight, be it one that a    *)
(* stop has left at a question (session.svelte.ts, absorb and reset).         *)
THEOREM OneRunInView == Spec => []ViewIsOneRun
  BY InitInv, NextInv, InvImplies, PTL DEF Spec

(* What is stored of a run are its own events from its run.started on, in     *)
(* order and up to its ending; a stored ending is one that came; and no       *)
(* record is of no run, when runs are reset once they are saved               *)
(* (trace-recorder.ts, onRunEvent of the page).                               *)
THEOREM StoredTracesAreTrue == Spec => []StorageIsTrue
  BY InitInv, NextInv, InvImplies, PTL DEF Spec

--------------------------------------------------------------------------------
(* What is filed of a run that has ended                                      *)

(* The safety in CarefulEndingsAreFiled: the ending of a run that was begun   *)
(* is never let drop.  It is filed with every event from its opening to it,   *)
(* or what files it is under way, for whoever resets only between saved runs, *)
(* unless a write failed (onRunEvent, finishRun and persistRun of the page).  *)
EndingsAreKept ==
  took = {} /\ ~failed =>
    \A r \in Runs : opened[r] # 0 /\ closed[r] # 0 =>
      Filed(r) \/ \E j \in jobs : j.for = r /\ j.at \in {"stopping", "persisting"}

Tidy == AllSaved /\ ~failed
Playing(r) == Begun(r) /\ closed[r] = 0
Over(r) == Begun(r) /\ closed[r] # 0

(* What files the ending of the current run is under way: it awaits the run's *)
(* recorder, or that has written all.                                         *)
Closing(r) ==
  /\ r = current
  /\ \E j \in jobs : /\ j.for = r
                     /\ \/ j.at = "stopping" /\ j.awaits = r
                        \/ j.at = "persisting" /\ rec[r].queue = <<>>

(* The recorder of a run that has not ended takes every event, and that of a  *)
(* run that has, has them all.                                                *)
FilingOf(r) ==
  /\ ~rec[r].broken
  /\ Playing(r) => recorder = r /\ ~rec[r].stopped
  /\ Over(r) => /\ rec[r].stopped
                /\ InOrderOf(rec[r], events[r], r, opened[r] - 1, closed[r])
                /\ Filed(r) \/ Closing(r)

Filing == Tidy => \A r \in Runs : FilingOf(r)

LEMMA FilingImplies == Filing => EndingsAreKept
  BY DEF Filing, Tidy, AllSaved, NoMidTick, EndingsAreKept, FilingOf, Over, Begun, Closing

LEMMA InitFiling == Init => Filing
  BY PlayAssumption DEF Init, Filing, FilingOf, Playing, Over, Begun, NewRecorder, Runs

(* A recorder that holds nothing back has written every event.                *)
LEMMA WrittenOut ==
  ASSUME NEW r \in Runs, NEW o \in Nat, NEW n \in Nat, NEW w, InOrder(<<>>, <<>>, w, r, o, n)
  PROVE  Len(w) = n - o
  <1> DEFINE q == <<>>
  <1>1. PICK c : Cut(q, q, w, r, o, n, c) BY DEF InOrder
  <1>2. Len(q) = 0 OBVIOUS
  <1> HIDE DEF q
  <1>3. 0 \in 0 .. Len(q) /\ c \in [0 .. Len(q) -> Nat] BY <1>1, <1>2 DEF Cut
  <1>4. c[0] \in Nat BY <1>3
  <1>5. o <= c[0] /\ c[0] <= n BY <1>1, <1>3 DEF Cut
  <1>6. w = Stretch(r, o, c[0]) BY <1>1 DEF Cut
  <1>7. q = Stretch(r, c[0], n) BY <1>1, <1>2 DEF Cut
  <1>8. Len(w) = c[0] - o BY <1>4, <1>5, <1>6, StretchIsSeq
  <1>9. Len(q) = n - c[0] BY <1>4, <1>5, <1>7, StretchIsSeq
  <1>10. c[0] = n BY <1>2, <1>4, <1>9
  <1> QED BY <1>8, <1>10

(* None has written more than there are.                                      *)
LEMMA NoMoreWritten ==
  ASSUME NEW r \in Runs, NEW o \in Nat, NEW n \in Nat, NEW x \in Recorder, NEW w,
         InOrderOf(x, w, r, o, n)
  PROVE  Len(w) <= n - o
  <1>1. InOrder(x.buffer, x.queue, w, r, o, n) /\ x.queue \in Seq(Seq(Ev))
    BY DEF InOrderOf, Recorder
  <1> DEFINE b == x.buffer
  <1> DEFINE q == x.queue
  <1> HIDE DEF b, q
  <1>2. InOrder(b, q, w, r, o, n) /\ q \in Seq(Seq(Ev)) BY <1>1 DEF b, q
  <1>3. PICK m \in 0 .. n - o : w = FirstEvents(r, o, m) BY <1>2, WrittenInOrder
  <1>4. Len(FirstEvents(r, o, m)) = m /\ m <= n - o BY DEF FirstEvents
  <1> QED BY <1>3, <1>4

(* An event leaves a recorder's chain as it is, broken or not.                *)
LEMMA AfterBroken ==
  ASSUME NEW x \in Recorder, NEW e \in Ev, NEW kind
  PROVE  After(x, e, kind).broken = x.broken
  <1>1. \A y \in Recorder : Flushed(y).broken = y.broken BY DEF Flushed, Recorder
  <1> DEFINE b == Append(x.buffer, e)
  <1> DEFINE held == [x EXCEPT !.buffer = b]
  <1> DEFINE got == Took(x, e, TurnEnds(kind))
  <1>2. b \in Seq(Ev) BY DEF Recorder
  <1>3. got = x \/ got = held \/ got = Flushed(held) BY DEF Took
  <1> HIDE DEF b, got
  <1>4. held \in Recorder /\ held.broken = x.broken BY <1>2 DEF Recorder
  <1> HIDE DEF held
  <1>5. got \in Recorder /\ got.broken = x.broken BY <1>1, <1>3, <1>4, FlushedKeeps
  <1>6. Flushed(got) \in Recorder /\ Flushed(got).broken = x.broken
    BY <1>1, <1>5, FlushedKeeps
  <1>7. [Flushed(got) EXCEPT !.stopped = TRUE].broken = x.broken BY <1>6 DEF Recorder
  <1> QED BY <1>5, <1>7 DEF After, got

(* What is to be stored of a run that has ended stays what it is.             *)
LEMMA ToldStays ==
  ASSUME NEW r \in Runs, Over(r), opened'[r] = opened[r], closed'[r] = closed[r]
  PROVE  Told(r)' = Told(r)
  BY DEF Over, Begun, Told, Latest

(* A step that leaves recorders, events and the view alone.                   *)
LEMMA FilingSame ==
  ASSUME Filing, Tidy, UNCHANGED <<count, opened, closed, rec, events>>,
         recorder' = recorder \/ \A r \in Runs : ~Playing(r),
         \A r \in Runs : rows[r] = "finished" => rows'[r] = "finished",
         \A r \in Runs : Over(r) /\ Closing(r) => Filed(r)' \/ Closing(r)'
  PROVE  Filing'
  <1>1. ASSUME NEW r \in Runs PROVE FilingOf(r)'
    <2>1. FilingOf(r) BY DEF Filing
    <2>2. (Playing(r)' <=> Playing(r)) /\ (Over(r)' <=> Over(r))
      BY DEF Playing, Over, Begun
    <2>3. Over(r) /\ Filed(r) => Filed(r)' BY ToldStays DEF Filed
    <2>4. Playing(r)' => recorder' = r /\ ~rec'[r].stopped
      BY <2>1, <2>2 DEF FilingOf
    <2>5. Over(r)' => /\ rec'[r].stopped
                      /\ InOrderOf(rec'[r], events'[r], r, opened'[r] - 1, closed'[r])
      BY <2>1, <2>2 DEF FilingOf
    <2>6. Over(r)' => Filed(r)' \/ Closing(r)' BY <2>1, <2>2, <2>3 DEF FilingOf
    <2>7. ~rec'[r].broken BY <2>1 DEF FilingOf
    <2> QED BY <2>4, <2>5, <2>6, <2>7 DEF FilingOf
  <1> QED BY <1>1 DEF Filing

LEMMA NudgeFiling ==
  ASSUME IInv, Filing, Tidy, Nudge \/ UNCHANGED vars
  PROVE  Filing'
  <1>1. UNCHANGED <<count, opened, closed, current, recorder, rec, jobs, rows, events>>
    <2>1. CASE Nudge BY <2>1, NudgeDoes DEF IInv
    <2>2. CASE UNCHANGED vars BY <2>2 DEF vars, trace, page, storage
    <2> QED BY <2>1, <2>2
  <1>2. \A r \in Runs : Closing(r) => Closing(r)' BY <1>1 DEF Closing
  <1> QED BY <1>1, <1>2, FilingSame

(* updateProgress() puts the view's run as ended if it has.                   *)
LEMMA ProgressFiling ==
  ASSUME IInv, Filing, Tidy, NEW j \in jobs, Progress(j)
  PROVE  Filing'
  <1>0. Shape /\ Screen /\ current \in Runs BY DEF IInv, Tidy, AllSaved, Shape
  <1>1. /\ UNCHANGED <<count, opened, closed, current, recorder, rec, events>>
        /\ jobs' = jobs \ {j} /\ j.at = "progress"
    BY DEF Progress, trace
  <1>2. \/ rows' = rows
        \/ view.run # NoRun /\ rows' = [rows EXCEPT ![view.run] = Status(view)]
    BY <1>0, PutDoes DEF Progress
  <1>3. ASSUME NEW r \in Runs, rows[r] = "finished" PROVE rows'[r] = "finished"
    <2>1. CASE r # view.run BY <1>0, <1>2, <1>3, <2>1 DEF Shape, Rows
    <2>2. CASE r = view.run
      <3>1. closed[r] # 0 BY <1>0, <1>3 DEF Screen
      <3>2. r = current BY <1>0, <2>2, PlayAssumption DEF Screen, Runs, NoRun
      <3>3. view.finished BY <1>0, <3>1, <3>2 DEF Screen
      <3>4. Status(view) = "finished" BY <3>3 DEF Status
      <3> QED BY <1>0, <1>2, <1>3, <2>2, <3>4 DEF Shape, Rows
    <2> QED BY <2>1, <2>2
  <1>4. ASSUME NEW r \in Runs, Closing(r) PROVE Closing(r)'
    <2>1. PICK k \in jobs : /\ k.for = r
                            /\ \/ k.at = "stopping" /\ k.awaits = r
                               \/ k.at = "persisting" /\ rec[r].queue = <<>>
      BY <1>4 DEF Closing
    <2>2. k \in jobs' BY <1>1, <2>1
    <2> QED BY <1>1, <1>4, <2>1, <2>2 DEF Closing
  <1> QED BY <1>1, <1>3, <1>4, FilingSame

(* finishRun() has the recorder's answer, and everything is written.          *)
LEMMA StoppedFiling ==
  ASSUME IInv, Filing, Tidy, NEW j \in jobs, Stopped(j)
  PROVE  Filing'
  <1>0. Shape /\ Screen /\ Careful /\ current \in Runs /\ j \in Jobs
    BY DEF IInv, Tidy, AllSaved, Shape
  <1> DEFINE k == [j EXCEPT !.at = "persisting"]
  <1>1. /\ UNCHANGED <<count, opened, closed, current, rec, rows, events>>
        /\ j.at = "stopping" /\ Landed(j.awaits)
    BY DEF Stopped, storage, trace
  <1>2. \/ /\ view.run # NoRun /\ view.finished
           /\ jobs' = (jobs \ {j}) \union {k}
        \/ ~(view.run # NoRun /\ view.finished) /\ jobs' = jobs \ {j}
    BY DEF Stopped
  <1>3. k.at = "persisting" /\ k.for = j.for BY <1>0 DEF Jobs
  <1> HIDE DEF k
  <1>4. ASSUME NEW r \in Runs PROVE ~Playing(r)
    <2>1. CASE r = current
      <3>1. CarefulJob(j) BY <1>0 DEF Careful
      <3>2. closed[r] # 0 \/ count[r] = 0 BY <1>1, <2>1, <3>1 DEF CarefulJob
      <3> QED BY <1>0, <3>2, Unheard DEF Playing
    <2>2. CASE r # current
      <3>1. r < current \/ r > current BY <1>0, <2>2 DEF Runs
      <3>2. Life(r) BY <1>0 DEF Screen
      <3> QED BY <1>0, <3>1, <3>2 DEF Screen, Life, Playing
    <2> QED BY <2>1, <2>2
  <1>5. ASSUME NEW r \in Runs, Over(r), Closing(r) PROVE Closing(r)'
    <2>1. PICK i \in jobs : /\ i.for = r
                            /\ \/ i.at = "stopping" /\ i.awaits = r
                               \/ i.at = "persisting" /\ rec[r].queue = <<>>
      BY <1>5 DEF Closing
    <2>2. r = current BY <1>5 DEF Closing
    <2>3. CASE i # j
      <3>1. i \in jobs' BY <1>2, <2>1, <2>3
      <3> QED BY <1>1, <2>1, <2>2, <3>1 DEF Closing
    <2>4. CASE i = j
      <3>1. j.for = r /\ j.awaits = r BY <1>1, <2>1, <2>4
      <3>2. rec[r].queue = <<>>
        BY <1>1, <3>1, PlayAssumption DEF Landed, Runs, NoRun
      <3>3. view.finished BY <1>0, <1>5, <2>2 DEF Screen, Over
      <3>4. count[r] # 0 BY <1>0, <1>5, Unheard DEF Over
      <3>5. view.run # NoRun BY <1>0, <2>2, <3>4 DEF Screen
      <3>6. k \in jobs' BY <1>2, <3>3, <3>5
      <3> QED BY <1>1, <1>3, <2>2, <3>1, <3>2, <3>6 DEF Closing
    <2> QED BY <2>3, <2>4
  <1> QED BY <1>1, <1>4, <1>5, FilingSame

(* No chain is broken, so no recorder's stop() is rejected.                   *)
LEMMA StopFailsFiling ==
  ASSUME Shape, Filing, Tidy, NEW j \in jobs, StopFails(j)
  PROVE  FALSE
  <1>1. j.awaits \in Runs \union {NoRun} /\ Broken(j.awaits)
    BY DEF StopFails, Shape, Jobs
  <1>2. j.awaits \in Runs /\ rec[j.awaits].broken BY <1>1 DEF Broken
  <1> QED BY <1>2 DEF Filing, FilingOf

(* persistRun() files the run, all of whose events are written.               *)
LEMMA PersistedFiling ==
  ASSUME IInv, Filing, Tidy, NEW j \in jobs, Persisted(j), ~failed'
  PROVE  Filing'
  <1>0. Shape /\ Screen /\ Keeping /\ Careful /\ current \in Runs
    BY DEF IInv, Tidy, AllSaved, Shape
  <1>1. /\ UNCHANGED <<count, opened, closed, current, recorder, rec, events>>
        /\ jobs' = jobs \ {j} /\ j.at = "persisting" /\ Put(view)
    BY DEF Persisted, trace, PutFails
  <1>2. j.for = current /\ closed[current] # 0
    <2>1. CarefulJob(j) BY <1>0 DEF Careful
    <2> QED BY <1>1, <2>1 DEF CarefulJob
  <1>3. view.finished BY <1>0, <1>2 DEF Screen
  <1>4. view.run = current /\ view.run # NoRun BY <1>0, <1>2, Unheard DEF Screen
  <1>5. rows' = [rows EXCEPT ![current] = "finished"]
    BY <1>1, <1>3, <1>4 DEF Put, Status
  <1>6. \A r \in Runs : rows[r] = "finished" => rows'[r] = "finished"
    BY <1>0, <1>5 DEF Shape, Rows
  <1>7. ASSUME NEW r \in Runs, Over(r), Closing(r) PROVE Filed(r)' \/ Closing(r)'
    <2>1. PICK i \in jobs : /\ i.for = r
                            /\ \/ i.at = "stopping" /\ i.awaits = r
                               \/ i.at = "persisting" /\ rec[r].queue = <<>>
      BY <1>7 DEF Closing
    <2>2. r = current BY <1>7 DEF Closing
    <2>3. CASE i # j
      <3>1. i \in jobs' BY <1>1, <2>1, <2>3
      <3> QED BY <1>1, <1>7, <2>1, <3>1 DEF Closing
    <2>4. CASE i = j
      <3> DEFINE w == events[r]
      <3> DEFINE n == closed[r]
      <3> DEFINE o == opened[r] - 1
      <3>1. rec[r].queue = <<>> BY <1>1, <2>1, <2>4
      <3>2. rec[r].stopped /\ InOrderOf(rec[r], w, r, o, n) BY <1>7 DEF Filing, FilingOf
      <3>3. rec[r].buffer = <<>> BY <1>0, <3>2 DEF Keeping, KeepingOf
      <3>4. InOrder(<<>>, <<>>, w, r, o, n) BY <3>1, <3>2, <3>3 DEF InOrderOf
      <3>5. n \in Nat /\ o \in Nat /\ n - o = Told(r)
        BY <1>0, <1>7 DEF Shape, Over, Begun, Told, Latest
      <3> HIDE DEF w, n, o
      <3>6. Len(w) = n - o BY <3>4, <3>5, WrittenOut
      <3>7. Len(events'[r]) = Told(r) BY <1>1, <3>5, <3>6 DEF w
      <3>8. Told(r)' = Told(r) BY <1>1, <1>7, ToldStays
      <3>9. rows'[r] = "finished" BY <1>0, <1>5, <2>2 DEF Shape, Rows
      <3> QED BY <3>7, <3>8, <3>9 DEF Filed
    <2> QED BY <2>3, <2>4
  <1> QED BY <1>1, <1>6, <1>7, FilingSame

(* A batch is written: it was held back, and no event is written twice.       *)
LEMMA WriteFiling ==
  ASSUME IInv, Filing, Tidy, NEW r \in Runs, Write(r)
  PROVE  Filing'
  <1>0. /\ Shape /\ rec[r] \in Recorder /\ events[r] \in Seq(Ev)
        /\ opened[r] \in Nat /\ closed[r] \in Nat
    BY DEF IInv, Shape
  <1>1. UNCHANGED <<count, opened, closed, current, recorder, jobs, rows>> BY DEF Write, trace
  <1>2. PICK x \in Recorder, w \in Seq(Ev) :
          /\ rec' = [rec EXCEPT ![r] = x] /\ events' = [events EXCEPT ![r] = w]
          /\ x.stopped = rec[r].stopped /\ x.buffer = rec[r].buffer /\ x.broken = rec[r].broken
          /\ rec[r].queue # <<>> /\ Len(events[r]) <= Len(w)
          /\ \A o, n \in Nat : InOrderOf(rec[r], events[r], r, o, n) => InOrderOf(x, w, r, o, n)
    <2>1. rec \in [Runs -> Recorder] BY <1>0 DEF Shape
    <2> QED BY <1>0, <2>1, BatchWritten
  <1>3. /\ rec'[r] = x /\ events'[r] = w
        /\ \A q \in Runs : q # r => rec'[q] = rec[q] /\ events'[q] = events[q]
    BY <1>0, <1>2 DEF Shape
  <1>4. ASSUME NEW q \in Runs PROVE FilingOf(q)'
    <2>1. FilingOf(q) BY DEF Filing
    <2>2. (Playing(q)' <=> Playing(q)) /\ (Over(q)' <=> Over(q))
      BY <1>1 DEF Playing, Over, Begun
    <2>3. CASE q # r
      <3>1. Over(q) /\ Filed(q) => Filed(q)' BY <1>1, <1>3, <2>3, ToldStays DEF Filed
      <3>2. Closing(q) => Closing(q)' BY <1>1, <1>3, <2>3 DEF Closing
      <3> QED BY <1>1, <1>3, <2>1, <2>2, <2>3, <3>1, <3>2 DEF FilingOf
    <2>4. CASE q = r
      <3>1. ~rec'[r].broken /\ rec'[r].stopped = rec[r].stopped
        BY <1>2, <1>3, <2>1, <2>4 DEF FilingOf
      <3> DEFINE o == opened[r] - 1
      <3>2. Over(r) => o \in Nat BY <1>0 DEF Over, Begun
      <3>3. Over(r) => InOrderOf(rec[r], events[r], r, o, closed[r])
        BY <2>1, <2>4 DEF FilingOf
      <3> HIDE DEF o
      <3>4. Over(r) => InOrderOf(x, w, r, o, closed[r]) BY <1>0, <1>2, <3>2, <3>3
      <3>5. ASSUME Over(r), Filed(r) PROVE Filed(r)'
        <4>1. Len(w) <= closed[r] - o BY <1>0, <3>2, <3>4, <3>5, NoMoreWritten
        <4>2. closed[r] - o = Told(r) BY <1>0, <3>5 DEF Over, Begun, Told, Latest, o
        <4>3. Len(w) \in Nat /\ Len(events[r]) \in Nat BY <1>0
        <4>4. Len(events[r]) = Told(r) BY <3>5 DEF Filed
        <4>5. Len(w) = Told(r) BY <1>2, <4>1, <4>2, <4>3, <4>4
        <4>6. Told(r)' = Told(r) BY <1>1, <3>5, ToldStays
        <4> QED BY <1>1, <1>3, <3>5, <4>5, <4>6 DEF Filed
      <3>6. ASSUME Closing(r) PROVE Closing(r)'
        <4>1. PICK j \in jobs : j.for = r /\ j.at = "stopping" /\ j.awaits = r
          BY <1>2, <3>6 DEF Closing
        <4> QED BY <1>1, <3>6, <4>1 DEF Closing
      <3>7. Over(r)' => /\ rec'[r].stopped
                        /\ InOrderOf(rec'[r], events'[r], r, opened'[r] - 1, closed'[r])
        <4>1. opened'[r] - 1 = o /\ closed'[r] = closed[r] BY <1>1 DEF o
        <4> QED BY <1>3, <2>1, <2>2, <2>4, <3>1, <3>4, <4>1 DEF FilingOf
      <3>8. Over(r)' => Filed(r)' \/ Closing(r)'
        BY <2>1, <2>2, <2>4, <3>5, <3>6 DEF FilingOf
      <3>9. Playing(r)' => recorder' = r /\ ~rec'[r].stopped
        BY <1>1, <2>1, <2>2, <2>4, <3>1 DEF FilingOf
      <3> QED BY <2>4, <3>1, <3>7, <3>8, <3>9 DEF FilingOf
    <2> QED BY <2>3, <2>4
  <1> QED BY <1>4 DEF Filing

(* A reset that takes no liberty finds every run that was begun over, and     *)
(* filed.                                                                     *)
LEMMA ResetFiling ==
  ASSUME IInv, Filing, Tidy, Quiet, Reset, Tidy'
  PROVE  Filing'
  <1>0. Shape /\ Screen /\ Keeping /\ Careful
    BY DEF IInv, Tidy, AllSaved
  <1>1. PICK s \in Runs : s = current BY <1>0 DEF Shape
  <1>2. "reset-mid-tick" \notin took' BY DEF Tidy, AllSaved, NoMidTick
  <1> DEFINE v == Absorbed(s, "run.finished")
  <1>3. /\ events' = events
        /\ sess[s].at = "idle" \/ ~Unsaved
        /\ \/ OnEvent(s, "run.finished", v)
           \/ UNCHANGED <<count, opened, closed, recorder, rec, rows>>
    BY <1>0, <1>1, <1>2, ResetDoes DEF Tidy, AllSaved
  <1>4. v \in View /\ v.run \in Runs BY <1>0, AbsorbedShape DEF Kinds
  <1> HIDE DEF v
  <1>5. jobs = {} /\ recorder = NoRun
    BY <1>0, <1>1, <1>3, NothingUnderWay
  <1>6. /\ rec' = rec /\ rows' = rows
        /\ \A r \in Runs : opened'[r] = opened[r] /\ (closed[r] # 0 => closed'[r] = closed[r])
    <2>1. CASE OnEvent(s, "run.finished", v)
      <3>1. rows' = rows /\ recorder' = recorder BY <1>0, <1>4, <2>1, OnEventDoes DEF Kinds
      <3>2. rec' = rec BY <1>0, <1>4, <1>5, <2>1, <3>1, OnEventDoes DEF Kinds
      <3>3. /\ \A q \in Runs : q # s => /\ opened'[q] = opened[q]
                                        /\ closed'[q] = closed[q]
            /\ opened'[s] = opened[s]
            /\ closed'[s] = IF closed[s] = 0 THEN count[s] + 1 ELSE closed[s]
        BY <1>0, <1>4, <2>1, OnEventOthers DEF Kinds
      <3> QED BY <3>1, <3>2, <3>3
    <2>2. CASE UNCHANGED <<count, opened, closed, recorder, rec, rows>> BY <2>2
    <2> QED BY <1>3, <2>1, <2>2
  <1>7. ASSUME NEW r \in Runs PROVE FilingOf(r)'
    <2>1. FilingOf(r) BY DEF Filing
    <2>2. ~Playing(r) BY <1>5, <2>1, PlayAssumption DEF FilingOf, Runs, NoRun
    <2>3. ~Closing(r) BY <1>5 DEF Closing
    <2>4. Begun(r)' <=> Begun(r) BY <1>6 DEF Begun
    <2>5. Begun(r) => Over(r) BY <2>2 DEF Playing, Over
    <2>6. ~rec'[r].broken BY <1>6, <2>1 DEF FilingOf
    <2>7. CASE ~Begun(r) BY <2>4, <2>6, <2>7 DEF FilingOf, Playing, Over
    <2>8. CASE Over(r)
      <3>1. opened'[r] = opened[r] /\ closed'[r] = closed[r] BY <1>6, <2>8 DEF Over
      <3>2. Filed(r) BY <2>1, <2>3, <2>8 DEF FilingOf
      <3>3. Filed(r)' BY <1>3, <1>6, <2>8, <3>1, <3>2, ToldStays DEF Filed
      <3>4. ~Playing(r)' BY <2>8, <3>1 DEF Over, Playing
      <3>5. /\ rec'[r].stopped
            /\ InOrderOf(rec'[r], events'[r], r, opened'[r] - 1, closed'[r])
        BY <1>3, <1>6, <2>1, <2>8, <3>1 DEF FilingOf
      <3> QED BY <2>6, <3>3, <3>4, <3>5 DEF FilingOf
    <2> QED BY <2>5, <2>7, <2>8
  <1> QED BY <1>7 DEF Filing

(* One event: that of a run under way is taken by its recorder, and the last  *)
(* one closes it and has its chain awaited.                                   *)
LEMMA EmitFiling ==
  ASSUME IInv, Filing, Tidy, NEW s \in Runs, NEW kind \in Kinds, NEW x, Moves(s, x, kind),
         Emit(s, kind), s = current \/ sess[s].at \notin {"idle", "finished"}
  PROVE  Filing'
  <1>0. Shape /\ Screen /\ Keeping /\ Careful
    BY DEF IInv, Tidy, AllSaved, Shape
  <1>1. s = current BY <1>0, TheScreens
  <1>2. events' = events /\ current' = s BY <1>1 DEF Emit
  <1> DEFINE v == Absorbed(s, kind)
  <1>3. v \in View /\ v.run \in Runs /\ OnEvent(s, kind, v)
    BY <1>0, AbsorbedShape DEF Emit
  <1>4. v.run = s BY <1>0, <1>1 DEF Absorbed, Screen
  <1> HIDE DEF v
  <1>5. /\ \A q \in Runs : q # s => opened'[q] = opened[q] /\ closed'[q] = closed[q]
        /\ opened'[s] = IF kind = "run.started" THEN count[s] + 1 ELSE opened[s]
        /\ closed'[s] = IF kind = "run.finished" /\ closed[s] = 0 THEN count[s] + 1
                        ELSE closed[s]
    BY <1>0, <1>3, OnEventOthers
  <1>6. jobs \subseteq jobs' BY <1>0, <1>3, OnEventDoes
  <1>7. kind = "run.finished" => [at |-> "stopping", for |-> s, awaits |-> recorder'] \in jobs'
    BY <1>3 DEF OnEvent
  <1>8. /\ FilingOf(s) /\ Life(s) /\ count[s] \in Nat /\ closed[s] \in Nat
        /\ rec[s] \in Recorder /\ events[s] \in Seq(Ev)
    BY <1>0 DEF Filing, Shape, Screen
  <1>9. /\ \A q \in Runs : q # s => rows'[q] = rows[q]
        /\ kind # "run.started" => rows' = rows
    <2>1. \/ kind = "run.started" /\ rows' = [rows EXCEPT ![v.run] = Status(v)]
          \/ rows' = rows
      BY <1>0, <1>3, OnEventDoes
    <2>2. kind # "run.started" => rows' = rows BY <1>0, <1>3, OnEventDoes
    <2> QED BY <1>0, <1>4, <2>1, <2>2 DEF Shape, Rows
  <1>10. \A q \in Runs : q # s => rec'[q] = rec[q]
    <2>1. \/ recorder' = s /\ rec' = [rec EXCEPT ![s] = After(rec[s], <<s, count[s] + 1>>, kind)]
          \/ rec' = rec
      BY <1>0, <1>1, <1>3, OnEventRecorder DEF Moves
    <2> QED BY <1>0, <2>1 DEF Shape
  <1>11. ASSUME NEW r \in Runs, r # s PROVE FilingOf(r)'
    <2>1. FilingOf(r) BY DEF Filing
    <2>2. ~Closing(r) BY <1>1, <1>11 DEF Closing
    <2>3. ~Playing(r)
      <3>1. r < s \/ r > s BY <1>11 DEF Runs
      <3>2. Life(r) BY <1>0 DEF Screen
      <3> QED BY <1>0, <1>1, <3>1, <3>2 DEF Screen, Life, Playing
    <2>4. ~Playing(r)' BY <1>5, <1>11, <2>3 DEF Playing, Begun
    <2>5. Over(r)' => Over(r) BY <1>5, <1>11 DEF Over, Begun
    <2>6. Over(r) => Filed(r)
      BY <2>1, <2>2 DEF FilingOf
    <2>7. Over(r) => Filed(r)' BY <1>2, <1>5, <1>9, <1>11, <2>6, ToldStays DEF Filed
    <2>8. Over(r)' => /\ rec'[r].stopped
                      /\ InOrderOf(rec'[r], events'[r], r, opened'[r] - 1, closed'[r])
      BY <1>2, <1>5, <1>10, <1>11, <2>1, <2>5 DEF FilingOf
    <2>9. ~rec'[r].broken BY <1>10, <1>11, <2>1 DEF FilingOf
    <2> QED BY <2>4, <2>5, <2>7, <2>8, <2>9 DEF FilingOf
  <1>12. ASSUME /\ recorder' = s /\ ~rec[s].stopped /\ closed[s] = 0
                /\ kind = "run.started" \/ (Begun(s) /\ recorder = s)
                /\ rec' = [rec EXCEPT ![s] = After(rec[s], <<s, count[s] + 1>>, kind)]
                /\ opened'[s] - 1 \in Nat /\ opened'[s] - 1 <= count[s]
                /\ InOrderOf(rec[s], events[s], s, opened'[s] - 1, count[s])
         PROVE  FilingOf(s)'
    <2> DEFINE y == After(rec[s], <<s, count[s] + 1>>, kind)
    <2> DEFINE o == opened'[s] - 1
    <2>1. o \in Nat /\ InOrderOf(rec[s], events[s], s, o, count[s]) BY <1>12
    <2>2. y.broken = rec[s].broken
      <3>1. <<s, count[s] + 1>> \in Ev BY <1>8 DEF Ev
      <3> QED BY <1>8, <3>1, AfterBroken
    <2> HIDE DEF o
    <2>3. /\ y.stopped <=> kind = "run.finished"
          /\ InOrderOf(y, events[s], s, o, count[s] + 1)
      BY <1>8, <1>12, <2>1, AfterOneMore
    <2>4. rec'[s] = y BY <1>0, <1>12 DEF Shape
    <2> HIDE DEF y
    <2>5. ~rec'[s].broken BY <1>8, <2>2, <2>4 DEF FilingOf
    <2>6. Playing(s)' => recorder' = s /\ ~rec'[s].stopped
      <3>1. closed'[s] = 0 => kind # "run.finished" BY <1>5, <1>8, <1>12
      <3> QED BY <1>12, <2>3, <2>4, <3>1 DEF Playing
    <2>7. ASSUME Over(s)'
          PROVE  /\ rec'[s].stopped
                 /\ InOrderOf(rec'[s], events'[s], s, opened'[s] - 1, closed'[s])
                 /\ Closing(s)'
      <3>1. kind = "run.finished" /\ closed'[s] = count[s] + 1
        BY <1>5, <1>12, <2>7 DEF Over
      <3>2. rec'[s].stopped BY <2>3, <2>4, <3>1
      <3>3. InOrderOf(rec'[s], events'[s], s, opened'[s] - 1, closed'[s])
        BY <1>2, <2>3, <2>4, <3>1 DEF o
      <3>4. [at |-> "stopping", for |-> s, awaits |-> s] \in jobs' BY <1>7, <1>12, <3>1
      <3> QED BY <1>2, <3>2, <3>3, <3>4 DEF Closing
    <2> QED BY <2>5, <2>6, <2>7 DEF FilingOf
  <1>13. ASSUME /\ kind # "run.started" /\ rec' = rec /\ recorder' = recorder
                /\ recorder \in Runs => rec[recorder].stopped
         PROVE  FilingOf(s)'
    <2>1. ~Playing(s) BY <1>8, <1>13 DEF FilingOf
    <2>2. opened'[s] = opened[s] BY <1>5, <1>13
    <2>3. ~rec'[s].broken BY <1>8, <1>13 DEF FilingOf
    <2>4. CASE ~Begun(s) BY <2>2, <2>3, <2>4 DEF FilingOf, Playing, Over, Begun
    <2>5. CASE Over(s)
      <3>1. closed'[s] = closed[s] BY <1>5, <2>5 DEF Over
      <3>2. ~Playing(s)' BY <2>5, <3>1 DEF Over, Playing
      <3>3. Filed(s) => Filed(s)' BY <1>2, <1>9, <1>13, <2>2, <2>5, <3>1, ToldStays DEF Filed
      <3>4. Closing(s) => Closing(s)' BY <1>1, <1>2, <1>6, <1>13 DEF Closing
      <3>5. /\ rec'[s].stopped
            /\ InOrderOf(rec'[s], events'[s], s, opened'[s] - 1, closed'[s])
        BY <1>2, <1>8, <1>13, <2>2, <2>5, <3>1 DEF FilingOf
      <3>6. Filed(s)' \/ Closing(s)' BY <1>8, <2>5, <3>3, <3>4 DEF FilingOf
      <3> QED BY <2>3, <3>2, <3>5, <3>6 DEF FilingOf
    <2> QED BY <2>1, <2>4, <2>5 DEF Playing, Over
  <1>14. FilingOf(s)'
    <2>1. kind = "run.started" => sess[s].at = "idle" BY DEF Moves
    <2>2. v \in View /\ v.run \in Runs /\ OnEvent(s, kind, v) BY <1>3
    <2> QED BY <1>0, <1>1, <1>12, <1>13, <2>1, <2>2, OnEventRecorder
  <1> QED BY <1>11, <1>14 DEF Filing

LEMMA TakenStays == [Next]_vars => took \subseteq took' /\ (failed => failed')
  <1> SUFFICES ASSUME [Next]_vars PROVE took \subseteq took' /\ (failed => failed')
    OBVIOUS
  <1>2. ASSUME NEW s, NEW kind, Emit(s, kind) PROVE took' = took /\ (failed => failed')
    BY <1>2 DEF Emit, OnEvent, PutFails
  <1>3. CASE Person
    <2>1. CASE Stop \/ Declare \/ Say \/ Answer
               \/ \E stepped \in BOOLEAN : Begin(stepped) \/ GoOn(stepped)
      BY <2>1 DEF Stop, Declare, Say, Answer, Begin, GoOn, Concludes, Emit, OnEvent, PutFails,
                  storage
    <2>2. CASE Reset BY <2>2 DEF Reset, OnEvent, PutFails
    <2> QED BY <1>3, <2>1, <2>2 DEF Person
  <1>4. ASSUME NEW s \in Runs,
               Works(s) \/ Asks(s) \/ EndsTick(s) \/ Breaks(s) \/ Ends(s) \/ Writing(s)
        PROVE  took' = took /\ (failed => failed')
    <2>1. CASE Works(s) \/ Asks(s) \/ EndsTick(s) \/ Breaks(s) \/ Ends(s)
      BY <1>2, <2>1 DEF Works, Asks, EndsTick, Breaks, Ends
    <2>2. CASE Write(s) BY <2>2 DEF Write
    <2>3. CASE WriteFails(s) BY <2>3 DEF WriteFails
    <2> QED BY <1>4, <2>1, <2>2, <2>3 DEF Writing
  <1>5. ASSUME NEW j \in jobs, Job(j) PROVE took' = took /\ (failed => failed')
    BY <1>5 DEF Job, Progress, Stopped, StopFails, Persisted, PutFails, storage
  <1>6. CASE UNCHANGED vars BY <1>6 DEF vars, storage
  <1> QED BY <1>3, <1>4, <1>5, <1>6 DEF Next

LEMMA NextFiling == IInv /\ Filing /\ [Next]_vars => Filing'
  <1> SUFFICES ASSUME IInv, Filing, [Next]_vars, Tidy' PROVE Filing'
    BY DEF Filing
  <1>0. Shape /\ current \in Runs BY DEF IInv, Shape
  <1>1. Tidy /\ ~failed'
    <2>1. took \subseteq took' /\ (failed => failed') BY TakenStays
    <2> QED BY <2>1 DEF Tidy, AllSaved, NoMidTick
  <1>2. CASE Person
    <2>1. ASSUME NEW kind, NEW x, kind \in Kinds, Moves(current, x, kind), Emit(current, kind)
          PROVE  Filing'
      BY <1>0, <1>1, <2>1, EmitFiling
    <2> QED BY <1>0, <1>1, <1>2, <2>1, PersonDoes, NudgeFiling, ResetFiling
  <1>3. ASSUME NEW s \in Runs, Works(s) \/ Asks(s) \/ EndsTick(s) \/ Breaks(s) \/ Ends(s)
        PROVE  Filing'
    <2>1. PICK kind, x : /\ kind \in Kinds /\ Moves(s, x, kind) /\ Emit(s, kind)
                         /\ sess[s].at \notin {"idle", "finished"}
      BY <1>0, <1>3, PlayingMoves
    <2> QED BY <1>1, <2>1, EmitFiling
  <1>4. ASSUME NEW s \in Runs, Writing(s) PROVE Filing'
    <2>1. ~WriteFails(s) BY <1>1 DEF WriteFails
    <2> QED BY <1>1, <1>4, <2>1, WriteFiling DEF Writing
  <1>5. ASSUME NEW j \in jobs, Job(j) PROVE Filing'
    BY <1>0, <1>1, <1>5, ProgressFiling, StoppedFiling, StopFailsFiling, PersistedFiling DEF Job
  <1>6. CASE UNCHANGED vars BY <1>1, <1>6, NudgeFiling
  <1> QED BY <1>2, <1>3, <1>4, <1>5, <1>6 DEF Next

(* For any number of runs and events: the ending of a run that was begun is   *)
(* filed with every event from its opening to it, or what files it is under   *)
(* way, for whoever resets between saved runs, unless a write failed          *)
(* (onRunEvent, finishRun and persistRun of the page).                        *)
THEOREM NoEndingIsDropped == Spec => []EndingsAreKept
  <1>1. Init => IInv /\ Filing BY InitInv, InitFiling
  <1>2. IInv /\ Filing /\ [Next]_vars => IInv' /\ Filing' BY NextInv, NextFiling
  <1> QED BY <1>1, <1>2, FilingImplies, PTL DEF Spec
=============================================================================

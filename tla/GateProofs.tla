------------------------------ MODULE GateProofs ------------------------------
(* What the Gate keeps for any number of requests, turns and calls: a paused  *)
(* call waits for a person, a closed conversation gives nothing away, nothing *)
(* is written after the end, and the upstream is sent no result that was not  *)
(* screened.  The first rests on turns being counted in one step, so that no  *)
(* two requests judge the calls of one turn; the last on post-act looking for *)
(* all the client has been given and not sent yet.                            *)
EXTENDS Gate, FiniteSetTheorems, TLAPS

CallsOf(t) == {t} \X Nat
Busy(r) == req[r].pc \in {"preThink", "upstream", "preAct"}
TurnBusy(t) == \E r \in Requests : Busy(r) /\ req[r].tick = t

(* The shape of a request and of the conversation.  What messages and lists   *)
(* of calls hold is not looked at: they are members of some set.              *)
RequestShape(T) ==
  [pc : {"idle", "postAct", "preThink", "upstream", "preAct"}, ends : BOOLEAN,
   tools : T, unscreened : T, todo : T, tick : Nat, kept : SUBSET (Nat \X Nat),
   held : Nat \X Nat, stopped : BOOLEAN]

Conversation(T) ==
  [tick : Nat, pending : [tick : Nat, calls : SUBSET (Nat \X Nat)], seen : T,
   closed : BOOLEAN, finished : BOOLEAN]

Approval ==
  [status : {"none", "pending", "approved", "denied", "kept", "refused"},
   call : Nat \X Nat, kept : SUBSET (Nat \X Nat), refused : SUBSET (Nat \X Nat)]

Shape ==
  /\ \E T : req \in [Requests -> RequestShape(T)]
  /\ \E T : conv \in Conversation(T)
  /\ ap \in [Turns -> Approval]
  /\ late \in BOOLEAN /\ given \subseteq Nat \X Nat /\ pausing \subseteq Nat \X Nat

(* A request that is judging calls judges those of its turn, and has judged   *)
(* none before its upstream has answered.                                     *)
Judging ==
  \A r \in Requests :
    /\ Busy(r) => /\ req[r].tick \in 1 .. conv.tick
                  /\ req[r].kept \subseteq CallsOf(req[r].tick)
                  /\ req[r].held \in CallsOf(req[r].tick) \union {NoCall}
    /\ req[r].pc = "preAct" => req[r].todo \in Seq(CallsOf(req[r].tick)) \ {<<>>}
    /\ req[r].pc \in {"postAct", "preThink", "upstream"}
         => req[r].kept = {} /\ req[r].held = NoCall

OneTurnEach ==
  \A r, s \in Requests : Busy(r) /\ Busy(s) /\ req[r].tick = req[s].tick => r = s

(* A call is given, and an answer held, only when its turn is over.           *)
GivenAfterwards == \A c \in given : c[1] \in 1 .. conv.tick /\ ~TurnBusy(c[1])

HeldAfterwards ==
  \A t \in Turns : ap[t].status # "none" =>
    /\ t \in 1 .. conv.tick /\ ~TurnBusy(t)
    /\ ap[t].call \in CallsOf(t) /\ ap[t].kept \subseteq CallsOf(t)
    /\ ap[t].refused \subseteq ap[t].kept \ {ap[t].call}
    /\ ap[t].status # "kept" => ap[t].call \notin given

(* A call that paused is being judged, or is held, or was dropped.            *)
Paused(c) ==
  \/ \E r \in Requests : req[r].pc = "preAct" /\ req[r].tick = c[1] /\ req[r].held = c
  \/ c[1] \in Turns /\ ap[c[1]].status # "none" /\ ap[c[1]].call = c
  \/ /\ c \notin given /\ ~TurnBusy(c[1]) /\ c[1] \in 1 .. conv.tick
     /\ c[1] \in Turns => ap[c[1]].status = "none"

PausesAreKept == "pauses-in-one-answer" \notin took => \A c \in pausing : Paused(c)

IInv == Shape /\ Judging /\ OneTurnEach /\ GivenAfterwards /\ HeldAfterwards /\ PausesAreKept

LEMMA InvImpliesPersonSaidYes == IInv => PersonSaidYes
  <1> SUFFICES ASSUME IInv, "pauses-in-one-answer" \notin took,
                      NEW c \in given \intersect pausing
               PROVE  Approved(c)
    BY DEF PersonSaidYes, EveryPauseIsAsked
  <1>1. Paused(c) /\ ~TurnBusy(c[1]) BY DEF IInv, PausesAreKept, GivenAfterwards
  <1>2. c[1] \in Turns /\ ap[c[1]].status # "none" /\ ap[c[1]].call = c
    BY <1>1 DEF Paused, TurnBusy, Busy
  <1>3. ap[c[1]].status = "kept" BY <1>2 DEF IInv, HeldAfterwards
  <1> QED BY <1>2, <1>3 DEF Approved

LEMMA ShapeOfIdle ==
  ASSUME NEW T, <<>> \in T, {} \in T
  PROVE  Idle \in RequestShape(T) /\ Idle.pc = "idle" /\ Idle.kept = {} /\ Idle.held = NoCall
  <1>1. <<0, 0>> \in Nat \X Nat OBVIOUS
  <1> QED BY <1>1 DEF Idle, RequestShape, NoCall

(* One request is replaced and the others are left.                           *)
LEMMA Replaced ==
  ASSUME NEW T, req \in [Requests -> RequestShape(T)], NEW r \in Requests, NEW U, NEW x \in RequestShape(U),
         req' = [req EXCEPT ![r] = x]
  PROVE  /\ \E V : req' \in [Requests -> RequestShape(V)]
         /\ req'[r] = x /\ \A s \in Requests \ {r} : req'[s] = req[s]
  <1> DEFINE V == T \union U
  <1>1. RequestShape(T) \subseteq RequestShape(V) /\ RequestShape(U) \subseteq RequestShape(V)
    BY DEF RequestShape
  <1>2. req' \in [Requests -> RequestShape(V)] BY <1>1
  <1> QED BY <1>2

LEMMA InitInv == Init => IInv
  <1> SUFFICES ASSUME Init PROVE IInv
    OBVIOUS
  <1>1. <<0, 0>> \in Nat \X Nat OBVIOUS
  <1>2. Idle \in RequestShape({<<>>, {}}) /\ Idle.pc = "idle" BY ShapeOfIdle
  <1>3. req \in [Requests -> RequestShape({<<>>, {}})] /\ \A r \in Requests : req[r].pc = "idle"
    BY <1>2 DEF Init
  <1>4. conv \in Conversation({0}) BY DEF Init, Conversation, NoPending
  <1>5. NoApproval \in Approval /\ NoApproval.status = "none"
    BY <1>1 DEF NoApproval, Approval, NoCall
  <1>6. ap \in [Turns -> Approval] /\ \A t \in Turns : ap[t].status = "none"
    BY <1>5 DEF Init
  <1>7. Shape
    <2>1. \E T : req \in [Requests -> RequestShape(T)] BY <1>3
    <2>2. \E T : conv \in Conversation(T) BY <1>4
    <2> QED BY <1>6, <2>1, <2>2 DEF Init, Shape
  <1> QED BY <1>3, <1>6, <1>7
          DEF Init, IInv, Judging, OneTurnEach, GivenAfterwards, HeldAfterwards, PausesAreKept,
              Busy

--------------------------------------------------------------------------------
(* A request that judges no calls goes on without judging any, or any is      *)
(* over, the calls it had judged going to nobody.                             *)
LEMMA CalmStep ==
  ASSUME IInv, NEW r \in Requests, NEW U, NEW x \in RequestShape(U),
         req[r].pc = "preAct" => x.pc = "idle",
         req' = [req EXCEPT ![r] = x], x.pc # "preAct",
         x.pc # "idle" => x.kept = {} /\ x.held = NoCall,
         x.pc \in {"preThink", "upstream"} => Busy(r) /\ x.tick = req[r].tick,
         \E T : conv' \in Conversation(T), conv'.tick = conv.tick,
         ap' = ap, given' = given, pausing' = pausing, took \subseteq took', late' \in BOOLEAN
  PROVE  IInv'
  <1>0. Shape /\ Judging /\ OneTurnEach /\ GivenAfterwards /\ HeldAfterwards /\ PausesAreKept
    BY DEF IInv
  <1>1. /\ \E V : req' \in [Requests -> RequestShape(V)]
        /\ req'[r] = x /\ \A s \in Requests \ {r} : req'[s] = req[s]
    BY <1>0, Replaced DEF Shape
  <1>2. Shape' BY <1>0, <1>1 DEF Shape
  <1>3. \A s \in Requests : req'[s].pc \in {"preThink", "upstream", "preAct"}
                              => Busy(s) /\ req'[s].tick = req[s].tick
    BY <1>1 DEF Busy
  <1>4. \A t : TurnBusy(t)' => TurnBusy(t)
    BY <1>3 DEF TurnBusy, Busy
  <1>5. Judging'
    <2>1. ASSUME NEW s \in Requests
          PROVE  /\ req'[s].pc \in {"preThink", "upstream", "preAct"} =>
                      /\ req'[s].tick \in 1 .. conv'.tick
                      /\ req'[s].kept \subseteq CallsOf(req'[s].tick)
                      /\ req'[s].held \in CallsOf(req'[s].tick) \union {NoCall}
                 /\ req'[s].pc = "preAct" => req'[s].todo \in Seq(CallsOf(req'[s].tick)) \ {<<>>}
                 /\ req'[s].pc \in {"postAct", "preThink", "upstream"}
                      => req'[s].kept = {} /\ req'[s].held = NoCall
      <3>1. CASE s = r BY <1>0, <1>1, <1>3, <3>1 DEF Judging
      <3>2. CASE s # r BY <1>0, <1>1, <3>2 DEF Judging, Busy
      <3> QED BY <3>1, <3>2
    <2> QED BY <2>1 DEF Judging, Busy
  <1>6. OneTurnEach' BY <1>0, <1>3 DEF OneTurnEach, Busy
  <1>7. GivenAfterwards' BY <1>0, <1>4 DEF GivenAfterwards
  <1>8. HeldAfterwards' BY <1>0, <1>4 DEF HeldAfterwards
  <1>9. ASSUME NEW c, Paused(c) PROVE Paused(c)'
    <2>1. CASE \E s \in Requests : req[s].pc = "preAct" /\ req[s].tick = c[1] /\ req[s].held = c
      <3>1. PICK s \in Requests : req[s].pc = "preAct" /\ req[s].tick = c[1] /\ req[s].held = c
        BY <2>1
      <3>2. CASE s # r
        <4>1. req'[s] = req[s] BY <1>1, <3>2
        <4> QED BY <3>1, <4>1 DEF Paused
      <3>3. CASE s = r
        <4>1. Busy(r) /\ TurnBusy(c[1]) BY <3>1, <3>3 DEF Busy, TurnBusy
        <4>2. c[1] \in 1 .. conv.tick BY <1>0, <3>1, <3>3, <4>1 DEF Judging
        <4>3. c \notin given BY <1>0, <4>1 DEF GivenAfterwards
        <4>4. c[1] \in Turns => ap[c[1]].status = "none" BY <1>0, <4>1 DEF HeldAfterwards
        <4>5. x.pc = "idle" BY <3>1, <3>3
        <4>6. \A u \in Requests : Busy(u)' => Busy(u) /\ u # r /\ req'[u] = req[u]
          BY <1>1, <4>5 DEF Busy
        <4>7. ~TurnBusy(c[1])' BY <1>0, <3>1, <3>3, <4>1, <4>6 DEF TurnBusy, OneTurnEach
        <4> QED BY <4>2, <4>3, <4>4, <4>7 DEF Paused
      <3> QED BY <3>2, <3>3
    <2>2. CASE c[1] \in Turns /\ ap[c[1]].status # "none" /\ ap[c[1]].call = c
      BY <2>2 DEF Paused
    <2>3. CASE /\ c \notin given /\ ~TurnBusy(c[1]) /\ c[1] \in 1 .. conv.tick
               /\ c[1] \in Turns => ap[c[1]].status = "none"
      BY <1>4, <2>3 DEF Paused
    <2> QED BY <1>9, <2>1, <2>2, <2>3 DEF Paused
  <1>10. PausesAreKept' BY <1>0, <1>9 DEF PausesAreKept
  <1> QED BY <1>2, <1>5, <1>6, <1>7, <1>8, <1>10 DEF IInv

(* A request that judges calls goes on judging.                               *)
LEMMA JudgingStep ==
  ASSUME IInv, NEW r \in Requests, NEW U, NEW x \in RequestShape(U), Busy(r),
         req' = [req EXCEPT ![r] = x], x.pc = "preAct", x.tick = req[r].tick,
         x.kept \subseteq CallsOf(x.tick), x.held \in CallsOf(x.tick) \union {NoCall},
         x.todo \in Seq(CallsOf(x.tick)) \ {<<>>},
         conv' = conv, ap' = ap, given' = given, took \subseteq took', late' \in BOOLEAN,
         \A c \in pausing' \ pausing : c \in CallsOf(x.tick) /\ c[1] = x.tick,
         "pauses-in-one-answer" \notin took' =>
            \A c \in pausing' : c[1] = x.tick => x.held = c
  PROVE  IInv'
  <1>0. Shape /\ Judging /\ OneTurnEach /\ GivenAfterwards /\ HeldAfterwards /\ PausesAreKept
    BY DEF IInv
  <1>1. /\ \E V : req' \in [Requests -> RequestShape(V)]
        /\ req'[r] = x /\ \A s \in Requests \ {r} : req'[s] = req[s]
    BY <1>0, Replaced DEF Shape
  <1>2. Shape'
    <2>1. x.tick \in Nat BY DEF RequestShape
    <2>2. pausing' \subseteq Nat \X Nat BY <1>0, <2>1 DEF Shape, CallsOf
    <2> QED BY <1>0, <1>1, <2>2 DEF Shape
  <1>3. \A s \in Requests : (req'[s].pc \in {"preThink", "upstream", "preAct"} <=> Busy(s))
                            /\ req'[s].tick = req[s].tick
    BY <1>1 DEF Busy
  <1>4. \A t : TurnBusy(t)' <=> TurnBusy(t)
    BY <1>3 DEF TurnBusy, Busy
  <1>5. Judging'
    <2>1. ASSUME NEW s \in Requests
          PROVE  /\ req'[s].pc \in {"preThink", "upstream", "preAct"} =>
                      /\ req'[s].tick \in 1 .. conv'.tick
                      /\ req'[s].kept \subseteq CallsOf(req'[s].tick)
                      /\ req'[s].held \in CallsOf(req'[s].tick) \union {NoCall}
                 /\ req'[s].pc = "preAct" => req'[s].todo \in Seq(CallsOf(req'[s].tick)) \ {<<>>}
                 /\ req'[s].pc \in {"postAct", "preThink", "upstream"}
                      => req'[s].kept = {} /\ req'[s].held = NoCall
      <3>1. CASE s = r BY <1>0, <1>1, <3>1 DEF Judging
      <3>2. CASE s # r BY <1>0, <1>1, <3>2 DEF Judging, Busy
      <3> QED BY <3>1, <3>2
    <2> QED BY <2>1 DEF Judging, Busy
  <1>6. OneTurnEach' BY <1>0, <1>3 DEF OneTurnEach, Busy
  <1>7. GivenAfterwards' BY <1>0, <1>4 DEF GivenAfterwards
  <1>8. HeldAfterwards' BY <1>0, <1>4 DEF HeldAfterwards
  <1>9. ASSUME "pauses-in-one-answer" \notin took', NEW c \in pausing' PROVE Paused(c)'
    <2>1. CASE c[1] = x.tick
      <3>1. req'[r].pc = "preAct" /\ req'[r].tick = c[1] /\ req'[r].held = c
        BY <1>1, <1>9, <2>1
      <3> QED BY <3>1 DEF Paused
    <2>2. CASE c[1] # x.tick
      <3>1. Paused(c) BY <1>0, <1>9, <2>2 DEF PausesAreKept
      <3>2. CASE \E s \in Requests : req[s].pc = "preAct" /\ req[s].tick = c[1] /\ req[s].held = c
        <4>1. PICK s \in Requests : req[s].pc = "preAct" /\ req[s].tick = c[1] /\ req[s].held = c
          BY <3>2
        <4>2. req'[s] = req[s] BY <1>1, <2>2, <4>1
        <4> QED BY <4>1, <4>2 DEF Paused
      <3>3. CASE c[1] \in Turns /\ ap[c[1]].status # "none" /\ ap[c[1]].call = c
        BY <3>3 DEF Paused
      <3>4. CASE /\ c \notin given /\ ~TurnBusy(c[1]) /\ c[1] \in 1 .. conv.tick
                 /\ c[1] \in Turns => ap[c[1]].status = "none"
        BY <1>4, <3>4 DEF Paused
      <3> QED BY <3>1, <3>2, <3>3, <3>4 DEF Paused
    <2> QED BY <2>1, <2>2
  <1>10. PausesAreKept' BY <1>9 DEF PausesAreKept
  <1> QED BY <1>2, <1>5, <1>6, <1>7, <1>8, <1>10 DEF IInv

(* While a turn is busy, its paused calls are those its request holds.        *)
LEMMA BusyPauses ==
  ASSUME IInv, NEW r \in Requests, Busy(r), "pauses-in-one-answer" \notin took,
         NEW c \in pausing, c[1] = req[r].tick
  PROVE  req[r].pc = "preAct" /\ req[r].held = c
  <1>1. Paused(c) /\ TurnBusy(c[1]) BY DEF IInv, PausesAreKept, TurnBusy
  <1>2. \E s \in Requests : req[s].pc = "preAct" /\ req[s].tick = c[1] /\ req[s].held = c
    BY <1>1 DEF Paused, IInv, HeldAfterwards
  <1> QED BY <1>2 DEF IInv, OneTurnEach, Busy

(* A turn is counted.                                                         *)
LEMMA ComposeStep ==
  ASSUME IInv, NEW r \in Requests, Compose(r)
  PROVE  IInv'
  <1>0. Shape /\ Judging /\ OneTurnEach /\ GivenAfterwards /\ HeldAfterwards /\ PausesAreKept
    BY DEF IInv
  <1>1. PICK T : req \in [Requests -> RequestShape(T)] BY <1>0 DEF Shape
  <1>2. PICK C : conv \in Conversation(C) BY <1>0 DEF Shape
  <1> DEFINE n == conv.tick + 1
  <1> DEFINE x == [req[r] EXCEPT !.pc = "preThink", !.tick = n]
  <1>3. n \in Nat /\ conv.tick \in Nat BY <1>2 DEF Conversation
  <1>4. /\ req[r].pc = "postAct" /\ ap' = ap /\ given' = given /\ pausing' = pausing
        /\ took' = took /\ late' = (late \/ conv.finished)
        /\ req' = [req EXCEPT ![r] = x]
        /\ conv' = [conv EXCEPT !.seen = Len(req[r].tools), !.tick = n]
    BY <1>1, <1>2 DEF Compose, Emit, Conversation
  <1>5. /\ x \in RequestShape(T) /\ x.pc = "preThink" /\ x.tick = n /\ x.kept = {}
        /\ x.held = NoCall
    BY <1>0, <1>1, <1>3, <1>4 DEF RequestShape, Judging
  <1>6. conv' \in Conversation(C \union {Len(req[r].tools)}) /\ conv'.tick = n
    BY <1>2, <1>3, <1>4 DEF Conversation
  <1> HIDE DEF x, n
  <1>7. /\ \E V : req' \in [Requests -> RequestShape(V)]
        /\ req'[r] = x /\ \A s \in Requests \ {r} : req'[s] = req[s]
    BY <1>1, <1>4, <1>5, Replaced
  <1>8. late' \in BOOLEAN
    <2>1. late \in BOOLEAN /\ conv.finished \in BOOLEAN BY <1>0, <1>2 DEF Shape, Conversation
    <2> QED BY <1>4, <2>1
  <1>9. Shape' BY <1>0, <1>4, <1>6, <1>7, <1>8 DEF Shape
  <1>10. n > conv.tick /\ (\A k \in 1 .. conv.tick : k \in 1 .. n /\ k # n) /\ n \in 1 .. n
    BY <1>3 DEF n
  <1>11. \A t \in 1 .. conv.tick : TurnBusy(t)' => TurnBusy(t)
    BY <1>5, <1>7, <1>10 DEF TurnBusy, Busy
  <1>12. Judging'
    <2>1. ASSUME NEW s \in Requests
          PROVE  /\ req'[s].pc \in {"preThink", "upstream", "preAct"} =>
                      /\ req'[s].tick \in 1 .. conv'.tick
                      /\ req'[s].kept \subseteq CallsOf(req'[s].tick)
                      /\ req'[s].held \in CallsOf(req'[s].tick) \union {NoCall}
                 /\ req'[s].pc = "preAct" => req'[s].todo \in Seq(CallsOf(req'[s].tick)) \ {<<>>}
                 /\ req'[s].pc \in {"postAct", "preThink", "upstream"}
                      => req'[s].kept = {} /\ req'[s].held = NoCall
      <3>1. CASE s = r BY <1>5, <1>6, <1>7, <1>10, <3>1
      <3>2. CASE s # r BY <1>0, <1>6, <1>7, <1>10, <3>2 DEF Judging, Busy
      <3> QED BY <3>1, <3>2
    <2> QED BY <2>1 DEF Judging, Busy
  <1>13. OneTurnEach'
    <2> SUFFICES ASSUME NEW s \in Requests, NEW q \in Requests, Busy(s)', Busy(q)',
                        req'[s].tick = req'[q].tick, s # q
                 PROVE  FALSE
      BY DEF OneTurnEach
    <2>1. CASE s # r /\ q # r BY <1>0, <1>7, <2>1 DEF OneTurnEach, Busy
    <2>2. CASE s = r \/ q = r
      <3>1. \A p \in Requests \ {r} : Busy(p)' => req'[p].tick # n
        BY <1>0, <1>7, <1>10 DEF Judging, Busy
      <3> QED BY <1>5, <1>7, <2>2, <3>1
    <2> QED BY <2>1, <2>2
  <1>14. GivenAfterwards' BY <1>0, <1>4, <1>6, <1>10, <1>11 DEF GivenAfterwards
  <1>15. HeldAfterwards' BY <1>0, <1>4, <1>6, <1>10, <1>11 DEF HeldAfterwards
  <1>16. ASSUME NEW c, Paused(c) PROVE Paused(c)'
    <2>1. CASE \E s \in Requests : req[s].pc = "preAct" /\ req[s].tick = c[1] /\ req[s].held = c
      <3>1. PICK s \in Requests : req[s].pc = "preAct" /\ req[s].tick = c[1] /\ req[s].held = c
        BY <2>1
      <3>2. req'[s] = req[s] BY <1>4, <1>7, <3>1
      <3> QED BY <3>1, <3>2 DEF Paused
    <2>2. CASE c[1] \in Turns /\ ap[c[1]].status # "none" /\ ap[c[1]].call = c
      BY <1>4, <2>2 DEF Paused
    <2>3. CASE /\ c \notin given /\ ~TurnBusy(c[1]) /\ c[1] \in 1 .. conv.tick
               /\ c[1] \in Turns => ap[c[1]].status = "none"
      BY <1>4, <1>6, <1>10, <1>11, <2>3 DEF Paused
    <2> QED BY <1>16, <2>1, <2>2, <2>3 DEF Paused
  <1>17. PausesAreKept' BY <1>0, <1>4, <1>16 DEF PausesAreKept
  <1> QED BY <1>9, <1>12, <1>13, <1>14, <1>15, <1>17 DEF IInv

(* A request ends in its reply: its turn is over, and what it kept is given,  *)
(* held or dropped.                                                           *)
LEMMA ReplyStep ==
  ASSUME IInv, NEW r \in Requests, Busy(r), NEW q, Reply(r, q), q.tick = req[r].tick,
         q.kept \subseteq CallsOf(q.tick), q.held \in CallsOf(q.tick) \union {NoCall},
         took \subseteq took', late' \in BOOLEAN,
         \A c \in pausing' \ pausing : c \in CallsOf(q.tick) /\ c[1] = q.tick,
         "pauses-in-one-answer" \notin took' =>
            \A c \in pausing' : c[1] = q.tick => q.held = c
  PROVE  IInv'
  <1> DEFINE t == q.tick
  <1>0. /\ Shape /\ Judging /\ OneTurnEach /\ GivenAfterwards /\ HeldAfterwards /\ PausesAreKept
        /\ t \in 1 .. conv.tick /\ t = req[r].tick /\ TurnBusy(t)
    BY DEF IInv, Judging, TurnBusy
  <1>1. PICK T : req \in [Requests -> RequestShape(T)] BY <1>0 DEF Shape
  <1>2. PICK C : conv \in Conversation(C) BY <1>0 DEF Shape
  <1>3. Idle \in RequestShape({<<>>, {}}) /\ Idle.pc = "idle" BY ShapeOfIdle
  <1>4. /\ \E V : req' \in [Requests -> RequestShape(V)]
        /\ req'[r].pc = "idle" /\ \A s \in Requests \ {r} : req'[s] = req[s]
    BY <1>1, <1>3, Replaced DEF Reply
  <1>5. conv.tick \in Nat /\ t \in Nat /\ CallsOf(t) \subseteq Nat \X Nat
    BY <1>0, <1>2 DEF Conversation, CallsOf
  <1> HIDE DEF t
  <1>6. (\E D : conv' \in Conversation(D)) /\ conv'.tick = conv.tick
    <2>1. CASE q.stopped
      <3>1. conv' = [conv EXCEPT !.closed = TRUE, !.finished = TRUE] BY <2>1 DEF Reply, Closed
      <3>2. conv' \in Conversation(C) /\ conv'.tick = conv.tick BY <1>2, <3>1 DEF Conversation
      <3> QED BY <3>2
    <2>2. CASE ~q.stopped
      <3> DEFINE p == [tick |-> q.tick, calls |-> q.kept]
      <3>1. conv' = [conv EXCEPT !.pending = p] BY <2>2 DEF Reply
      <3>2. p \in [tick : Nat, calls : SUBSET (Nat \X Nat)] BY <1>5 DEF t
      <3> HIDE DEF p
      <3>3. conv' \in Conversation(C) /\ conv'.tick = conv.tick
        BY <1>2, <3>1, <3>2 DEF Conversation
      <3> QED BY <3>3
    <2> QED BY <2>1, <2>2
  <1>7. \A k : (TurnBusy(k)' <=> TurnBusy(k) /\ k # t)
    <2>1. ASSUME NEW k, TurnBusy(k)' PROVE TurnBusy(k) /\ k # t
      <3>1. PICK s \in Requests : Busy(s)' /\ req'[s].tick = k BY <2>1 DEF TurnBusy
      <3>2. s # r /\ req'[s] = req[s] /\ Busy(s) BY <1>4, <3>1 DEF Busy
      <3>3. req[s].tick # t BY <1>0, <3>2 DEF OneTurnEach
      <3> QED BY <3>1, <3>2, <3>3 DEF TurnBusy
    <2>2. ASSUME NEW k, TurnBusy(k), k # t PROVE TurnBusy(k)'
      <3>1. PICK s \in Requests : Busy(s) /\ req[s].tick = k BY <2>2 DEF TurnBusy
      <3>2. s # r /\ req'[s] = req[s] BY <1>0, <1>4, <2>2, <3>1
      <3> QED BY <3>1, <3>2 DEF TurnBusy, Busy
    <2> QED BY <2>1, <2>2
  <1>8. Judging'
    <2>1. ASSUME NEW s \in Requests
          PROVE  /\ req'[s].pc \in {"preThink", "upstream", "preAct"} =>
                      /\ req'[s].tick \in 1 .. conv'.tick
                      /\ req'[s].kept \subseteq CallsOf(req'[s].tick)
                      /\ req'[s].held \in CallsOf(req'[s].tick) \union {NoCall}
                 /\ req'[s].pc = "preAct" => req'[s].todo \in Seq(CallsOf(req'[s].tick)) \ {<<>>}
                 /\ req'[s].pc \in {"postAct", "preThink", "upstream"}
                      => req'[s].kept = {} /\ req'[s].held = NoCall
      <3>1. CASE s = r BY <1>4, <3>1
      <3>2. CASE s # r BY <1>0, <1>4, <1>6, <3>2 DEF Judging, Busy
      <3> QED BY <3>1, <3>2
    <2> QED BY <2>1 DEF Judging, Busy
  <1>9. OneTurnEach' BY <1>0, <1>4 DEF OneTurnEach, Busy
  (* Nothing of the turn was given or held before it was over.                *)
  <1>10. /\ \A c \in given : c[1] # t
         /\ t \in Turns => ap[t].status = "none"
    BY <1>0 DEF GivenAfterwards, HeldAfterwards
  (* The three ways a reply disposes of what was kept.                        *)
  <1>11. \/ ap' = ap /\ given' = given
         \/ /\ given' = given /\ q.held \in CallsOf(t)
            /\ ap' = [ap EXCEPT ![t] = [status |-> "pending", call |-> q.held,
                                        kept |-> q.kept, refused |-> q.kept \ {q.held}]]
         \/ ap' = ap /\ given' = given \union q.kept /\ q.held = NoCall
    BY DEF Reply, t
  <1>12. q.kept \subseteq CallsOf(t) /\ \A c \in q.kept : c[1] = t
    BY DEF CallsOf, t
  <1>13. \A c \in given' : c \in given \/ c[1] = t BY <1>11, <1>12
  <1>14. GivenAfterwards'
    BY <1>0, <1>6, <1>7, <1>13 DEF GivenAfterwards
  <1> DEFINE a == [status |-> "pending", call |-> q.held, kept |-> q.kept,
                   refused |-> q.kept \ {q.held}]
  <1>15. \A k \in Turns : ap'[k] = ap[k] \/ (k = t /\ ap'[k] = a /\ q.held \in CallsOf(t))
    BY <1>0, <1>11 DEF Shape
  <1>16. ASSUME q.held \in CallsOf(t) PROVE a \in Approval
    BY <1>5, <1>12, <1>16 DEF Approval
  <1>17. ap' \in [Turns -> Approval]
    <2>1. ap' \in [Turns -> Approval] \/ q.held \in CallsOf(t) BY <1>0, <1>11 DEF Shape
    <2>2. CASE ap' = ap BY <1>0, <2>2 DEF Shape
    <2>3. CASE ap' = [ap EXCEPT ![t] = a] /\ q.held \in CallsOf(t)
      BY <1>0, <1>16, <2>3 DEF Shape
    <2> QED BY <1>11, <2>2, <2>3
  <1>18. Shape'
    <2>1. given' \subseteq Nat \X Nat BY <1>0, <1>5, <1>11, <1>12 DEF Shape
    <2>2. pausing' \subseteq Nat \X Nat BY <1>0, <1>5 DEF Shape, t
    <2> QED BY <1>4, <1>6, <1>17, <2>1, <2>2 DEF Shape
  <1>19. HeldAfterwards'
    <2> SUFFICES ASSUME NEW k \in Turns, ap'[k].status # "none"
                 PROVE  /\ k \in 1 .. conv.tick /\ ~TurnBusy(k)'
                        /\ ap'[k].call \in CallsOf(k) /\ ap'[k].kept \subseteq CallsOf(k)
                        /\ ap'[k].refused \subseteq ap'[k].kept \ {ap'[k].call}
                        /\ ap'[k].status # "kept" => ap'[k].call \notin given'
      BY <1>6 DEF HeldAfterwards
    <2>1. CASE ap'[k] = ap[k]
      <3>1. k # t BY <1>10, <2>1
      <3>2. ap[k].call \in CallsOf(k) BY <1>0, <2>1 DEF HeldAfterwards
      <3>3. ap[k].call[1] = k BY <3>2 DEF CallsOf
      <3>4. ap[k].status # "kept" => ap[k].call \notin given'
        BY <1>0, <1>13, <2>1, <3>1, <3>3 DEF HeldAfterwards
      <3> QED BY <1>0, <1>7, <2>1, <3>4 DEF HeldAfterwards
    <2>2. CASE k = t /\ ap'[k] = a /\ q.held \in CallsOf(t) /\ ap'[k] # ap[k]
      <3>1. given' = given BY <1>11, <2>2
      <3>2. q.held[1] = t BY <2>2 DEF CallsOf
      <3>3. q.held \notin given BY <1>10, <3>2
      <3>4. a.call = q.held /\ a.kept = q.kept /\ a.refused = q.kept \ {q.held} OBVIOUS
      <3> HIDE DEF a
      <3> QED BY <1>0, <1>7, <1>12, <2>2, <3>1, <3>3, <3>4
    <2> QED BY <1>15, <2>1, <2>2
  <1>20. ASSUME "pauses-in-one-answer" \notin took', NEW c \in pausing' PROVE Paused(c)'
    <2>1. CASE c[1] = t
      <3>1. q.held = c BY <1>20, <2>1 DEF t
      <3>2. c # NoCall
        BY <1>0, <2>1 DEF NoCall
      <3>3. c \notin given BY <1>10, <2>1
      <3>4. CASE ap' = ap /\ given' = given
        BY <1>0, <1>6, <1>7, <1>10, <2>1, <3>3, <3>4 DEF Paused
      <3>5. CASE given' = given /\ ap' = [ap EXCEPT ![t] = a]
        <4>1. CASE t \in Turns
          <5>1. ap'[t] = a BY <1>0, <3>5, <4>1 DEF Shape
          <5>2. ap'[c[1]].status = "pending" /\ ap'[c[1]].call = c BY <2>1, <3>1, <5>1
          <5> QED BY <2>1, <4>1, <5>2 DEF Paused
        <4>2. CASE t \notin Turns
          BY <1>0, <1>6, <1>7, <2>1, <3>3, <3>5, <4>2 DEF Paused
        <4> QED BY <4>1, <4>2
      <3> QED BY <1>11, <3>1, <3>2, <3>4, <3>5
    <2>2. CASE c[1] # t
      <3>1. Paused(c) BY <1>0, <1>20, <2>2 DEF PausesAreKept, t
      <3>2. CASE \E s \in Requests : req[s].pc = "preAct" /\ req[s].tick = c[1] /\ req[s].held = c
        <4>1. PICK s \in Requests : req[s].pc = "preAct" /\ req[s].tick = c[1] /\ req[s].held = c
          BY <3>2
        <4>2. req'[s] = req[s] BY <1>0, <1>4, <2>2, <4>1
        <4> QED BY <4>1, <4>2 DEF Paused
      <3>3. CASE c[1] \in Turns /\ ap[c[1]].status # "none" /\ ap[c[1]].call = c
        <4>1. ap'[c[1]] = ap[c[1]] BY <1>15, <2>2, <3>3
        <4> QED BY <3>3, <4>1 DEF Paused
      <3>4. CASE /\ c \notin given /\ ~TurnBusy(c[1]) /\ c[1] \in 1 .. conv.tick
                 /\ c[1] \in Turns => ap[c[1]].status = "none"
        <4>1. c \notin given' BY <1>13, <2>2, <3>4
        <4>2. c[1] \in Turns => ap'[c[1]].status = "none" BY <1>15, <2>2, <3>4
        <4> QED BY <1>6, <1>7, <3>4, <4>1, <4>2 DEF Paused
      <3> QED BY <3>1, <3>2, <3>3, <3>4 DEF Paused
    <2> QED BY <2>1, <2>2
  <1>21. PausesAreKept' BY <1>20 DEF PausesAreKept
  <1> QED BY <1>8, <1>9, <1>14, <1>18, <1>19, <1>21 DEF IInv

(* The operator's answer, or its being fetched: an approval moves on, and the *)
(* conversation, if at all, loses a call it waits for.                        *)
LEMMA ApprovalStep ==
  ASSUME IInv, NEW t \in Turns, NEW status \in {"approved", "denied", "kept", "refused"},
         ap' = [ap EXCEPT ![t].status = status], ap[t].status # "none", req' = req,
         \E T : conv' \in Conversation(T), conv'.tick = conv.tick, pausing' = pausing,
         took \subseteq took', late' \in BOOLEAN,
         given \subseteq given', given' \subseteq given \union ap[t].kept,
         status # "kept" => ap[t].call \notin given'
  PROVE  IInv'
  <1>0. Shape /\ Judging /\ OneTurnEach /\ GivenAfterwards /\ HeldAfterwards /\ PausesAreKept
    BY DEF IInv
  <1>1. /\ ap \in [Turns -> Approval] /\ t \in 1 .. conv.tick /\ ~TurnBusy(t)
        /\ ap[t].kept \subseteq CallsOf(t)
    BY <1>0 DEF Shape, HeldAfterwards
  <1> DEFINE a == [ap[t] EXCEPT !.status = status]
  <1>2. a \in Approval /\ a.status = status /\ a.call = ap[t].call /\ a.kept = ap[t].kept
        /\ a.refused = ap[t].refused
    BY <1>1 DEF Approval
  <1>3. ap' = [ap EXCEPT ![t] = a] BY <1>1
  <1> HIDE DEF a
  <1>4. ap' \in [Turns -> Approval] /\ \A k \in Turns : ap'[k] = IF k = t THEN a ELSE ap[k]
    BY <1>1, <1>2, <1>3
  <1>5. \A c \in ap[t].kept : c[1] = t /\ c \in Nat \X Nat
    <2>1. t \in Nat BY DEF Turns
    <2> QED BY <1>1, <2>1 DEF CallsOf
  <1>6. \A k : TurnBusy(k)' <=> TurnBusy(k) BY DEF TurnBusy, Busy
  <1>7. Shape' BY <1>0, <1>4, <1>5 DEF Shape
  <1>8. Judging' BY <1>0 DEF Judging, Busy
  <1>9. OneTurnEach' BY <1>0 DEF OneTurnEach, Busy
  <1>10. GivenAfterwards' BY <1>0, <1>1, <1>5, <1>6 DEF GivenAfterwards
  <1>11. HeldAfterwards'
    <2> SUFFICES ASSUME NEW k \in Turns, ap'[k].status # "none"
                 PROVE  /\ k \in 1 .. conv.tick /\ ~TurnBusy(k)'
                        /\ ap'[k].call \in CallsOf(k) /\ ap'[k].kept \subseteq CallsOf(k)
                        /\ ap'[k].refused \subseteq ap'[k].kept \ {ap'[k].call}
                        /\ ap'[k].status # "kept" => ap'[k].call \notin given'
      BY DEF HeldAfterwards
    <2>1. CASE k = t BY <1>0, <1>1, <1>2, <1>4, <1>6, <2>1 DEF HeldAfterwards
    <2>2. CASE k # t
      <3>1. ap'[k] = ap[k] BY <1>4, <2>2
      <3>2. ap[k].call[1] = k BY <1>0, <3>1 DEF HeldAfterwards, CallsOf
      <3>3. ap[k].status # "kept" => ap[k].call \notin given'
        BY <1>0, <1>5, <2>2, <3>1, <3>2 DEF HeldAfterwards
      <3> QED BY <1>0, <1>6, <3>1, <3>3 DEF HeldAfterwards
    <2> QED BY <2>1, <2>2
  <1>12. ASSUME NEW c, Paused(c) PROVE Paused(c)'
    <2>1. CASE \E s \in Requests : req[s].pc = "preAct" /\ req[s].tick = c[1] /\ req[s].held = c
      BY <2>1 DEF Paused
    <2>2. CASE c[1] \in Turns /\ ap[c[1]].status # "none" /\ ap[c[1]].call = c
      BY <1>2, <1>4, <2>2 DEF Paused
    <2>3. CASE /\ c \notin given /\ ~TurnBusy(c[1]) /\ c[1] \in 1 .. conv.tick
               /\ c[1] \in Turns => ap[c[1]].status = "none"
      <3>1. c[1] # t BY <2>3
      <3>2. c \notin given' BY <1>5, <2>3, <3>1
      <3> QED BY <1>4, <1>6, <2>3, <3>1, <3>2 DEF Paused
    <2> QED BY <1>12, <2>1, <2>2, <2>3 DEF Paused
  <1>13. PausesAreKept' BY <1>0, <1>12 DEF PausesAreKept
  <1> QED BY <1>7, <1>8, <1>9, <1>10, <1>11, <1>13 DEF IInv

LEMMA ApproveAndRedeem ==
  ASSUME IInv, NEW t \in Turns, Approve(t) \/ Redeem(t)
  PROVE  IInv'
  <1>0. Shape /\ HeldAfterwards BY DEF IInv
  <1>1. PICK C : conv \in Conversation(C) BY <1>0 DEF Shape
  <1>2. late \in BOOLEAN /\ conv.finished \in BOOLEAN BY <1>0, <1>1 DEF Shape, Conversation
  <1>3. took \subseteq took' BY DEF Approve, Redeem, Takes
  <1>4. CASE Approve(t)
    <2>1. /\ req' = req /\ given' = given /\ pausing' = pausing /\ ap[t].status = "pending"
          /\ late' = (late \/ conv.finished)
      BY <1>4 DEF Approve, Emit
    <2>2. late' \in BOOLEAN BY <1>2, <2>1
    <2>3. ap[t].call \notin given' BY <1>0, <2>1 DEF HeldAfterwards
    <2>4. CASE ap' = [ap EXCEPT ![t].status = "approved"] /\ conv' = conv
      BY <1>1, <1>3, <2>1, <2>2, <2>3, <2>4, ApprovalStep
    <2>5. CASE /\ ap' = [ap EXCEPT ![t].status = "denied"]
               /\ conv' = [conv EXCEPT !.pending.calls = @ \ {ap[t].call}]
      <3> DEFINE p == [conv.pending EXCEPT !.calls = @ \ {ap[t].call}]
      <3>1. conv.pending \in [tick : Nat, calls : SUBSET (Nat \X Nat)] BY <1>1 DEF Conversation
      <3>2. p \in [tick : Nat, calls : SUBSET (Nat \X Nat)] BY <3>1
      <3>3. conv' = [conv EXCEPT !.pending = p] BY <1>1, <2>5 DEF Conversation
      <3> HIDE DEF p
      <3>4. conv' \in Conversation(C) /\ conv'.tick = conv.tick
        BY <1>1, <3>2, <3>3 DEF Conversation
      <3> QED BY <1>3, <2>1, <2>2, <2>3, <2>5, <3>4, ApprovalStep
    <2> QED BY <1>4, <2>4, <2>5 DEF Approve
  <1>5. CASE Redeem(t)
    <2>1. /\ req' = req /\ conv' = conv /\ pausing' = pausing /\ late' = late
          /\ ap[t].status \in {"approved", "denied"}
          /\ given' = given \union IF ap[t].status = "approved" THEN ap[t].kept
                                                              ELSE ap[t].refused
          /\ ap' = [ap EXCEPT ![t].status = IF @ = "approved" THEN "kept" ELSE "refused"]
      BY <1>5 DEF Redeem
    <2>2. /\ ap[t].refused \subseteq ap[t].kept \ {ap[t].call}
          /\ ap[t].call \notin given
      BY <1>0, <2>1 DEF HeldAfterwards
    <2>3. CASE ap[t].status = "approved"
      <3>1. ap' = [ap EXCEPT ![t].status = "kept"] /\ given' = given \union ap[t].kept
        BY <1>0, <2>1, <2>3 DEF Shape
      <3> QED BY <1>1, <1>2, <1>3, <2>1, <2>3, <3>1, ApprovalStep
    <2>4. CASE ap[t].status = "denied"
      <3>1. ap' = [ap EXCEPT ![t].status = "refused"] /\ given' = given \union ap[t].refused
        BY <1>0, <2>1, <2>4 DEF Shape
      <3> QED BY <1>1, <1>2, <1>3, <2>1, <2>2, <2>4, <3>1, ApprovalStep
    <2> QED BY <2>1, <2>3, <2>4
  <1> QED BY <1>4, <1>5

--------------------------------------------------------------------------------
(* Every step is one of these.                                                *)
LEMMA ClosedIsShaped ==
  ASSUME NEW C, conv \in Conversation(C)
  PROVE  Closed(conv) \in Conversation(C) /\ Closed(conv).tick = conv.tick
  BY DEF Closed, Conversation

LEMMA EmitIsBoolean == Shape /\ Emit => late' \in BOOLEAN
  <1> SUFFICES ASSUME Shape, Emit PROVE late' \in BOOLEAN
    OBVIOUS
  <1>1. PICK C : conv \in Conversation(C) BY DEF Shape
  <1>2. late \in BOOLEAN /\ conv.finished \in BOOLEAN BY <1>1 DEF Shape, Conversation
  <1>3. late' = (late \/ conv.finished) BY DEF Emit
  <1> QED BY <1>2, <1>3

LEMMA BeginStep ==
  ASSUME IInv, NEW r \in Requests, Request(r) \/ End(r)
  PROVE  IInv'
  <1>0. Shape BY DEF IInv
  <1>1. PICK C : conv \in Conversation(C) BY <1>0 DEF Shape
  <1>2. /\ req[r].pc = "idle" /\ took \subseteq took' /\ ap' = ap /\ given' = given
        /\ pausing' = pausing /\ late' = late
        /\ \E tools \in Messages, ends \in BOOLEAN : Begin(r, tools, ends)
    BY DEF Request, NewTurn, End, Takes
  <1>3. PICK tools \in Messages, ends \in BOOLEAN : Begin(r, tools, ends) BY <1>2
  <1> DEFINE todo == Screening(tools)
  <1> DEFINE U == {tools, todo, <<>>, {}}
  <1> DEFINE x == [Idle EXCEPT !.pc = "postAct", !.ends = ends, !.tools = tools,
                               !.unscreened = todo]
  <1>4. req' = [req EXCEPT ![r] = x] BY <1>3 DEF Begin
  <1> HIDE DEF todo
  <1>5. Idle \in RequestShape(U) /\ Idle.kept = {} /\ Idle.held = NoCall BY ShapeOfIdle
  <1>6. x \in RequestShape(U) /\ x.pc = "postAct" /\ x.kept = {} /\ x.held = NoCall
    BY <1>5 DEF RequestShape
  <1> HIDE DEF x, U
  <1>7. conv' \in Conversation(C \union {Len(tools)}) /\ conv'.tick = conv.tick
    <2>1. NoPending \in [tick : Nat, calls : SUBSET (Nat \X Nat)] BY DEF NoPending
    <2>2. CASE conv' = conv BY <1>1, <2>2 DEF Conversation
    <2>3. CASE conv' = [conv EXCEPT !.pending = NoPending, !.seen = Len(tools)]
      BY <1>1, <2>1, <2>3 DEF Conversation
    <2> QED BY <1>3, <2>2, <2>3 DEF Begin
  <1>8. late' \in BOOLEAN BY <1>0, <1>2 DEF Shape
  <1> QED BY <1>2, <1>4, <1>6, <1>7, <1>8, CalmStep

LEMMA RequestSteps ==
  ASSUME IInv, NEW r \in Requests, PostAct(r) \/ Finish(r) \/ PreThink(r)
  PROVE  IInv'
  <1>0. Shape /\ Judging BY DEF IInv
  <1>1. PICK T : req \in [Requests -> RequestShape(T)] BY <1>0 DEF Shape
  <1>2. PICK C : conv \in Conversation(C) BY <1>0 DEF Shape
  <1>3. /\ ap' = ap /\ given' = given /\ pausing' = pausing /\ took' = took
        /\ late' \in BOOLEAN /\ req[r].pc \in {"postAct", "preThink"}
    BY <1>0, EmitIsBoolean DEF PostAct, Finish, PreThink, history, Shape
  <1>4. req[r] \in RequestShape(T) /\ req[r].kept = {} /\ req[r].held = NoCall
    BY <1>0, <1>1, <1>3 DEF Judging
  <1>5. (conv' \in Conversation(C) /\ conv'.tick = conv.tick)
    <2>1. CASE conv' = conv BY <1>2, <2>1
    <2>2. CASE conv' = Closed(conv) BY <1>2, <2>2, ClosedIsShaped
    <2>3. CASE conv' = [conv EXCEPT !.finished = TRUE] BY <1>2, <2>3 DEF Conversation
    <2> QED BY <2>1, <2>2, <2>3 DEF PostAct, Finish, PreThink
  <1>6. CASE req' = [req EXCEPT ![r] = Idle]
    <2>1. Idle \in RequestShape({<<>>, {}}) /\ Idle.pc = "idle" BY ShapeOfIdle
    <2> QED BY <1>3, <1>5, <1>6, <2>1, CalmStep
  <1>7. CASE /\ req[r].pc = "postAct"
             /\ \E call \in req[r].unscreened : req' = [req EXCEPT ![r].unscreened = @ \ {call}]
    <2>0. PICK call \in req[r].unscreened : req' = [req EXCEPT ![r].unscreened = @ \ {call}]
      BY <1>7
    <2> DEFINE rest == req[r].unscreened \ {call}
    <2> DEFINE x == [req[r] EXCEPT !.unscreened = rest]
    <2>1. req' = [req EXCEPT ![r] = x] BY <1>1, <2>0
    <2> HIDE DEF rest
    <2>2. x \in RequestShape(T \union {rest}) /\ x.pc = "postAct" /\ x.kept = {} /\ x.held = NoCall
      BY <1>4, <1>7 DEF RequestShape
    <2> HIDE DEF x
    <2> QED BY <1>3, <1>5, <2>1, <2>2, CalmStep
  <1>8. CASE req[r].pc = "preThink" /\ req' = [req EXCEPT ![r].pc = "upstream"]
    <2> DEFINE x == [req[r] EXCEPT !.pc = "upstream"]
    <2>1. req' = [req EXCEPT ![r] = x] BY <1>1, <1>8
    <2>2. x \in RequestShape(T) /\ x.pc = "upstream" /\ x.kept = {} /\ x.held = NoCall
          /\ x.tick = req[r].tick
      BY <1>4, <1>8 DEF RequestShape
    <2>3. Busy(r) BY <1>8 DEF Busy
    <2> HIDE DEF x
    <2> QED BY <1>3, <1>5, <2>1, <2>2, <2>3, CalmStep
  <1> QED BY <1>6, <1>7, <1>8 DEF PostAct, Finish, PreThink

(* A guardrail throws: the request is over.                                   *)
LEMMA ThrowsStep ==
  ASSUME IInv, NEW r \in Requests, Throws(r)
  PROVE  IInv'
  <1>0. Shape BY DEF IInv
  <1>1. PICK C : conv \in Conversation(C) BY <1>0 DEF Shape
  <1>2. Idle \in RequestShape({<<>>, {}}) /\ Idle.pc = "idle" BY ShapeOfIdle
  <1>3. late' \in BOOLEAN BY <1>0, EmitIsBoolean DEF Throws, Shape
  <1>4. /\ req' = [req EXCEPT ![r] = Idle] /\ conv' = conv /\ ap' = ap /\ given' = given
        /\ pausing' = pausing /\ took \subseteq took'
    BY DEF Throws, Takes
  <1> QED BY <1>1, <1>2, <1>3, <1>4, CalmStep

LEMMA UpstreamStep ==
  ASSUME IInv, NEW r \in Requests, Upstream(r)
  PROVE  IInv'
  <1>0. Shape /\ Judging BY DEF IInv
  <1>1. PICK T : req \in [Requests -> RequestShape(T)] BY <1>0 DEF Shape
  <1>2. PICK C : conv \in Conversation(C) BY <1>0 DEF Shape
  <1>3. /\ pausing' = pausing /\ took' = took /\ req[r].pc = "upstream" /\ Busy(r)
        /\ late' \in BOOLEAN
    BY <1>0, EmitIsBoolean DEF Upstream, Shape, Busy
  <1>4. /\ req[r] \in RequestShape(T) /\ req[r].kept = {} /\ req[r].held = NoCall
        /\ req[r].tick \in Nat
    BY <1>0, <1>1, <1>3 DEF Judging, RequestShape
  <1>5. "pauses-in-one-answer" \notin took => \A c \in pausing : c[1] # req[r].tick
    BY <1>3, BusyPauses
  <1>6. CASE req' = [req EXCEPT ![r] = Idle] /\ UNCHANGED <<conv, ap, given>>
    <2>1. Idle \in RequestShape({<<>>, {}}) /\ Idle.pc = "idle" BY ShapeOfIdle
    <2> QED BY <1>2, <1>3, <1>6, <2>1, CalmStep
  <1>7. CASE Reply(r, req[r])
    <2>1. req[r].kept \subseteq CallsOf(req[r].tick) BY <1>4
    <2> QED BY <1>3, <1>4, <1>5, <1>7, <2>1, ReplyStep
  <1>8. CASE \E n \in 1 .. MaxCalls :
               /\ req' = [req EXCEPT ![r].pc = "preAct",
                                     ![r].todo = [i \in 1 .. n |-> <<req[r].tick, i>>]]
               /\ UNCHANGED <<conv, ap, given>>
    <2>1. PICK n \in 1 .. MaxCalls :
            /\ req' = [req EXCEPT ![r].pc = "preAct",
                                  ![r].todo = [i \in 1 .. n |-> <<req[r].tick, i>>]]
            /\ UNCHANGED <<conv, ap, given>>
      BY <1>8
    <2> DEFINE todo == [i \in 1 .. n |-> <<req[r].tick, i>>]
    <2>2. todo \in Seq(CallsOf(req[r].tick)) \ {<<>>}
      <3>1. n \in Nat /\ n >= 1 BY GateAssumption
      <3>2. \A i \in 1 .. n : <<req[r].tick, i>> \in CallsOf(req[r].tick)
        BY <1>4, <3>1 DEF CallsOf
      <3>3. todo \in Seq(CallsOf(req[r].tick)) /\ Len(todo) = n BY <3>1, <3>2
      <3>4. Len(<<>>) = 0 OBVIOUS
      <3> QED BY <3>1, <3>3, <3>4
    <2> DEFINE x == [req[r] EXCEPT !.pc = "preAct", !.todo = todo]
    <2>3. req' = [req EXCEPT ![r] = x] BY <1>1, <2>1
    <2> HIDE DEF todo
    <2>4. /\ x \in RequestShape(T \union {todo}) /\ x.pc = "preAct" /\ x.tick = req[r].tick
          /\ x.kept = {} /\ x.held = NoCall /\ x.todo = todo
      BY <1>4 DEF RequestShape
    <2> HIDE DEF x
    <2> QED BY <1>3, <1>5, <2>1, <2>2, <2>3, <2>4, JudgingStep
  <1> QED BY <1>6, <1>7, <1>8 DEF Upstream

(* The first of a sequence that is not empty is of its set, and so is the rest. *)
LEMMA FirstAndRest ==
  ASSUME NEW S, NEW s \in Seq(S), s # <<>>
  PROVE  Head(s) \in S /\ Tail(s) \in Seq(S)
  OBVIOUS

LEMMA PreActStep ==
  ASSUME IInv, NEW r \in Requests, PreAct(r)
  PROVE  IInv'
  <1>0. Shape /\ Judging BY DEF IInv
  <1>1. PICK T : req \in [Requests -> RequestShape(T)] BY <1>0 DEF Shape
  <1>2. /\ req[r].pc = "preAct" /\ Busy(r) /\ late' \in BOOLEAN
    BY <1>0, EmitIsBoolean DEF PreAct, Busy
  <1> DEFINE t == req[r].tick
  <1>3. /\ req[r] \in RequestShape(T) /\ t \in Nat /\ t \in 1 .. conv.tick
        /\ req[r].kept \subseteq CallsOf(t) /\ req[r].held \in CallsOf(t) \union {NoCall}
        /\ req[r].todo \in Seq(CallsOf(t)) \ {<<>>}
    BY <1>0, <1>1, <1>2 DEF Judging, RequestShape
  <1> DEFINE call == Head(req[r].todo)
  <1>4. PICK verdict \in Verdicts :
          LET q == Judged(req[r], call, verdict)
              pauses == verdict = "pause" /\ Enforcing
          IN /\ pausing' = IF pauses THEN pausing \union {call} ELSE pausing
             /\ Takes(When("pauses-in-one-answer", pauses /\ req[r].held # NoCall))
             /\ IF q.todo = <<>>
                THEN Reply(r, q)
                ELSE req' = [req EXCEPT ![r] = q] /\ UNCHANGED <<conv, ap, given>>
    BY DEF PreAct
  <1> DEFINE q == Judged(req[r], call, verdict)
  <1> DEFINE pauses == verdict = "pause" /\ Enforcing
  <1> DEFINE rest == Tail(req[r].todo)
  <1>5. call \in CallsOf(t) /\ rest \in Seq(CallsOf(t)) /\ call[1] = t /\ call # NoCall
    <2>0. req[r].todo \in Seq(CallsOf(t)) /\ req[r].todo # <<>> BY <1>3
    <2>1. call \in CallsOf(t) /\ rest \in Seq(CallsOf(t)) BY <2>0, FirstAndRest
    <2>2. call[1] = t BY <2>1 DEF CallsOf
    <2>3. NoCall[1] = 0 /\ t # 0 BY <1>3 DEF NoCall
    <2> QED BY <2>1, <2>2, <2>3
  <1>6. q = [req[r] EXCEPT
               !.todo = rest,
               !.kept = IF Trips(verdict) THEN @ ELSE @ \union {call},
               !.held = IF verdict = "pause" /\ Enforcing /\ @ = NoCall THEN call ELSE @,
               !.stopped = @ \/ (Enforcing /\ verdict = "stop-run")]
    BY DEF Judged
  <1> HIDE DEF call, rest, q
  <1>7. /\ q \in RequestShape(T \union {rest}) /\ q.pc = "preAct" /\ q.tick = t /\ q.todo = rest
        /\ q.kept \subseteq CallsOf(t) /\ q.held \in CallsOf(t) \union {NoCall}
        /\ q.held = (IF pauses /\ req[r].held = NoCall THEN call ELSE req[r].held)
    <2> DEFINE kept == IF Trips(verdict) THEN req[r].kept ELSE req[r].kept \union {call}
    <2> DEFINE held == IF pauses /\ req[r].held = NoCall THEN call ELSE req[r].held
    <2> DEFINE stopped == req[r].stopped \/ (Enforcing /\ verdict = "stop-run")
    <2>1. q = [req[r] EXCEPT !.todo = rest, !.kept = kept, !.held = held, !.stopped = stopped]
      BY <1>3, <1>6 DEF RequestShape
    <2>2. /\ kept \subseteq CallsOf(t) /\ held \in CallsOf(t) \union {NoCall}
          /\ CallsOf(t) \subseteq Nat \X Nat /\ held \in Nat \X Nat
      <3>1. CallsOf(t) \subseteq Nat \X Nat BY <1>3 DEF CallsOf
      <3>2. NoCall \in Nat \X Nat BY DEF NoCall
      <3> QED BY <1>3, <1>5, <3>1, <3>2
    <2>3. stopped \in BOOLEAN
      <3>1. req[r].stopped \in BOOLEAN BY <1>3 DEF RequestShape
      <3> QED BY <3>1
    <2> HIDE DEF kept, held, stopped
    <2>4. /\ q \in RequestShape(T \union {rest}) /\ q.pc = "preAct" /\ q.tick = t
          /\ q.todo = rest /\ q.kept = kept /\ q.held = held
      BY <1>2, <1>3, <2>1, <2>2, <2>3 DEF RequestShape
    <2> QED BY <2>2, <2>4 DEF held, kept
  <1>8. /\ took \subseteq took'
        /\ pauses /\ req[r].held # NoCall => "pauses-in-one-answer" \in took'
        /\ pausing' = IF pauses THEN pausing \union {call} ELSE pausing
    BY <1>4 DEF Takes, When
  <1>9. \A c \in pausing' \ pausing : c \in CallsOf(t) /\ c[1] = t
    BY <1>5, <1>8
  <1>10. ASSUME "pauses-in-one-answer" \notin took', NEW c \in pausing', c[1] = t
         PROVE  q.held = c
    <2>1. CASE c \in pausing
      <3>1. req[r].held = c BY <1>2, <1>8, <1>10, <2>1, BusyPauses
      <3>2. c # NoCall
        <4>1. NoCall[1] = 0 /\ t # 0 BY <1>3 DEF NoCall
        <4> QED BY <1>10, <4>1
      <3> QED BY <1>7, <3>1, <3>2
    <2>2. CASE c \notin pausing
      <3>1. c = call /\ pauses BY <1>8, <1>10, <2>2
      <3>2. req[r].held = NoCall BY <1>8, <1>10, <3>1
      <3> QED BY <1>7, <3>1, <3>2
    <2> QED BY <2>1, <2>2
  <1> HIDE DEF pauses
  <1>11. CASE q.todo = <<>>
    <2>1. Reply(r, q) BY <1>4, <1>11 DEF q, pauses
    <2> QED BY <1>2, <1>7, <1>8, <1>9, <1>10, <2>1, ReplyStep
  <1>12. CASE q.todo # <<>>
    <2>1. req' = [req EXCEPT ![r] = q] /\ conv' = conv /\ ap' = ap /\ given' = given
      BY <1>4, <1>12 DEF q, pauses
    <2>2. q.todo \in Seq(CallsOf(q.tick)) \ {<<>>} BY <1>5, <1>7, <1>12
    <2> QED BY <1>2, <1>7, <1>8, <1>9, <1>10, <2>1, <2>2, JudgingStep
  <1> QED BY <1>11, <1>12

LEMMA NextInv == IInv /\ [Next]_vars => IInv'
  <1> SUFFICES ASSUME IInv, [Next]_vars PROVE IInv'
    OBVIOUS
  <1>1. CASE Next
    BY <1>1, BeginStep, RequestSteps, ComposeStep, UpstreamStep, PreActStep, ThrowsStep,
       ApproveAndRedeem
       DEF Next, Step
  <1>2. CASE UNCHANGED vars
    BY <1>2 DEF vars, convVars, history, IInv, Shape, Judging, OneTurnEach, GivenAfterwards,
                HeldAfterwards, PausesAreKept, Paused, TurnBusy, Busy
  <1> QED BY <1>1, <1>2

(* A call that paused is given to the client only when a person said yes to   *)
(* it, however requests, the operator and the end interleave, as long as no   *)
(* answer pauses twice (gate.ts, handle and approve).                         *)
THEOREM APersonSaidYes == Spec => []PersonSaidYes
  BY InitInv, NextInv, InvImpliesPersonSaidYes, PTL DEF Spec

--------------------------------------------------------------------------------
(* The end of the conversation                                                *)

Unless(liberties) == liberties \intersect took = {}

(* What the end of a conversation leaves behind: without an overlap there is  *)
(* one open request and a closed conversation has none; with nothing asked    *)
(* after the end, the one open has not seen it.                               *)
EndInv ==
  /\ Unless({"overlap"}) => \A r, s \in Open : r = s
  /\ Unless({"overlap"}) => (conv.closed => Open = {})
  /\ Unless({"overlap", "call-after-end"}) => (Open # {} => ~conv.finished)
  /\ NothingAfterTheEnd

LEMMA InitEndInv == Init => EndInv
  BY DEF Init, EndInv, Unless, Open, Idle, NothingAfterTheEnd

(* A request that is open goes on, and when the conversation ends by it so    *)
(* does the request.                                                          *)
LEMMA GoesOnStep ==
  ASSUME Shape, EndInv, NEW r \in Open, NEW x, req' = [req EXCEPT ![r] = x],
         took \subseteq took',
         late' = late \/ late' = (late \/ conv.finished),
         x.pc = "idle" \/ (conv'.closed = conv.closed /\ conv'.finished = conv.finished)
  PROVE  EndInv'
  <1>1. PICK T : req \in [Requests -> RequestShape(T)] BY DEF Shape
  <1>2. Open' \subseteq Open /\ (x.pc = "idle" => Open' \subseteq Open \ {r})
    BY <1>1 DEF Open
  <1>3. ASSUME "overlap" \notin took' PROVE /\ \A s, u \in Open' : s = u
                                            /\ conv'.closed => Open' = {}
                                            /\ x.pc = "idle" => Open' = {}
    <2>1. Open = {r} /\ ~conv.closed BY <1>3 DEF EndInv, Unless
    <2> QED BY <1>2, <2>1
  <1>4. ASSUME "overlap" \notin took', "call-after-end" \notin took'
        PROVE  late' = late /\ (Open' # {} => ~conv'.finished)
    <2>1. Open # {} /\ ~conv.finished BY <1>4 DEF EndInv, Unless
    <2>2. late \in BOOLEAN BY DEF Shape
    <2> QED BY <1>3, <1>4, <2>1, <2>2
  <1>5. NothingAfterTheEnd' BY <1>4 DEF EndInv, NothingAfterTheEnd
  <1> QED BY <1>3, <1>4, <1>5 DEF EndInv, Unless

(* A request is begun: not once the conversation is closed.                   *)
LEMMA BeginsEnd ==
  ASSUME Shape, EndInv, NEW r \in Requests, Request(r) \/ End(r)
  PROVE  EndInv'
  <1>1. PICK T : req \in [Requests -> RequestShape(T)] BY DEF Shape
  <1>2. PICK S : conv \in Conversation(S) BY DEF Shape
  <1>3. /\ ~conv.closed /\ late' = late /\ took \subseteq took'
        /\ Open # {} => "overlap" \in took'
        /\ conv.finished => "call-after-end" \in took'
        /\ \E tools \in Messages, ends \in BOOLEAN : Begin(r, tools, ends)
    BY DEF Request, NewTurn, End, Takes, When
  <1>4. Open' \subseteq Open \union {r} BY <1>1, <1>3 DEF Begin, Open
  <1>5. conv'.closed = conv.closed /\ conv'.finished = conv.finished
    BY <1>2, <1>3 DEF Begin, Conversation
  <1>6. NothingAfterTheEnd' BY <1>3 DEF EndInv, NothingAfterTheEnd
  <1> QED BY <1>3, <1>4, <1>5, <1>6 DEF EndInv, Unless

(* The operator's answer, or its being fetched, opens no request.             *)
LEMMA OperatorEnd ==
  ASSUME Shape, EndInv, NEW t \in Turns, Redeem(t) \/ Approve(t)
  PROVE  EndInv'
  <1>1. PICK S : conv \in Conversation(S) BY DEF Shape
  <1>2. late \in BOOLEAN /\ Open' = Open BY DEF Shape, Redeem, Approve, Open
  <1>3. conv'.closed = conv.closed /\ conv'.finished = conv.finished
    BY <1>1 DEF Redeem, Approve, Conversation
  <1>4. took \subseteq took' BY DEF Redeem, Approve, Takes
  <1>5. late' = late \/ (late' = (late \/ conv.finished)
                         /\ (conv.finished => "answer-after-finish" \in took'))
    BY DEF Redeem, Approve, Takes, When, Emit
  <1>6. NothingAfterTheEnd' BY <1>2, <1>4, <1>5 DEF EndInv, NothingAfterTheEnd
  <1> QED BY <1>2, <1>3, <1>4, <1>6 DEF EndInv, Unless

(* A step of a request takes one that is open.                                *)
Goes(r) == Step(r) \/ Upstream(r) \/ Throws(r)

LEMMA StepsGoOn ==
  ASSUME Shape, NEW r \in Requests, Goes(r)
  PROVE  /\ r \in Open /\ took \subseteq took'
         /\ late' = late \/ late' = (late \/ conv.finished)
         /\ \E x : /\ req' = [req EXCEPT ![r] = x]
                   /\ x.pc = "idle" \/ (conv'.closed = conv.closed
                                        /\ conv'.finished = conv.finished)
  <1>1. PICK T : req \in [Requests -> RequestShape(T)] BY DEF Shape
  <1>2. PICK S : conv \in Conversation(S) BY DEF Shape
  <1>3. Idle.pc = "idle" BY DEF Idle
  <1>4. r \in Open BY DEF Goes, Step, PostAct, Finish, Compose, PreThink, Upstream, PreAct, Throws, Open
  <1>5. late' = late \/ late' = (late \/ conv.finished)
    BY DEF Goes, Step, PostAct, Finish, Compose, PreThink, Upstream, PreAct, Throws, Emit, history
  <1>6. took \subseteq took'
    BY DEF Goes, Step, PostAct, Finish, Compose, PreThink, Upstream, PreAct, Throws, history, Takes
  <1>7. \E x : /\ req' = [req EXCEPT ![r] = x]
               /\ x.pc = "idle" \/ (conv'.closed = conv.closed
                                    /\ conv'.finished = conv.finished)
    <2>1. CASE PostAct(r)
      <3>1. \/ \E x : req' = [req EXCEPT ![r] = x] /\ conv' = conv
            \/ req' = [req EXCEPT ![r] = Idle]
        BY <2>1, <1>1 DEF PostAct
      <3> QED BY <1>3, <3>1
    <2>2. CASE Finish(r) BY <1>3, <2>2 DEF Finish
    <2>3. CASE Compose(r)
      <3>1. conv'.closed = conv.closed /\ conv'.finished = conv.finished
        BY <1>2, <2>3 DEF Compose, Conversation
      <3>2. req' = [req EXCEPT ![r] = [req[r] EXCEPT !.pc = "preThink", !.tick = conv.tick + 1]]
        BY <2>3 DEF Compose
      <3> QED BY <3>1, <3>2
    <2>4. CASE PreThink(r)
      <3>1. PICK verdict \in Verdicts :
              IF Trips(verdict)
              THEN req' = [req EXCEPT ![r] = Idle]
              ELSE req' = [req EXCEPT ![r].pc = "upstream"] /\ conv' = conv
        BY <2>4 DEF PreThink
      <3>2. CASE Trips(verdict) BY <1>3, <3>1, <3>2
      <3>3. CASE ~Trips(verdict)
        <4>1. req' = [req EXCEPT ![r] = [req[r] EXCEPT !.pc = "upstream"]] /\ conv' = conv
          BY <3>1, <3>3
        <4> QED BY <4>1
      <3> QED BY <3>2, <3>3
    <2>5. CASE Upstream(r)
      <3>1. CASE req' = [req EXCEPT ![r] = Idle] BY <1>3, <3>1
      <3>2. CASE \E n \in 1 .. MaxCalls :
                   /\ req' = [req EXCEPT ![r].pc = "preAct",
                                         ![r].todo = [i \in 1 .. n |-> <<req[r].tick, i>>]]
                   /\ conv' = conv
        <4>1. PICK n \in 1 .. MaxCalls :
                   /\ req' = [req EXCEPT ![r].pc = "preAct",
                                         ![r].todo = [i \in 1 .. n |-> <<req[r].tick, i>>]]
                   /\ conv' = conv
          BY <3>2
        <4> DEFINE todo == [i \in 1 .. n |-> <<req[r].tick, i>>]
        <4> HIDE DEF todo
        <4>2. req' = [req EXCEPT ![r] = [req[r] EXCEPT !.pc = "preAct", !.todo = todo]]
          BY <4>1 DEF todo
        <4> QED BY <4>1, <4>2
      <3> QED BY <2>5, <3>1, <3>2 DEF Upstream, Reply
    <2>6. CASE PreAct(r)
      <3>1. \/ req' = [req EXCEPT ![r] = Idle]
            \/ \E q : req' = [req EXCEPT ![r] = q] /\ conv' = conv
        BY <2>6 DEF PreAct, Reply
      <3> QED BY <1>3, <3>1
    <2>7. CASE Throws(r) BY <1>3, <2>7 DEF Throws
    <2> QED BY <2>1, <2>2, <2>3, <2>4, <2>5, <2>6, <2>7 DEF Goes, Step
  <1> QED BY <1>4, <1>5, <1>6, <1>7

LEMMA NextEndInv == Shape /\ EndInv /\ [Next]_vars => EndInv'
  <1> SUFFICES ASSUME Shape, EndInv, [Next]_vars PROVE EndInv'
    OBVIOUS
  <1>1. ASSUME NEW r \in Requests, Goes(r) PROVE EndInv'
    <2>1. PICK x : /\ req' = [req EXCEPT ![r] = x]
                   /\ x.pc = "idle" \/ (conv'.closed = conv.closed
                                        /\ conv'.finished = conv.finished)
      BY <1>1, StepsGoOn
    <2>2. /\ r \in Open /\ took \subseteq took'
          /\ late' = late \/ late' = (late \/ conv.finished)
      BY <1>1, StepsGoOn
    <2> QED BY <2>1, <2>2, GoesOnStep
  <1>2. CASE UNCHANGED vars
    BY <1>2 DEF vars, convVars, history, EndInv, Unless, Open, NothingAfterTheEnd
  <1> QED BY <1>1, <1>2, BeginsEnd, OperatorEnd DEF Next, Goes

(* run.finished is the last event of the trace, when no request overlaps      *)
(* another or follows the end and the operator answers before it (gate.ts,    *)
(* emit and finish).                                                          *)
THEOREM TheEndIsLast == Spec => []NothingAfterTheEnd
  <1>1. IInv => Shape BY DEF IInv
  <1>2. EndInv => NothingAfterTheEnd BY DEF EndInv
  <1> QED BY <1>1, <1>2, InitInv, NextInv, InitEndInv, NextEndInv, PTL DEF Spec

(* A closed conversation gives the client no call, as long as requests do not *)
(* overlap: only fetching an answer held before it was closed does (gate.ts,  *)
(* handle looks for the closed reply after the approval).                     *)
THEOREM AClosedConversationGivesNothing == Spec => ClosedStaysClosed
  <1>1. ASSUME EndInv, [Next]_vars
        PROVE  [conv.closed /\ {"overlap", "redeem-after-close"} \intersect took' = {}
                  => given' = given]_vars
    <2> SUFFICES ASSUME Next, conv.closed, "overlap" \notin took',
                        "redeem-after-close" \notin took'
                 PROVE  given' = given
      BY <1>1 DEF vars, history
    <2>1. CASE \E r \in Requests : Request(r) \/ End(r)
      BY <2>1 DEF Request, NewTurn, End
    <2>2. CASE \E t \in Turns : Redeem(t) \/ Approve(t)
      BY <2>2 DEF Redeem, Approve, Takes, When
    <2>3. ASSUME NEW r \in Requests, Goes(r) PROVE FALSE
      <3>1. took \subseteq took'
        BY <2>3 DEF Goes, Step, PostAct, Finish, Compose, PreThink, Upstream, PreAct, Throws, history, Takes
      <3>2. r \in Open
        BY <2>3 DEF Goes, Step, PostAct, Finish, Compose, PreThink, Upstream, PreAct, Throws, Open
      <3> QED BY <1>1, <3>1, <3>2 DEF EndInv, Unless
    <2> QED BY <2>1, <2>2, <2>3 DEF Next, Goes
  <1>2. IInv => Shape BY DEF IInv
  <1> QED BY <1>1, <1>2, InitInv, NextInv, InitEndInv, NextEndInv, PTL
          DEF Spec, ClosedStaysClosed
--------------------------------------------------------------------------------
(* What the upstream is sent                                                  *)

(* A finite set in some order holds what the set does.                        *)
LEMMA LinedUp ==
  ASSUME NEW S, IsFiniteSet(S)
  PROVE  SetToSeq(S) \in Seq(S) /\ ToSet(SetToSeq(S)) = S
  <1> DEFINE n == Cardinality(S)
  <1> DEFINE D == 1 .. n
  <1> DEFINE f == SetToSeq(S)
  <1>1. n \in Nat /\ ExistsBijection(D, S) BY FS_CardinalityType
  <1>2. \E g \in [D -> S] : IsInjective(g)
    BY <1>1 DEF ExistsBijection, Bijection, Injection
  <1>3. f \in [D -> S] /\ IsInjective(f) BY <1>2 DEF SetToSeq
  <1>4. f \in Injection(D, S) BY <1>3 DEF Injection
  <1>5. IsFiniteSet(D) /\ Cardinality(D) = n
    <2> HIDE DEF n
    <2>1. IsFiniteSet(1 .. n) /\ Cardinality(1 .. n) = IF 1 > n THEN 0 ELSE n - 1 + 1
      BY <1>1, FS_Interval
    <2> QED BY <1>1, <2>1
  <1>6. f \in Surjection(D, S) BY <1>4, <1>5, FS_Injection
  <1> HIDE DEF f, n
  <1>7. f \in Seq(S) /\ DOMAIN f = D BY <1>1, <1>3
  <1>8. \A x \in S : \E i \in D : f[i] = x BY <1>6 DEF Surjection
  <1>9. ToSet(f) = S BY <1>3, <1>7, <1>8 DEF ToSet
  <1> QED BY <1>7, <1>9 DEF f

(* A sequence is followed by another.                                         *)
LEMMA Followed ==
  ASSUME NEW T, NEW s \in Seq(T), NEW u \in Seq(T)
  PROVE  /\ s \o u \in Seq(T) /\ Len(s) \in Nat /\ Len(s \o u) \in Nat
         /\ Len(s) <= Len(s \o u)
         /\ ToSet(s \o u) = ToSet(s) \union ToSet(u)
         /\ \A c \in ToSet(u) : \E i \in Len(s) + 1 .. Len(s \o u) : (s \o u)[i] = c
  <1> DEFINE v == s \o u
  <1>1. /\ Len(s) \in Nat /\ Len(u) \in Nat /\ Len(v) = Len(s) + Len(u) /\ v \in Seq(T)
        /\ DOMAIN s = 1 .. Len(s) /\ DOMAIN u = 1 .. Len(u) /\ DOMAIN v = 1 .. Len(v)
    OBVIOUS
  <1>2. \A i \in 1 .. Len(v) : v[i] = IF i <= Len(s) THEN s[i] ELSE u[i - Len(s)]
    OBVIOUS
  <1> HIDE DEF v
  <1>3. \A j \in 1 .. Len(u) : Len(s) + j \in Len(s) + 1 .. Len(v) /\ v[Len(s) + j] = u[j]
    <2> SUFFICES ASSUME NEW j \in 1 .. Len(u)
                 PROVE  Len(s) + j \in Len(s) + 1 .. Len(v) /\ v[Len(s) + j] = u[j]
      OBVIOUS
    <2>1. Len(s) + j \in Len(s) + 1 .. Len(v) BY <1>1
    <2>2. Len(s) + j \in 1 .. Len(v) /\ ~(Len(s) + j <= Len(s)) /\ Len(s) + j - Len(s) = j
      BY <1>1
    <2>3. v[Len(s) + j] = u[Len(s) + j - Len(s)] BY <1>2, <2>2
    <2> QED BY <2>1, <2>2, <2>3
  <1>4. \A c \in ToSet(u) : \E i \in Len(s) + 1 .. Len(v) : v[i] = c
    BY <1>1, <1>3 DEF ToSet
  <1>5. ToSet(v) = ToSet(s) \union ToSet(u)
    <2>1. ASSUME NEW c \in ToSet(s) PROVE c \in ToSet(v)
      <3>1. PICK i \in 1 .. Len(s) : s[i] = c BY <1>1 DEF ToSet
      <3>2. i \in 1 .. Len(v) /\ i <= Len(s) BY <1>1
      <3>3. v[i] = c BY <1>2, <3>1, <3>2
      <3> QED BY <1>1, <3>2, <3>3 DEF ToSet
    <2>2. ASSUME NEW c \in ToSet(u) PROVE c \in ToSet(v)
      <3>1. PICK i \in Len(s) + 1 .. Len(v) : v[i] = c BY <1>4
      <3>2. i \in 1 .. Len(v) BY <1>1
      <3> QED BY <1>1, <3>1, <3>2 DEF ToSet
    <2>3. ASSUME NEW c \in ToSet(v) PROVE c \in ToSet(s) \union ToSet(u)
      <3>1. PICK i \in 1 .. Len(v) : v[i] = c BY <1>1 DEF ToSet
      <3>2. CASE i <= Len(s)
        <4>1. s[i] = c /\ i \in 1 .. Len(s) BY <1>1, <1>2, <3>1, <3>2
        <4> QED BY <1>1, <4>1 DEF ToSet
      <3>3. CASE ~(i <= Len(s))
        <4>1. u[i - Len(s)] = c BY <1>2, <3>1, <3>3
        <4>2. i - Len(s) \in 1 .. Len(u) BY <1>1, <3>3
        <4> QED BY <1>1, <4>1, <4>2 DEF ToSet
      <3> QED BY <3>2, <3>3
    <2> QED BY <2>1, <2>2, <2>3
  <1> QED BY <1>1, <1>4, <1>5 DEF v

(* The calls told, given, kept or held are finitely many, so that the client  *)
(* can put those it has not answered in an order.                             *)
Sized ==
  /\ told \in Seq(Nat \X Nat) /\ IsFiniteSet(given)
  /\ \A r \in Requests : IsFiniteSet(req[r].kept)
  /\ \A t \in Turns : IsFiniteSet(ap[t].kept)

LEMMA InitSized == Init => Sized
  <1> SUFFICES ASSUME Init PROVE Sized
    OBVIOUS
  <1>1. IsFiniteSet({}) BY FS_EmptySet
  <1>2. Idle.kept = {} /\ NoApproval.kept = {} BY DEF Idle, NoApproval
  <1>3. <<>> \in Seq(Nat \X Nat) OBVIOUS
  <1> QED BY <1>1, <1>2, <1>3 DEF Init, Sized

(* What the client sends is told, then what it has not answered.              *)
LEMMA Answers ==
  ASSUME Shape, Sized, NEW tools \in Messages
  PROVE  /\ tools \in Seq(Nat \X Nat) /\ Len(told) \in Nat /\ Len(tools) \in Nat
         /\ Len(told) <= Len(tools)
         /\ tools = Answered =>
              /\ ToSet(tools) = ToSet(told) \union given
              /\ \A c \in given \ ToSet(told) : \E i \in Len(told) + 1 .. Len(tools) : tools[i] = c
  <1> DEFINE new == given \ ToSet(told)
  <1> DEFINE u == SetToSeq(new)
  <1>1. IsFiniteSet(new)
    <2>1. new \in SUBSET given OBVIOUS
    <2> HIDE DEF new
    <2> QED BY <2>1, FS_Subset DEF Sized
  <1> HIDE DEF new
  <1>2. u \in Seq(new) /\ ToSet(u) = new BY <1>1, LinedUp
  <1>3. u \in Seq(Nat \X Nat)
    <2>1. new \subseteq Nat \X Nat BY DEF new, Shape
    <2> HIDE DEF u
    <2> QED BY <1>2, <2>1
  <1> HIDE DEF u
  <1> DEFINE told2 == told
  <1>4. told2 \in Seq(Nat \X Nat) BY DEF Sized
  <1>5. Answered = told2 \o u BY DEF Answered, u, new
  <1> HIDE DEF told2
  <1>6. /\ Answered \in Seq(Nat \X Nat) /\ Len(told2) \in Nat /\ Len(Answered) \in Nat
        /\ Len(told2) <= Len(Answered)
        /\ ToSet(Answered) = ToSet(told2) \union new
        /\ \A c \in new : \E i \in Len(told2) + 1 .. Len(Answered) : Answered[i] = c
    <2> DEFINE T == Nat \X Nat
    <2> HIDE DEF T
    <2>1. told2 \in Seq(T) /\ u \in Seq(T) BY <1>3, <1>4 DEF T
    <2>2. /\ told2 \o u \in Seq(T) /\ Len(told2) \in Nat /\ Len(told2 \o u) \in Nat
          /\ Len(told2) <= Len(told2 \o u)
          /\ ToSet(told2 \o u) = ToSet(told2) \union ToSet(u)
          /\ \A c \in ToSet(u) :
               \E i \in Len(told2) + 1 .. Len(told2 \o u) : (told2 \o u)[i] = c
      BY <2>1, Followed
    <2> QED BY <1>2, <1>5, <2>2 DEF T
  <1>7. tools = told2 \/ tools = Answered BY DEF Messages, told2
  <1>8. ToSet(told2) \union new = ToSet(told) \union given BY DEF new, told2
  <1>9. Len(told2) <= Len(told2) BY <1>6
  <1> QED BY <1>4, <1>6, <1>7, <1>8, <1>9 DEF told2, new

LEMMA NextSized == Shape /\ HeldAfterwards /\ Sized /\ [Next]_vars => Sized'
  <1> SUFFICES ASSUME Shape, HeldAfterwards, Sized, [Next]_vars PROVE Sized'
    OBVIOUS
  <1>1. PICK T : req \in [Requests -> RequestShape(T)] BY DEF Shape
  <1>2. Idle.kept = {} /\ IsFiniteSet({}) BY FS_EmptySet DEF Idle
  (* A request gets what is finite, and the rest is left.                     *)
  <1>3. ASSUME NEW r \in Requests, NEW x, req' = [req EXCEPT ![r] = x], IsFiniteSet(x.kept),
               told' = told, given' = given, ap' = ap
        PROVE  Sized'
    <2>1. \A s \in Requests : req'[s] = x \/ req'[s] = req[s] BY <1>1, <1>3
    <2> QED BY <1>3, <2>1 DEF Sized
  <1>4. ASSUME NEW r \in Requests, NEW q, Reply(r, q), IsFiniteSet(q.kept), told' = told
        PROVE  Sized'
    <2>1. \A s \in Requests : req'[s] = Idle \/ req'[s] = req[s] BY <1>1, <1>4 DEF Reply
    <2>2. \A s \in Requests : IsFiniteSet(req'[s].kept) BY <1>2, <2>1 DEF Sized
    <2>3. IsFiniteSet(given')
      <3>1. IsFiniteSet(given) /\ IsFiniteSet(given \union q.kept)
        BY <1>4, FS_Union DEF Sized
      <3>2. given' = given \/ given' = given \union q.kept BY <1>4 DEF Reply
      <3> QED BY <3>1, <3>2
    <2> DEFINE a == [status |-> "pending", call |-> q.held, kept |-> q.kept,
                     refused |-> q.kept \ {q.held}]
    <2>4. ap' = ap \/ ap' = [ap EXCEPT ![q.tick] = a] BY <1>4 DEF Reply
    <2>5. \A t \in Turns : ap'[t] = ap[t] \/ ap'[t] = a BY <2>4 DEF Shape
    <2>6. a.kept = q.kept OBVIOUS
    <2> HIDE DEF a
    <2>7. \A t \in Turns : IsFiniteSet(ap'[t].kept) BY <1>4, <2>5, <2>6 DEF Sized
    <2> QED BY <1>4, <2>2, <2>3, <2>7 DEF Sized
  <1>5. ASSUME NEW r \in Requests, Request(r) \/ End(r) PROVE Sized'
    <2>1. PICK tools \in Messages, ends \in BOOLEAN :
            Begin(r, tools, ends) /\ given' = given /\ ap' = ap
      BY <1>5 DEF Request, NewTurn, End
    <2>2. told' \in Seq(Nat \X Nat) BY <2>1, Answers DEF Begin
    <2>3. \A s \in Requests : req'[s].kept = {} \/ req'[s] = req[s]
      BY <1>1, <1>2, <2>1 DEF Begin, Idle
    <2> QED BY <1>2, <2>1, <2>2, <2>3 DEF Sized
  <1>6. ASSUME NEW t \in Turns, Redeem(t) \/ Approve(t) PROVE Sized'
    <2>1. told' = told /\ req' = req /\ \A k \in Turns : ap'[k].kept = ap[k].kept
      BY <1>6 DEF Redeem, Approve, Shape, Approval
    <2>2. IsFiniteSet(ap[t].kept) /\ IsFiniteSet(given) BY DEF Sized
    <2>3. CASE Redeem(t)
      <3>1. ap[t].refused \subseteq ap[t].kept BY <2>3 DEF Redeem, HeldAfterwards
      <3>2. IsFiniteSet(ap[t].refused) BY <2>2, <3>1, FS_Subset
      <3>3. IsFiniteSet(given \union ap[t].kept) /\ IsFiniteSet(given \union ap[t].refused)
        BY <2>2, <3>2, FS_Union
      <3>4. given' = given \union ap[t].kept \/ given' = given \union ap[t].refused
        BY <2>3 DEF Redeem
      <3> QED BY <2>1, <3>3, <3>4 DEF Sized
    <2>4. CASE Approve(t)
      <3>1. given' = given BY <2>4 DEF Approve
      <3> QED BY <2>1, <2>2, <3>1 DEF Sized
    <2> QED BY <1>6, <2>3, <2>4
  <1>7. ASSUME NEW r \in Requests, PostAct(r) \/ Finish(r) \/ Compose(r) \/ PreThink(r)
        PROVE  Sized'
    <2>1. told' = told /\ given' = given /\ ap' = ap
      BY <1>7 DEF PostAct, Finish, Compose, PreThink, history
    <2>2. \A s \in Requests : req'[s].kept = req[s].kept \/ req'[s].kept = {}
      <3>1. CASE PostAct(r) BY <1>1, <1>2, <3>1 DEF PostAct, RequestShape
      <3>2. CASE Finish(r) BY <1>1, <1>2, <3>2 DEF Finish, RequestShape
      <3>3. CASE Compose(r) BY <1>1, <1>2, <3>3 DEF Compose, RequestShape
      <3>4. CASE PreThink(r) BY <1>1, <1>2, <3>4 DEF PreThink, RequestShape
      <3> QED BY <1>7, <3>1, <3>2, <3>3, <3>4
    <2> QED BY <1>2, <2>1, <2>2 DEF Sized
  <1>8. ASSUME NEW r \in Requests, Upstream(r) PROVE Sized'
    <2>1. told' = told /\ IsFiniteSet(req[r].kept) BY <1>8 DEF Upstream, Sized
    <2>2. CASE Reply(r, req[r]) BY <1>4, <2>1, <2>2
    <2>4. CASE req' = [req EXCEPT ![r] = Idle] /\ given' = given /\ ap' = ap
      BY <1>2, <1>3, <2>1, <2>4
    <2>5. CASE \E n \in 1 .. MaxCalls :
                 /\ req' = [req EXCEPT ![r].pc = "preAct",
                                       ![r].todo = [i \in 1 .. n |-> <<req[r].tick, i>>]]
                 /\ given' = given /\ ap' = ap
      <3>1. PICK todo : /\ req' = [req EXCEPT ![r].pc = "preAct", ![r].todo = todo]
                        /\ given' = given /\ ap' = ap
        BY <2>5
      <3>2. \A s \in Requests : req'[s].kept = req[s].kept BY <1>1, <3>1 DEF RequestShape
      <3> QED BY <2>1, <3>1, <3>2 DEF Sized
    <2> QED BY <1>8, <2>2, <2>4, <2>5 DEF Upstream
  <1>9. ASSUME NEW r \in Requests, PreAct(r) PROVE Sized'
    <2>1. told' = told /\ IsFiniteSet(req[r].kept) BY <1>9 DEF PreAct, Sized
    <2> DEFINE call == Head(req[r].todo)
    <2>2. PICK verdict \in Verdicts :
            \/ Reply(r, Judged(req[r], call, verdict))
            \/ /\ req' = [req EXCEPT ![r] = Judged(req[r], call, verdict)]
               /\ given' = given /\ ap' = ap
      BY <1>9 DEF PreAct
    <2>3. \/ Judged(req[r], call, verdict).kept = req[r].kept
          \/ Judged(req[r], call, verdict).kept = req[r].kept \union {call}
      BY <1>1 DEF Judged, RequestShape
    <2>4. IsFiniteSet(req[r].kept \union {call}) BY <2>1, FS_AddElement
    <2>5. IsFiniteSet(Judged(req[r], call, verdict).kept) BY <2>1, <2>3, <2>4
    <2> DEFINE q == Judged(req[r], call, verdict)
    <2>6. Reply(r, q) \/ (req' = [req EXCEPT ![r] = q] /\ given' = given /\ ap' = ap)
      BY <2>2
    <2>7. IsFiniteSet(q.kept) BY <2>5
    <2> HIDE DEF call, q
    <2>8. CASE Reply(r, q) BY <1>4, <2>1, <2>7, <2>8
    <2>9. CASE req' = [req EXCEPT ![r] = q] /\ given' = given /\ ap' = ap
      BY <1>3, <2>1, <2>7, <2>9
    <2> QED BY <2>6, <2>8, <2>9
  <1>10. CASE UNCHANGED vars BY <1>10 DEF vars, convVars, history, Sized
  <1>11. ASSUME NEW r \in Requests, Throws(r) PROVE Sized'
    BY <1>2, <1>3, <1>11 DEF Throws
  <1> QED BY <1>5, <1>6, <1>7, <1>8, <1>9, <1>10, <1>11 DEF Next, Step

(* The users who keep to the round trip that post-act counts on.              *)
Prompt == Unless({"overlap", "ahead-of-answers", "call-after-end", "post-act-throws"})

(* The conversation goes on: it is not over, nor is its end under way.        *)
Live == ~conv.closed /\ ~conv.finished /\ \A r \in Open : ~req[r].ends

(* Between requests: what the client has sent was screened, and what it has   *)
(* been given since, or may still fetch, is what post-act will look for.      *)
AtRest ==
  /\ ToSet(told) \subseteq screened
  /\ given \ ToSet(told) \subseteq conv.pending.calls
  /\ given \subseteq ToSet(told) \/ conv.pending.tick # 0
  /\ \A t \in Waiting :
       /\ t = conv.pending.tick
       /\ (IF ap[t].status = "denied" THEN ap[t].refused ELSE ap[t].kept)
            \subseteq conv.pending.calls

(* While a request is open: what the client has sent was screened, or is      *)
(* about to be, and it has nothing it has not sent.                           *)
UnderWay(r) ==
  /\ given \subseteq ToSet(told) /\ Waiting = {}
  /\ ToSet(told) \subseteq
       screened \union (IF req[r].pc = "postAct" THEN req[r].unscreened ELSE {})

ScreenInv ==
  /\ \A r \in Open : req[r].ends => req[r].pc = "postAct"
  /\ Prompt =>
       /\ conv.seen \in 0 .. Len(told) /\ seenAbove \subseteq screened
       /\ \A r \in Open : req[r].tools = told
       /\ Live /\ Open = {} => AtRest
       /\ Live => \A r \in Open : UnderWay(r)

LEMMA InitScreenInv == Init => ScreenInv
  <1> SUFFICES ASSUME Init PROVE ScreenInv
    OBVIOUS
  <1>1. Open = {} BY DEF Init, Open, Idle
  <1>2. ToSet(told) = {} /\ given = {} BY DEF Init, ToSet
  <1>3. Waiting = {} BY DEF Init, Waiting, NoApproval
  <1>4. conv.seen \in 0 .. Len(told) BY DEF Init
  <1> QED BY <1>1, <1>2, <1>3, <1>4 DEF Init, ScreenInv, AtRest

(* Who keeps to the round trip has one request open, and none of a            *)
(* conversation that is over.                                                 *)
LEMMA OneOpen ==
  ASSUME EndInv, Prompt, NEW r \in Open
  PROVE  Open = {r} /\ ~conv.closed /\ ~conv.finished /\ (Live <=> ~req[r].ends)
  BY DEF EndInv, Unless, Prompt, Live

LEMMA PromptBefore == ASSUME took \subseteq took', Prompt' PROVE Prompt
  BY DEF Prompt, Unless

(* A request is over, by a reply that gives nothing.                          *)
LEMMA OverStep ==
  ASSUME Shape, EndInv, ScreenInv, NEW r \in Open, req' = [req EXCEPT ![r] = Idle],
         told' = told, given' = given, ap' = ap, seenAbove' = seenAbove, took \subseteq took',
         screened \subseteq screened', conv'.seen = conv.seen, conv'.pending = conv.pending,
         conv'.closed \/ conv'.finished \/ req[r].pc # "postAct" \/ ~Prompt',
         conv.closed => conv'.closed, conv.finished => conv'.finished
  PROVE  ScreenInv'
  <1>1. PICK T : req \in [Requests -> RequestShape(T)] BY DEF Shape
  <1>2. Open' = Open \ {r} /\ \A s \in Open' : req'[s] = req[s]
    BY <1>1 DEF Open, Idle
  <1>3. (\A s \in Open : req[s].ends => req[s].pc = "postAct")' BY <1>2 DEF ScreenInv
  <1> SUFFICES ASSUME Prompt'
               PROVE  (/\ conv.seen \in 0 .. Len(told) /\ seenAbove \subseteq screened
                       /\ \A s \in Open : req[s].tools = told
                       /\ Live /\ Open = {} => AtRest
                       /\ Live => \A s \in Open : UnderWay(s))'
    BY <1>3 DEF ScreenInv
  <1>4. Prompt BY PromptBefore
  <1>5. Open' = {} BY <1>2, <1>4, OneOpen
  <1>6. ASSUME Live' PROVE AtRest'
    <2>1. ~conv'.closed /\ ~conv'.finished BY <1>6 DEF Live
    <2>2. Live /\ UnderWay(r) /\ req[r].pc # "postAct"
      BY <1>4, <2>1, OneOpen DEF ScreenInv
    <2>3. Waiting' = {} BY <2>2 DEF UnderWay, Waiting
    <2>4. ToSet(told) \subseteq screened /\ given \subseteq ToSet(told) BY <2>2 DEF UnderWay
    <2> QED BY <2>3, <2>4 DEF AtRest
  <1> QED BY <1>4, <1>5, <1>6 DEF ScreenInv

(* A request goes on.                                                         *)
LEMMA OnwardStep ==
  ASSUME Shape, EndInv, ScreenInv, NEW r \in Open, NEW x, req' = [req EXCEPT ![r] = x],
         x.pc # "idle", x.ends = req[r].ends, x.tools = req[r].tools,
         x.ends => x.pc = "postAct",
         told' = told, given' = given, ap' = ap, took \subseteq took',
         screened \subseteq screened', conv'.seen \in {conv.seen, Len(req[r].tools)},
         conv'.closed = conv.closed, conv'.finished = conv.finished,
         seenAbove' \subseteq seenAbove \union (IF req[r].pc = "postAct" THEN {} ELSE ToSet(req[r].tools)),
         IF x.pc = "postAct"
         THEN /\ req[r].pc = "postAct"
              /\ req[r].unscreened \subseteq screened' \union x.unscreened
         ELSE req[r].pc = "postAct" => req[r].unscreened = {}
  PROVE  ScreenInv'
  <1>1. PICK T : req \in [Requests -> RequestShape(T)] BY DEF Shape
  <1>2. Open' = Open /\ req'[r] = x /\ \A s \in Open \ {r} : req'[s] = req[s]
    BY <1>1 DEF Open
  <1>3. (\A s \in Open : req[s].ends => req[s].pc = "postAct")' BY <1>2 DEF ScreenInv
  <1> SUFFICES ASSUME Prompt'
               PROVE  (/\ conv.seen \in 0 .. Len(told) /\ seenAbove \subseteq screened
                       /\ \A s \in Open : req[s].tools = told
                       /\ Live /\ Open = {} => AtRest
                       /\ Live => \A s \in Open : UnderWay(s))'
    BY <1>3 DEF ScreenInv
  <1>4. Prompt BY PromptBefore
  <1>5. Open = {r} /\ req[r].tools = told /\ (Live <=> ~req[r].ends)
    BY <1>4, OneOpen DEF ScreenInv
  <1>6. conv'.seen \in 0 .. Len(told')
    <2>1. conv.seen \in 0 .. Len(told) BY <1>4 DEF ScreenInv
    <2>2. Len(told) \in Nat BY <2>1
    <2> QED BY <1>5, <2>1, <2>2
  <1>7. \A s \in Open' : req'[s].tools = told' BY <1>2, <1>5
  <1>8. Live' => Live BY <1>2, <1>5 DEF Live
  <1>9. Live => UnderWay(r) BY <1>4 DEF ScreenInv
  <1>10. seenAbove' \subseteq screened'
    <2>1. seenAbove \subseteq screened BY <1>4 DEF ScreenInv
    <2>2. CASE req[r].pc = "postAct" BY <2>1, <2>2
    <2>3. CASE req[r].pc # "postAct"
      <3>1. ~req[r].ends BY <2>3 DEF ScreenInv
      <3>2. ToSet(told) \subseteq screened BY <1>5, <1>9, <2>3, <3>1 DEF UnderWay
      <3> QED BY <1>5, <2>1, <2>3, <3>2
    <2> QED BY <2>2, <2>3
  <1>11. ASSUME Live' PROVE UnderWay(r)'
    <2>1. UnderWay(r) BY <1>8, <1>9, <1>11
    <2>2. Waiting' = {} BY <2>1 DEF UnderWay, Waiting
    <2>3. ToSet(told) \subseteq screened' \union (IF x.pc = "postAct" THEN x.unscreened ELSE {})
      BY <2>1 DEF UnderWay
    <2> QED BY <1>2, <2>1, <2>2, <2>3 DEF UnderWay
  <1> QED BY <1>2, <1>5, <1>6, <1>7, <1>10, <1>11

(* A request is begun: post-act is to look for all the client was given.      *)
LEMMA AsksStep ==
  ASSUME Shape, Sized, EndInv, ScreenInv, NEW r \in Requests, Request(r) \/ End(r)
  PROVE  ScreenInv'
  <1>1. PICK T : req \in [Requests -> RequestShape(T)] BY DEF Shape
  <1>2. PICK S : conv \in Conversation(S) BY DEF Shape
  <1>3. PICK tools \in Messages, ends \in BOOLEAN :
          /\ Begin(r, tools, ends) /\ took \subseteq took'
          /\ Open # {} => "overlap" \in took'
          /\ conv.finished => "call-after-end" \in took'
          /\ ~conv.closed /\ req[r].pc = "idle"
          /\ ends \/ /\ Waiting # {} => "ahead-of-answers" \in took'
                     /\ tools # Answered => "ahead-of-answers" \in took'
    <2>1. CASE Request(r)
      <3>1. PICK tools \in Messages :
              /\ Takes(When("overlap", Open # {}) \union When("call-after-end", conv.finished)
                       \union When("ahead-of-answers", Waiting # {} \/ tools # Answered))
              /\ Begin(r, tools, FALSE)
        BY <2>1 DEF Request, NewTurn
      <3>2. ~conv.closed /\ req[r].pc = "idle" BY <2>1 DEF Request, NewTurn
      <3>3. /\ took \subseteq took'
            /\ Open # {} => "overlap" \in took'
            /\ conv.finished => "call-after-end" \in took'
            /\ Waiting # {} => "ahead-of-answers" \in took'
            /\ tools # Answered => "ahead-of-answers" \in took'
        BY <3>1 DEF Takes, When
      <3> QED BY <3>1, <3>2, <3>3
    <2>2. CASE End(r) BY <2>2 DEF End, Takes, When
    <2> QED BY <2>1, <2>2
  <1> DEFINE x == [Idle EXCEPT !.pc = "postAct", !.ends = ends, !.tools = tools,
                               !.unscreened = Screening(tools)]
  <1>4. /\ req' = [req EXCEPT ![r] = x] /\ told' = tools
        /\ conv' = IF conv.pending.tick = 0 THEN conv
                   ELSE [conv EXCEPT !.pending = NoPending, !.seen = Len(tools)]
        /\ ap' = ap /\ given' = given /\ screened' = screened /\ seenAbove' = seenAbove
    BY <1>3 DEF Begin, Request, NewTurn, End
  <1>5. /\ x.pc = "postAct" /\ x.ends = ends /\ x.tools = tools
        /\ x.unscreened = Screening(tools)
    BY DEF Idle
  <1> HIDE DEF x
  <1>6. Open' = Open \union {r} /\ req'[r] = x /\ \A s \in Open : req'[s] = req[s]
    BY <1>1, <1>3, <1>4, <1>5 DEF Open
  <1>7. (\A s \in Open : req[s].ends => req[s].pc = "postAct")'
    BY <1>5, <1>6 DEF ScreenInv
  <1> SUFFICES ASSUME Prompt'
               PROVE  (/\ conv.seen \in 0 .. Len(told) /\ seenAbove \subseteq screened
                       /\ \A s \in Open : req[s].tools = told
                       /\ Live /\ Open = {} => AtRest
                       /\ Live => \A s \in Open : UnderWay(s))'
    BY <1>7 DEF ScreenInv
  <1>8. Prompt /\ Open = {} /\ ~conv.finished BY <1>3, PromptBefore DEF Prompt, Unless
  <1>9. conv.seen \in 0 .. Len(told) /\ seenAbove \subseteq screened /\ AtRest
    BY <1>3, <1>8 DEF ScreenInv, Live
  <1>10. /\ Len(told) \in Nat /\ Len(tools) \in Nat /\ Len(told) <= Len(tools)
         /\ tools = Answered =>
              /\ ToSet(tools) = ToSet(told) \union given
              /\ \A c \in given \ ToSet(told) : \E i \in Len(told) + 1 .. Len(tools) : tools[i] = c
    BY Answers
  <1>11. conv'.seen \in 0 .. Len(tools)
    <2>1. conv'.seen = conv.seen \/ conv'.seen = Len(tools) BY <1>2, <1>4 DEF Conversation
    <2> QED BY <1>9, <1>10, <2>1
  <1>12. ASSUME Live' PROVE UnderWay(r)'
    <2>1. ~ends BY <1>5, <1>6, <1>12 DEF Live
    <2>2. Waiting = {} /\ tools = Answered BY <1>3, <2>1 DEF Prompt, Unless
    <2>3. Waiting' = {} BY <1>4, <2>2 DEF Waiting
    <2>4. \A c \in given \ ToSet(told) : c \in Screening(tools)
      <3> SUFFICES ASSUME NEW c \in given \ ToSet(told) PROVE c \in Screening(tools)
        OBVIOUS
      <3>1. PICK i \in Len(told) + 1 .. Len(tools) : tools[i] = c BY <1>10, <2>2
      <3>2. i \in conv.seen + 1 .. Len(tools)
        <4>1. conv.seen \in Nat /\ conv.seen <= Len(told) BY <1>9, <1>10
        <4> QED BY <1>10, <4>1
      <3>3. c \in conv.pending.calls /\ conv.pending.tick # 0 BY <1>9 DEF AtRest
      <3> DEFINE answers == {tools[k] : k \in conv.seen + 1 .. Len(tools)} \intersect conv.pending.calls
      <3>4. c \in answers BY <3>1, <3>2, <3>3
      <3>5. Screening(tools) = answers BY <3>3, <3>4 DEF Screening
      <3> QED BY <3>4, <3>5
    <2>5. ToSet(tools) = ToSet(told) \union given BY <1>10, <2>2
    <2>6. ToSet(told) \subseteq screened BY <1>9 DEF AtRest
    <2>7. ToSet(tools) \subseteq screened \union x.unscreened BY <1>5, <2>4, <2>5, <2>6
    <2>8. given' \subseteq ToSet(told') BY <1>4, <2>5
    <2>9. req'[r].pc = "postAct" /\ req'[r].unscreened = x.unscreened BY <1>5, <1>6
    <2> QED BY <1>4, <2>3, <2>7, <2>8, <2>9 DEF UnderWay
  <1> QED BY <1>4, <1>5, <1>6, <1>8, <1>9, <1>11, <1>12

(* A request is over, by an answer whose calls post-act is to look for next.  *)
LEMMA AnsweredStep ==
  ASSUME Shape, EndInv, ScreenInv, NEW r \in Open, NEW q, Reply(r, q), q.tick # 0,
         req[r].pc # "postAct", told' = told, took \subseteq took', screened' = screened,
         seenAbove' = seenAbove
  PROVE  ScreenInv'
  <1>1. PICK T : req \in [Requests -> RequestShape(T)] BY DEF Shape
  <1>2. PICK S : conv \in Conversation(S) BY DEF Shape
  <1>3. Open' = Open \ {r} /\ \A s \in Open' : req'[s] = req[s]
    BY <1>1 DEF Reply, Open, Idle
  <1>4. (\A s \in Open : req[s].ends => req[s].pc = "postAct")' BY <1>3 DEF ScreenInv
  <1> SUFFICES ASSUME Prompt'
               PROVE  (/\ conv.seen \in 0 .. Len(told) /\ seenAbove \subseteq screened
                       /\ \A s \in Open : req[s].tools = told
                       /\ Live /\ Open = {} => AtRest
                       /\ Live => \A s \in Open : UnderWay(s))'
    BY <1>4 DEF ScreenInv
  <1>5. Prompt BY PromptBefore
  <1>6. Open' = {} /\ Live BY <1>3, <1>5, OneOpen DEF ScreenInv
  <1>7. /\ conv.seen \in 0 .. Len(told) /\ seenAbove \subseteq screened
        /\ given \subseteq ToSet(told) /\ Waiting = {} /\ ToSet(told) \subseteq screened
    BY <1>5, <1>6 DEF ScreenInv, UnderWay
  <1>8. conv'.seen = conv.seen BY <1>2 DEF Reply, Closed, Conversation
  <1>9. ASSUME Live' PROVE AtRest'
    <2>1. ~q.stopped
      <3>1. q.stopped => conv'.closed BY <1>2 DEF Reply, Closed, Conversation
      <3> QED BY <1>9, <3>1 DEF Live
    <2> DEFINE p == [tick |-> q.tick, calls |-> q.kept]
    <2> DEFINE a == [status |-> "pending", call |-> q.held, kept |-> q.kept,
                     refused |-> q.kept \ {q.held}]
    <2>2. /\ conv' = [conv EXCEPT !.pending = p]
          /\ \/ ap' = [ap EXCEPT ![q.tick] = a] /\ given' = given
             \/ ap' = ap /\ given' = given \union q.kept
      BY <2>1 DEF Reply
    <2>3. p.tick = q.tick /\ p.calls = q.kept /\ a.status = "pending" /\ a.kept = q.kept
      OBVIOUS
    <2> HIDE DEF p, a
    <2>4. conv'.pending = p BY <1>2, <2>2 DEF Conversation
    <2>5. \A t \in Waiting' : t = q.tick /\ ap'[t] = a
      <3> SUFFICES ASSUME NEW t \in Waiting' PROVE t = q.tick /\ ap'[t] = a
        OBVIOUS
      <3>1. t \in Turns /\ ap'[t] # ap[t] BY <1>7 DEF Waiting
      <3> QED BY <2>2, <3>1 DEF Shape
    <2>6. given' \ ToSet(told) \subseteq q.kept BY <1>7, <2>2
    <2> QED BY <1>7, <2>3, <2>4, <2>5, <2>6 DEF AtRest
  <1> QED BY <1>6, <1>7, <1>8, <1>9

(* The operator's answer, or its being fetched: what it gives is looked for.  *)
LEMMA OperatorScreen ==
  ASSUME Shape, HeldAfterwards, EndInv, ScreenInv, NEW t \in Turns, Redeem(t) \/ Approve(t)
  PROVE  ScreenInv'
  <1>1. PICK S : conv \in Conversation(S) BY DEF Shape
  <1>2. /\ req' = req /\ told' = told /\ screened' = screened /\ seenAbove' = seenAbove
        /\ took \subseteq took' /\ Open' = Open
    BY DEF Redeem, Approve, Takes, Open
  <1>3. /\ conv'.seen = conv.seen /\ conv'.closed = conv.closed /\ conv'.finished = conv.finished
        /\ conv'.pending.tick = conv.pending.tick
    BY <1>1 DEF Redeem, Approve, Conversation
  <1>4. (\A s \in Open : req[s].ends => req[s].pc = "postAct")' BY <1>2 DEF ScreenInv
  <1> SUFFICES ASSUME Prompt'
               PROVE  (/\ conv.seen \in 0 .. Len(told) /\ seenAbove \subseteq screened
                       /\ \A s \in Open : req[s].tools = told
                       /\ Live /\ Open = {} => AtRest
                       /\ Live => \A s \in Open : UnderWay(s))'
    BY <1>4 DEF ScreenInv
  <1>5. Prompt /\ (Live' <=> Live) BY <1>2, <1>3, PromptBefore DEF Live
  <1>6. t \in Waiting BY DEF Redeem, Approve, Waiting
  <1>7. Live => Open = {} BY <1>5, <1>6 DEF ScreenInv, UnderWay
  <1>8. ASSUME Live PROVE AtRest'
    <2>1. AtRest BY <1>5, <1>7, <1>8 DEF ScreenInv
    <2>2. /\ t = conv.pending.tick /\ t # 0
          /\ (IF ap[t].status = "denied" THEN ap[t].refused ELSE ap[t].kept)
               \subseteq conv.pending.calls
          /\ \A k \in Waiting : k = t
      BY <1>6, <2>1 DEF AtRest, Turns
    <2>3. CASE Redeem(t)
      <3>1. /\ conv' = conv /\ ap[t].status \in {"approved", "denied"}
            /\ given' = given \union IF ap[t].status = "approved" THEN ap[t].kept
                                                                ELSE ap[t].refused
            /\ \A k \in Turns \ {t} : ap'[k] = ap[k]
            /\ ap'[t].status \in {"kept", "refused"}
        BY <2>3 DEF Redeem, Shape, Approval
      <3>2. given' \ ToSet(told) \subseteq conv.pending.calls BY <2>1, <2>2, <3>1 DEF AtRest
      <3>3. Waiting' = {} BY <2>2, <3>1 DEF Waiting
      <3> QED BY <1>2, <2>1, <2>2, <3>1, <3>2, <3>3 DEF AtRest
    <2>4. CASE Approve(t)
      <3>1. /\ given' = given /\ ap[t].status = "pending"
            /\ \A k \in Turns \ {t} : ap'[k] = ap[k]
            /\ ap'[t].kept = ap[t].kept /\ ap'[t].refused = ap[t].refused
        BY <2>4 DEF Approve, Shape, Approval
      <3>2. \A k \in Waiting' : k = t BY <2>2, <3>1 DEF Waiting
      <3>3. /\ ap[t].call \notin given /\ ap[t].refused \subseteq ap[t].kept \ {ap[t].call}
        BY <3>1 DEF HeldAfterwards
      <3>4. CASE ap'[t].status = "approved" /\ conv' = conv
        BY <1>2, <2>1, <2>2, <3>1, <3>2, <3>4 DEF AtRest
      <3>5. CASE /\ ap'[t].status = "denied"
                 /\ conv'.pending.calls = conv.pending.calls \ {ap[t].call}
        <4>1. given' \ ToSet(told) \subseteq conv'.pending.calls
          BY <2>1, <3>1, <3>3, <3>5 DEF AtRest
        <4>2. ap'[t].refused \subseteq conv'.pending.calls BY <2>2, <3>1, <3>3, <3>5
        <4>3. \A k \in Waiting' : k = conv'.pending.tick BY <1>3, <2>2, <3>2
        <4>4. ToSet(told') \subseteq screened' /\ conv'.pending.tick # 0
          BY <1>2, <1>3, <2>1, <2>2 DEF AtRest
        <4> QED BY <1>2, <3>2, <3>5, <4>1, <4>2, <4>3, <4>4 DEF AtRest
      <3>6. \/ ap'[t].status = "approved" /\ conv' = conv
            \/ /\ ap'[t].status = "denied"
               /\ conv'.pending.calls = conv.pending.calls \ {ap[t].call}
        BY <1>1, <2>4 DEF Approve, Shape, Approval, Conversation
      <3> QED BY <3>4, <3>5, <3>6
    <2> QED BY <2>3, <2>4
  <1> QED BY <1>2, <1>3, <1>5, <1>7, <1>8 DEF ScreenInv

(* Every step of a request is one of these.                                   *)
LEMMA RequestScreen ==
  ASSUME IInv, EndInv, ScreenInv, NEW r \in Requests, Goes(r)
  PROVE  ScreenInv'
  <1>0. Shape /\ Judging BY DEF IInv
  <1>1. PICK T : req \in [Requests -> RequestShape(T)] BY <1>0 DEF Shape
  <1>2. PICK S : conv \in Conversation(S) BY <1>0 DEF Shape
  <1>3. /\ r \in Open /\ told' = told /\ req[r] \in RequestShape(T)
        /\ took \subseteq took'
    BY <1>1 DEF Goes, Step, PostAct, Finish, Compose, PreThink, Upstream, PreAct, Throws, Open, history, Takes
  <1>4. req[r].pc # "postAct" => ~req[r].ends BY <1>3 DEF ScreenInv
  <1>5. Closed(conv).closed /\ Closed(conv).finished /\ Closed(conv).seen = conv.seen
        /\ Closed(conv).pending = conv.pending
    BY <1>2 DEF Closed, Conversation
  <1>6. CASE PostAct(r)
    <2>1. PICK call \in req[r].unscreened :
            /\ screened' = screened \union {call}
            /\ \/ /\ req' = [req EXCEPT ![r].unscreened = @ \ {call}]
                  /\ conv' = conv
               \/ /\ conv' = Closed(conv)
                  /\ req' = [req EXCEPT ![r] = Idle]
      BY <1>6 DEF PostAct
    <2>2. ap' = ap /\ given' = given /\ seenAbove' = seenAbove /\ req[r].pc = "postAct"
      BY <1>6 DEF PostAct
    <2>3. CASE conv' = Closed(conv) /\ req' = [req EXCEPT ![r] = Idle]
      BY <1>0, <1>3, <1>5, <2>1, <2>2, <2>3, OverStep
    <2>4. CASE req' = [req EXCEPT ![r].unscreened = @ \ {call}] /\ conv' = conv
      <3> DEFINE x == [req[r] EXCEPT !.unscreened = @ \ {call}]
      <3>1. req' = [req EXCEPT ![r] = x] BY <2>4
      <3>2. /\ x.pc = "postAct" /\ x.ends = req[r].ends /\ x.tools = req[r].tools
            /\ x.unscreened = req[r].unscreened \ {call}
        BY <1>3, <2>2 DEF RequestShape
      <3> HIDE DEF x
      <3> QED BY <1>0, <1>3, <2>1, <2>2, <2>4, <3>1, <3>2, OnwardStep
    <2> QED BY <2>1, <2>3, <2>4
  <1>7. CASE Finish(r)
    <2>1. /\ conv' = [conv EXCEPT !.finished = TRUE]
          /\ req' = [req EXCEPT ![r] = Idle] /\ ap' = ap /\ given' = given
          /\ screened' = screened /\ seenAbove' = seenAbove
      BY <1>7 DEF Finish, history
    <2>2. /\ conv'.finished /\ conv'.closed = conv.closed /\ conv'.seen = conv.seen
          /\ conv'.pending = conv.pending
      BY <1>2, <2>1 DEF Conversation
    <2> QED BY <1>0, <1>3, <2>1, <2>2, OverStep
  <1>8. CASE Compose(r)
    <2> DEFINE x == [req[r] EXCEPT !.pc = "preThink", !.tick = conv.tick + 1]
    <2>1. /\ req' = [req EXCEPT ![r] = x] /\ ap' = ap /\ given' = given
          /\ screened' = screened /\ seenAbove' = seenAbove
          /\ req[r].pc = "postAct" /\ req[r].unscreened = {} /\ ~req[r].ends
          /\ conv' = [conv EXCEPT !.seen = Len(req[r].tools), !.tick = @ + 1]
      BY <1>8 DEF Compose
    <2>2. x.pc = "preThink" /\ x.ends = req[r].ends /\ x.tools = req[r].tools
      BY <1>3 DEF RequestShape
    <2>3. /\ conv'.seen = Len(req[r].tools) /\ conv'.closed = conv.closed
          /\ conv'.finished = conv.finished
      BY <1>2, <2>1 DEF Conversation
    <2> HIDE DEF x
    <2> QED BY <1>0, <1>3, <2>1, <2>2, <2>3, OnwardStep
  <1>9. CASE PreThink(r)
    <2>1. /\ ap' = ap /\ given' = given /\ screened' = screened /\ req[r].pc = "preThink"
      BY <1>9 DEF PreThink
    <2>2. \/ /\ req' = [req EXCEPT ![r] = Idle] /\ seenAbove' = seenAbove
             /\ conv' = conv \/ conv' = Closed(conv)
          \/ /\ req' = [req EXCEPT ![r].pc = "upstream"] /\ conv' = conv
             /\ seenAbove' = seenAbove \union ToSet(req[r].tools)
      BY <1>9 DEF PreThink
    <2>3. CASE /\ req' = [req EXCEPT ![r] = Idle] /\ seenAbove' = seenAbove
               /\ conv' = conv \/ conv' = Closed(conv)
      BY <1>0, <1>3, <1>5, <2>1, <2>3, OverStep
    <2>4. CASE /\ req' = [req EXCEPT ![r].pc = "upstream"] /\ conv' = conv
               /\ seenAbove' = seenAbove \union ToSet(req[r].tools)
      <3> DEFINE x == [req[r] EXCEPT !.pc = "upstream"]
      <3>1. req' = [req EXCEPT ![r] = x] BY <2>4
      <3>2. x.pc = "upstream" /\ x.ends = req[r].ends /\ x.tools = req[r].tools
        BY <1>3 DEF RequestShape
      <3> HIDE DEF x
      <3> QED BY <1>0, <1>3, <1>4, <2>1, <2>4, <3>1, <3>2, OnwardStep
    <2> QED BY <2>2, <2>3, <2>4
  <1>10. req[r].pc \in {"upstream", "preAct"} => req[r].tick # 0
    BY <1>0 DEF Judging, Busy
  <1>11. CASE Upstream(r)
    <2>1. /\ screened' = screened /\ seenAbove' = seenAbove /\ req[r].pc = "upstream"
      BY <1>11 DEF Upstream
    <2>2. CASE req' = [req EXCEPT ![r] = Idle] /\ conv' = conv /\ ap' = ap /\ given' = given
      BY <1>0, <1>3, <2>1, <2>2, OverStep
    <2>3. CASE Reply(r, req[r])
      BY <1>0, <1>3, <1>10, <2>1, <2>3, AnsweredStep
    <2>4. CASE \E n \in 1 .. MaxCalls :
                 /\ req' = [req EXCEPT ![r].pc = "preAct",
                                       ![r].todo = [i \in 1 .. n |-> <<req[r].tick, i>>]]
                 /\ conv' = conv /\ ap' = ap /\ given' = given
      <3>1. PICK todo : /\ req' = [req EXCEPT ![r].pc = "preAct", ![r].todo = todo]
                        /\ conv' = conv /\ ap' = ap /\ given' = given
        BY <2>4
      <3> DEFINE x == [req[r] EXCEPT !.pc = "preAct", !.todo = todo]
      <3>2. req' = [req EXCEPT ![r] = x] BY <3>1
      <3>3. x.pc = "preAct" /\ x.ends = req[r].ends /\ x.tools = req[r].tools
        BY <1>3 DEF RequestShape
      <3> HIDE DEF x
      <3> QED BY <1>0, <1>3, <1>4, <2>1, <3>1, <3>2, <3>3, OnwardStep
    <2> QED BY <1>11, <2>2, <2>3, <2>4 DEF Upstream
  <1>12. CASE PreAct(r)
    <2> DEFINE call == Head(req[r].todo)
    <2>1. /\ screened' = screened /\ seenAbove' = seenAbove /\ req[r].pc = "preAct"
      BY <1>12 DEF PreAct
    <2>2. PICK verdict \in Verdicts :
            \/ Reply(r, Judged(req[r], call, verdict))
            \/ /\ req' = [req EXCEPT ![r] = Judged(req[r], call, verdict)]
               /\ conv' = conv /\ ap' = ap /\ given' = given
      BY <1>12 DEF PreAct
    <2> DEFINE q == Judged(req[r], call, verdict)
    <2>3. /\ q.pc = "preAct" /\ q.ends = req[r].ends /\ q.tools = req[r].tools
          /\ q.tick = req[r].tick
      BY <1>3, <2>1 DEF Judged, RequestShape
    <2>4. \/ Reply(r, q)
          \/ req' = [req EXCEPT ![r] = q] /\ conv' = conv /\ ap' = ap /\ given' = given
      BY <2>2
    <2> HIDE DEF q, call
    <2>5. CASE Reply(r, q)
      BY <1>0, <1>3, <1>10, <2>1, <2>3, <2>5, AnsweredStep
    <2>6. CASE req' = [req EXCEPT ![r] = q] /\ conv' = conv /\ ap' = ap /\ given' = given
      BY <1>0, <1>3, <1>4, <2>1, <2>3, <2>6, OnwardStep
    <2> QED BY <2>4, <2>5, <2>6
  <1>13. CASE Throws(r)
    <2>1. /\ req' = [req EXCEPT ![r] = Idle] /\ ap' = ap /\ given' = given /\ conv' = conv
          /\ screened' = screened /\ seenAbove' = seenAbove
          /\ req[r].pc = "postAct" => "post-act-throws" \in took'
      BY <1>13 DEF Throws, Takes, When
    <2>2. req[r].pc # "postAct" \/ ~Prompt' BY <2>1 DEF Prompt, Unless
    <2> QED BY <1>0, <1>3, <2>1, <2>2, OverStep
  <1> QED BY <1>6, <1>7, <1>8, <1>9, <1>11, <1>12, <1>13 DEF Goes, Step

LEMMA NextScreenInv ==
  IInv /\ Sized /\ EndInv /\ ScreenInv /\ [Next]_vars => ScreenInv'
  <1> SUFFICES ASSUME IInv, Sized, EndInv, ScreenInv, [Next]_vars PROVE ScreenInv'
    OBVIOUS
  <1>0. Shape /\ HeldAfterwards BY DEF IInv
  <1>1. CASE Next
    BY <1>0, <1>1, AsksStep, RequestScreen, OperatorScreen DEF Next, Goes
  <1>2. CASE UNCHANGED vars
    <2>1. /\ conv' = conv /\ req' = req /\ ap' = ap /\ told' = told /\ given' = given
          /\ screened' = screened /\ seenAbove' = seenAbove /\ took' = took
      BY <1>2 DEF vars, convVars, history
    <2>2. Open' = Open /\ Waiting' = Waiting BY <2>1 DEF Open, Waiting
    <2>3. Prompt' = Prompt /\ Live' = Live BY <2>1, <2>2 DEF Prompt, Unless, Live
    <2>4. AtRest' = AtRest /\ \A r : UnderWay(r)' = UnderWay(r)
      BY <2>1, <2>2 DEF AtRest, UnderWay
    <2> QED BY <2>1, <2>2, <2>3, <2>4 DEF ScreenInv
  <1> QED BY <1>1, <1>2

(* The upstream is sent no result that has not been through post-act, in      *)
(* however many turns, when requests do not overlap or follow the end, no     *)
(* turn begins while an answer is held or without a call's result, and no     *)
(* guardrail throws over a result (gate.ts, postAct: it looks for the last    *)
(* turn's calls among the messages not seen before, once).                    *)
THEOREM NothingUnscreenedGoesUp == Spec => []ResultsAreScreened
  <1>1. IInv => Shape /\ HeldAfterwards BY DEF IInv
  <1>2. ScreenInv => ResultsAreScreened
    BY DEF ScreenInv, Prompt, Unless, ResultsAreScreened
  <1> QED BY <1>1, <1>2, InitInv, NextInv, InitEndInv, NextEndInv, InitSized, NextSized,
             InitScreenInv, NextScreenInv, PTL DEF Spec

=============================================================================

---------------------------- MODULE BankDayProofs ----------------------------
(* What a bank day keeps for any number of items, desks and lanes, whatever   *)
(* throws: its figures add up at every moment, and it is a pool of work.  The *)
(* figures need no more than the types; the pool rests on every item being    *)
(* begun once, and on no lane going home while work can still come to it.     *)
EXTENDS BankDay, SequenceTheorems, FiniteSetTheorems, WellFoundedInduction, TLAPS

Names == {"arrivals", "routed", "unrouted"} \union Outcomes

(* What is begun is known by its name, and lanes are at different items.      *)
Apart ==
  /\ \A l \in AtWork : working[l] \in workedIds /\ working[l] \notin ToSet(runs)
  /\ \A k, l \in AtWork : working[k] = working[l] => k = l
  /\ ToSet(runs) \subseteq workedIds
  /\ \A l \in Lanes : lane[l] = "landing" /\ outcome[l] = "handed-off"
                        => Follower[working[l]] # 0

(* A lane goes home when the clock is done and nothing is left.               *)
Gone ==
  /\ (\E l \in Lanes : lane[l] = "returned") => clockDone /\ Drained
  /\ settled \in {"recorded", "rejected"} => clockDone

Books ==
  /\ IsFiniteSet(Queued)
  /\ counts["routed"] = Cardinality(Queued) + Cardinality(AtWork) + Len(runs)
                          + Cardinality(Failed)
  /\ Len(runs) = counts["completed"] + counts["stopped"] + counts["handed-off"]
  /\ counts["routed"] + counts["unrouted"] <= counts["arrivals"]
  /\ counts["arrivals"] + taken <= delivered + counts["routed"] + counts["unrouted"]

--------------------------------------------------------------------------------
(* Sequences and sets                                                         *)

LEMMA Nothing == ToSet(<<>>) = {}
  BY DEF ToSet

LEMMA SetOfAppend ==
  ASSUME NEW S, NEW s \in Seq(S), NEW x \in S
  PROVE  Append(s, x) \in Seq(S) /\ ToSet(Append(s, x)) = ToSet(s) \union {x}
  <1> DEFINE t == Append(s, x)
  <1>1. /\ t \in Seq(S) /\ DOMAIN t = 1 .. Len(s) + 1 /\ DOMAIN s = 1 .. Len(s)
        /\ Len(s) \in Nat /\ t[Len(s) + 1] = x /\ \A i \in 1 .. Len(s) : t[i] = s[i]
    OBVIOUS
  <1> HIDE DEF t
  <1>2. ToSet(t) = ToSet(s) \union {x} BY <1>1 DEF ToSet
  <1> QED BY <1>1, <1>2 DEF t

LEMMA SetOfTail ==
  ASSUME NEW S, NEW s \in Seq(S), s # <<>>
  PROVE  /\ Head(s) \in S /\ Tail(s) \in Seq(S)
         /\ ToSet(s) = {Head(s)} \union ToSet(Tail(s))
  <1> DEFINE t == Tail(s)
  <1>1. /\ t \in Seq(S) /\ DOMAIN t = 1 .. Len(s) - 1 /\ DOMAIN s = 1 .. Len(s)
        /\ Len(s) \in Nat /\ Len(s) >= 1 /\ Head(s) = s[1] /\ Head(s) \in S
        /\ \A i \in 1 .. Len(s) - 1 : t[i] = s[i + 1]
    OBVIOUS
  <1> HIDE DEF t
  <1>2. ASSUME NEW i \in 1 .. Len(s), i # 1 PROVE s[i] \in ToSet(t)
    <2>1. i - 1 \in 1 .. Len(s) - 1 /\ t[i - 1] = s[i] BY <1>1, <1>2
    <2> QED BY <1>1, <2>1 DEF ToSet
  <1>3. ASSUME NEW i \in 1 .. Len(s) - 1 PROVE t[i] \in ToSet(s)
    <2>1. i + 1 \in 1 .. Len(s) /\ t[i] = s[i + 1] BY <1>1, <1>3
    <2> QED BY <1>1, <2>1 DEF ToSet
  <1>4. ToSet(s) = {Head(s)} \union ToSet(t) BY <1>1, <1>2, <1>3 DEF ToSet
  <1> QED BY <1>1, <1>4 DEF t

LEMMA SetOfRemoveAt ==
  ASSUME NEW S, NEW s \in Seq(S), NEW n \in DOMAIN s
  PROVE  /\ s[n] \in S /\ RemoveAt(s, n) \in Seq(S)
         /\ ToSet(s) = {s[n]} \union ToSet(RemoveAt(s, n))
  <1> DEFINE a == SubSeq(s, 1, n - 1)
  <1> DEFINE b == SubSeq(s, n + 1, Len(s))
  <1> DEFINE t == RemoveAt(s, n)
  <1>1. n \in 1 .. Len(s) /\ Len(s) \in Nat /\ DOMAIN s = 1 .. Len(s) /\ s[n] \in S OBVIOUS
  <1>2. /\ a \in Seq(S) /\ Len(a) = n - 1 /\ \A i \in 1 .. n - 1 : a[i] = s[i] BY <1>1
  <1>3. /\ b \in Seq(S) /\ Len(b) = Len(s) - n /\ \A i \in 1 .. Len(s) - n : b[i] = s[n + i]
    BY <1>1
  <1>4. t = a \o b BY DEF RemoveAt
  <1> HIDE DEF a, b, t
  <1>5. /\ t \in Seq(S) /\ Len(t) = Len(s) - 1 /\ DOMAIN t = 1 .. Len(s) - 1
        /\ \A i \in 1 .. Len(s) - 1 : t[i] = IF i < n THEN a[i] ELSE b[i - (n - 1)]
    <2>1. /\ t \in Seq(S) /\ Len(t) = Len(a) + Len(b)
          /\ \A i \in 1 .. Len(a) + Len(b) : t[i] = IF i <= Len(a) THEN a[i] ELSE b[i - Len(a)]
      BY <1>2, <1>3, <1>4, ConcatProperties
    <2>2. Len(a) + Len(b) = Len(s) - 1 BY <1>1, <1>2, <1>3
    <2>3. DOMAIN t = 1 .. Len(s) - 1 BY <2>1, <2>2
    <2>4. \A i \in 1 .. Len(s) - 1 : i <= Len(a) <=> i < n BY <1>1, <1>2
    <2> QED BY <1>2, <2>1, <2>2, <2>3, <2>4
  <1>6. \A i \in 1 .. Len(s) - 1 : t[i] = IF i < n THEN s[i] ELSE s[i + 1]
    <2> SUFFICES ASSUME NEW i \in 1 .. Len(s) - 1
                 PROVE  t[i] = IF i < n THEN s[i] ELSE s[i + 1]
      OBVIOUS
    <2>1. CASE i < n BY <1>1, <1>2, <1>5, <2>1
    <2>2. CASE ~(i < n)
      <3>1. i - (n - 1) \in 1 .. Len(s) - n /\ n + (i - (n - 1)) = i + 1 BY <1>1, <2>2
      <3> QED BY <1>3, <1>5, <2>2, <3>1
    <2> QED BY <2>1, <2>2
  <1>7. ASSUME NEW i \in 1 .. Len(s), i # n PROVE s[i] \in ToSet(t)
    <2>1. CASE i < n
      <3>1. i \in 1 .. Len(s) - 1 /\ t[i] = s[i] BY <1>1, <1>6, <2>1
      <3> QED BY <1>5, <3>1 DEF ToSet
    <2>2. CASE i > n
      <3>1. i - 1 \in 1 .. Len(s) - 1 /\ ~(i - 1 < n) /\ (i - 1) + 1 = i BY <1>1, <2>2
      <3>2. t[i - 1] = s[i] BY <1>6, <3>1
      <3> QED BY <1>5, <3>1, <3>2 DEF ToSet
    <2> QED BY <1>1, <1>7, <2>1, <2>2
  <1>8. ASSUME NEW i \in 1 .. Len(s) - 1 PROVE t[i] \in ToSet(s)
    <2>1. i \in 1 .. Len(s) /\ i + 1 \in 1 .. Len(s) BY <1>1, <1>8
    <2> QED BY <1>1, <1>6, <2>1 DEF ToSet
  <1>9. ToSet(s) = {s[n]} \union ToSet(t) BY <1>1, <1>5, <1>7, <1>8 DEF ToSet
  <1> QED BY <1>1, <1>5, <1>9 DEF t

(* A rearrangement has the same length and the same elements.                 *)
LEMMA SortedIsSame ==
  ASSUME NEW S, NEW s \in Seq(S), NEW t \in Sorted(s)
  PROVE  t \in Seq(S) /\ Len(t) = Len(s) /\ ToSet(t) = ToSet(s)
  <1>1. PICK p \in Bijection(DOMAIN s, DOMAIN s) : t = [n \in DOMAIN s |-> s[p[n]]]
    BY DEF Sorted
  <1>2. p \in [DOMAIN s -> DOMAIN s] /\ \A w \in DOMAIN s : \E v \in DOMAIN s : p[v] = w
    BY DEF Bijection, Injection, Surjection
  <1>3. DOMAIN s = 1 .. Len(s) /\ Len(s) \in Nat /\ \A n \in DOMAIN s : s[n] \in S OBVIOUS
  <1>4. t \in Seq(S) /\ Len(t) = Len(s) /\ DOMAIN t = DOMAIN s
    BY <1>1, <1>2, <1>3, IsASeq
  <1>5. ToSet(t) = ToSet(s) BY <1>1, <1>2, <1>4 DEF ToSet
  <1> QED BY <1>4, <1>5

(* Min is taken of the numbers of a nonempty set, and is one of them.         *)
LEMMA NatMin == ASSUME NEW T \in SUBSET Nat, T # {}
                PROVE  Min(T) \in T
  <1>1. PICK x \in T : \A y \in T : ~ (<<y, x>> \in OpToRel(<, Nat))
    BY NatLessThanWellFounded, WFMin
  <1>2. \A y \in T : ~ (y < x) BY <1>1 DEF OpToRel
  <1>3. \A y \in T : x =< y BY <1>2
  <1> QED BY <1>3 DEF Min

LEMMA ConstantFacts ==
  /\ Arrived \in Nat /\ NDesks \in Nat \ {0} /\ StopAfter \in Nat
  /\ \A i \in 1 .. Arrived : i \in Items
  /\ IsFiniteSet(Items) /\ Items \subseteq Nat \ {0}
  /\ Follower \in [Items -> Items \union {0}]
  /\ DeskOf \in [Lanes -> Desks] /\ IsFiniteSet(Lanes)
  /\ Desks \subseteq Nat \ {0}
  /\ \A d \in Desks : \E l \in Lanes : DeskOf[l] = d
  /\ \A kind : FirstDesk(kind) \in Desks \union {0}
  <1>1. ASSUME NEW kind PROVE FirstDesk(kind) \in Desks \union {0}
    <2> DEFINE takers == {d \in Desks : kind \in DeskKinds[d]}
    <2>1. CASE takers = {} BY <2>1 DEF FirstDesk
    <2>2. CASE takers # {}
      <3>1. takers \in SUBSET Nat BY BankAssumption DEF Desks
      <3>2. Min(takers) \in takers BY <2>2, <3>1, NatMin
      <3> QED BY <2>2, <3>2 DEF FirstDesk
    <2> QED BY <2>1, <2>2
  <1>2. Desks \subseteq Nat \ {0} BY BankAssumption DEF Desks
  <1> QED BY <1>1, <1>2, BankAssumption

LEMMA TallyKeeps ==
  ASSUME counts \in [Names -> Nat], NEW names, counts' = Tally(names)
  PROVE  /\ counts' \in [Names -> Nat]
         /\ \A n \in Names : counts'[n] = counts[n] + IF n \in names THEN 1 ELSE 0
  BY DEF Tally

(* A desk takes the first of the items handed on that it works.               *)
LEMMA FirstHandoff ==
  ASSUME handoffs \in Seq(Items), NEW l \in Lanes, Takes(l) # {}
  PROVE  Min(Takes(l)) \in DOMAIN handoffs
  <1>1. Takes(l) \subseteq DOMAIN handoffs BY DEF Takes
  <1>2. DOMAIN handoffs \subseteq Nat OBVIOUS
  <1>3. Takes(l) \in SUBSET Nat BY <1>1, <1>2
  <1> QED BY <1>1, <1>3, NatMin

(* Waking a lane changes nothing but that it looks again.                     *)
LEMMA WakeKeeps ==
  ASSUME NEW state \in [Lanes -> LaneStates]
  PROVE  /\ Wake(state) \in [Lanes -> LaneStates]
         /\ \A l \in Lanes : \A x \in LaneStates \ {"waiting", "ready"} :
              Wake(state)[l] = x <=> state[l] = x
  BY DEF Wake, LaneStates

LEMMA Woken ==
  ASSUME lane \in [Lanes -> LaneStates], lane' = Wake(lane)
  PROVE  /\ lane' \in [Lanes -> LaneStates]
         /\ AtWork' = AtWork /\ InFlight' = InFlight /\ Failed' = Failed
         /\ \A l \in Lanes : /\ lane'[l] = "landing" <=> lane[l] = "landing"
                             /\ lane'[l] = "returned" <=> lane[l] = "returned"
  <1>1. /\ lane' \in [Lanes -> LaneStates]
        /\ \A l \in Lanes : \A x \in LaneStates \ {"waiting", "ready"} :
             lane'[l] = x <=> lane[l] = x
    BY WakeKeeps
  <1>2. \A l \in Lanes : /\ lane'[l] = "landing" <=> lane[l] = "landing"
                         /\ lane'[l] = "returned" <=> lane[l] = "returned"
                         /\ lane'[l] = "running" <=> lane[l] = "running"
                         /\ lane'[l] = "landed" <=> lane[l] = "landed"
                         /\ lane'[l] = "throwing" <=> lane[l] = "throwing"
                         /\ lane'[l] = "thrown" <=> lane[l] = "thrown"
    BY <1>1 DEF LaneStates
  <1> QED BY <1>1, <1>2 DEF AtWork, InFlight, Failed

(* What one lane's move does to who is at work, in flight and failed.         *)
LEMMA Moved ==
  ASSUME lane \in [Lanes -> LaneStates], NEW l \in Lanes, NEW x \in LaneStates,
         lane' = [lane EXCEPT ![l] = x]
  PROVE  /\ lane' \in [Lanes -> LaneStates]
         /\ lane'[l] = x /\ \A k \in Lanes \ {l} : lane'[k] = lane[k]
         /\ AtWork' = IF x \in {"running", "landing"} THEN AtWork \union {l} ELSE AtWork \ {l}
         /\ InFlight' = IF x \in {"running", "landing", "landed", "throwing"}
                        THEN InFlight \union {l} ELSE InFlight \ {l}
         /\ Failed' = IF x \in {"throwing", "thrown"} THEN Failed \union {l} ELSE Failed \ {l}
  <1>1. /\ lane' \in [Lanes -> LaneStates]
        /\ lane'[l] = x /\ \A k \in Lanes \ {l} : lane'[k] = lane[k]
    OBVIOUS
  <1>2. AtWork' = IF x \in {"running", "landing"} THEN AtWork \union {l} ELSE AtWork \ {l}
    BY <1>1 DEF AtWork
  <1>3. InFlight' = IF x \in {"running", "landing", "landed", "throwing"}
                    THEN InFlight \union {l} ELSE InFlight \ {l}
    BY <1>1 DEF InFlight
  <1>4. Failed' = IF x \in {"throwing", "thrown"} THEN Failed \union {l} ELSE Failed \ {l}
    BY <1>1 DEF Failed
  <1> QED BY <1>1, <1>2, <1>3, <1>4

(* A lane that resumes was landed or throwing, and is awake or thrown.        *)
LEMMA Resumed ==
  ASSUME lane \in [Lanes -> LaneStates], NEW l \in Lanes, Resume(l)
  PROVE  /\ lane' \in [Lanes -> LaneStates]
         /\ AtWork' = AtWork /\ InFlight' = InFlight \ {l} /\ Failed' = Failed
         /\ l \in InFlight
         /\ \A k \in Lanes : /\ lane'[k] = "landing" <=> lane[k] = "landing"
                             /\ lane'[k] = "returned" <=> lane[k] = "returned"
  <1> DEFINE mid == [lane EXCEPT ![l] = IF @ = "landed" THEN "looping" ELSE "thrown"]
  <1>1. /\ mid \in [Lanes -> LaneStates] /\ mid[l] \in {"looping", "thrown"}
        /\ mid[l] = "thrown" <=> lane[l] = "throwing"
        /\ \A k \in Lanes \ {l} : mid[k] = lane[k]
    BY DEF Resume, LaneStates
  <1>2. lane[l] \in {"landed", "throwing"} /\ lane' = Wake(mid) BY DEF Resume
  <1> HIDE DEF mid
  <1>3. /\ lane' \in [Lanes -> LaneStates]
        /\ \A k \in Lanes : \A x \in LaneStates \ {"waiting", "ready"} :
             lane'[k] = x <=> mid[k] = x
    BY <1>1, <1>2, WakeKeeps
  <1>4. \A k \in Lanes : /\ lane'[k] = "landing" <=> mid[k] = "landing"
                         /\ lane'[k] = "returned" <=> mid[k] = "returned"
                         /\ lane'[k] = "running" <=> mid[k] = "running"
                         /\ lane'[k] = "landed" <=> mid[k] = "landed"
                         /\ lane'[k] = "throwing" <=> mid[k] = "throwing"
                         /\ lane'[k] = "thrown" <=> mid[k] = "thrown"
    BY <1>3 DEF LaneStates
  <1>5. AtWork' = AtWork BY <1>1, <1>2, <1>4 DEF AtWork
  <1>6. InFlight' = InFlight \ {l} /\ l \in InFlight BY <1>1, <1>2, <1>4 DEF InFlight
  <1>7. Failed' = Failed BY <1>1, <1>2, <1>4 DEF Failed
  <1> QED BY <1>1, <1>2, <1>3, <1>4, <1>5, <1>6, <1>7

--------------------------------------------------------------------------------
(* What is begun is begun once                                                *)

LEMMA Begun ==
  ASSUME TypeOK, NEW l \in Lanes, NEW item \in Items, lane[l] \in {"ready", "looping"},
         Begin(l, item)
  PROVE  /\ working' \in [Lanes -> Items \union {0}] /\ workedIds' \subseteq Items
         /\ workedIds' = workedIds \union {item}
         /\ working'[l] = item /\ \A k \in Lanes \ {l} : working'[k] = working[k]
         /\ lane' \in [Lanes -> LaneStates] /\ lane'[l] \notin {"landing", "returned"}
         /\ \A k \in Lanes \ {l} : lane'[k] = lane[k]
         /\ l \notin AtWork /\ l \notin Failed /\ l \in InFlight'
         /\ \/ item \notin workedIds /\ AtWork' = AtWork \union {l} /\ Failed' = Failed
            \/ item \in workedIds /\ AtWork' = AtWork /\ Failed' = Failed \union {l}
  <1> DEFINE x == IF item \in workedIds THEN "throwing" ELSE "running"
  <1>1. lane' = [lane EXCEPT ![l] = x] /\ x \in LaneStates BY DEF Begin, LaneStates
  <1>2. lane \in [Lanes -> LaneStates] BY DEF TypeOK
  <1>3. l \notin AtWork /\ l \notin Failed BY DEF AtWork, Failed
  <1>4. /\ working' \in [Lanes -> Items \union {0}] /\ workedIds' \subseteq Items
        /\ workedIds' = workedIds \union {item}
        /\ working'[l] = item /\ \A k \in Lanes \ {l} : working'[k] = working[k]
    BY DEF Begin, TypeOK
  <1>5. x \in {"throwing", "running"} /\ (x = "throwing" <=> item \in workedIds) OBVIOUS
  <1> HIDE DEF x
  <1>6. /\ lane' \in [Lanes -> LaneStates]
        /\ lane'[l] = x /\ \A k \in Lanes \ {l} : lane'[k] = lane[k]
        /\ AtWork' = IF x \in {"running", "landing"} THEN AtWork \union {l} ELSE AtWork \ {l}
        /\ InFlight' = IF x \in {"running", "landing", "landed", "throwing"}
                       THEN InFlight \union {l} ELSE InFlight \ {l}
        /\ Failed' = IF x \in {"throwing", "thrown"} THEN Failed \union {l} ELSE Failed \ {l}
    BY <1>1, <1>2, Moved
  <1>7. CASE x = "throwing" BY <1>3, <1>4, <1>5, <1>6, <1>7
  <1>8. CASE x = "running" BY <1>3, <1>4, <1>5, <1>6, <1>8
  <1> QED BY <1>5, <1>7, <1>8

LEMMA BegunApart ==
  ASSUME TypeOK, Apart, NEW l \in Lanes, NEW item \in Items, lane[l] \in {"ready", "looping"},
         Begin(l, item), UNCHANGED <<runs, outcome>>
  PROVE  Apart'
  <1>1. /\ workedIds' = workedIds \union {item}
        /\ working'[l] = item /\ \A k \in Lanes \ {l} : working'[k] = working[k]
        /\ lane'[l] # "landing" /\ \A k \in Lanes \ {l} : lane'[k] = lane[k]
        /\ l \notin AtWork
        /\ \/ item \notin workedIds /\ AtWork' = AtWork \union {l}
           \/ AtWork' = AtWork
    BY Begun
  <1>2. ToSet(runs') = ToSet(runs) BY DEF ToSet
  <1>3. AtWork \subseteq Lanes BY DEF AtWork
  <1>4. \A k \in AtWork' : working'[k] \in workedIds' /\ working'[k] \notin ToSet(runs')
    BY <1>1, <1>2, <1>3 DEF Apart
  <1>5. \A j, k \in AtWork' : working'[j] = working'[k] => j = k
    BY <1>1, <1>3 DEF Apart
  <1>6. ToSet(runs') \subseteq workedIds' BY <1>1, <1>2 DEF Apart
  <1>7. \A k \in Lanes : lane'[k] = "landing" /\ outcome'[k] = "handed-off"
                           => Follower[working'[k]] # 0
    BY <1>1 DEF Apart
  <1> QED BY <1>4, <1>5, <1>6, <1>7 DEF Apart

(* Apart survives a step that keeps who is at what, and every landing.        *)
LEMMA KeptApart ==
  ASSUME Apart, UNCHANGED <<working, workedIds, outcome>>, ToSet(runs') = ToSet(runs),
         AtWork' \subseteq AtWork,
         \A k \in Lanes : lane'[k] = "landing" => lane[k] = "landing"
  PROVE  Apart'
  BY DEF Apart

LEMMA AtItems ==
  ASSUME TypeOK, Apart
  PROVE  \A l \in AtWork : working[l] \in Items
  BY DEF TypeOK, Apart

LEMMA RunEndsTypesApart ==
  ASSUME TypeOK, Apart, NEW l \in Lanes, RunEnds(l)
  PROVE  TypeOK' /\ Apart'
  <1>1. lane[l] = "running" /\ l \in AtWork BY DEF RunEnds, AtWork
  <1>2. /\ lane' \in [Lanes -> LaneStates]
        /\ lane'[l] = "landing" /\ \A k \in Lanes \ {l} : lane'[k] = lane[k]
        /\ AtWork' = AtWork
    <2>1. lane' = [lane EXCEPT ![l] = "landing"] /\ "landing" \in LaneStates
          /\ lane \in [Lanes -> LaneStates]
      BY DEF RunEnds, LaneStates, TypeOK
    <2>2. /\ lane' \in [Lanes -> LaneStates]
          /\ lane'[l] = "landing" /\ \A k \in Lanes \ {l} : lane'[k] = lane[k]
          /\ AtWork' = IF "landing" \in {"running", "landing"}
                       THEN AtWork \union {l} ELSE AtWork \ {l}
      BY <2>1, Moved
    <2> QED BY <1>1, <2>2
  <1>3. PICK how \in IF Follower[working[l]] = 0 THEN Outcomes \ {"handed-off"} ELSE Outcomes :
          outcome' = [outcome EXCEPT ![l] = how]
    BY DEF RunEnds
  <1>4. how \in Outcomes /\ (how = "handed-off" => Follower[working[l]] # 0) BY <1>3
  <1>5. outcome' \in [Lanes -> Outcomes] /\ outcome'[l] = how
        /\ \A k \in Lanes \ {l} : outcome'[k] = outcome[k]
    BY <1>3, <1>4 DEF TypeOK
  <1>6. UNCHANGED <<working, workedIds, runs>> BY DEF RunEnds
  <1>7. TypeOK' BY <1>2, <1>5 DEF TypeOK, RunEnds
  <1>8. \A k \in Lanes : lane'[k] = "landing" /\ outcome'[k] = "handed-off"
                           => Follower[working'[k]] # 0
    BY <1>2, <1>4, <1>5, <1>6 DEF Apart
  <1>9. ToSet(runs') = ToSet(runs) BY <1>6 DEF ToSet
  <1> QED BY <1>2, <1>6, <1>7, <1>8, <1>9 DEF Apart

LEMMA LandedEffects ==
  ASSUME TypeOK, Apart, NEW l \in Lanes, RunLands(l)
  PROVE  /\ lane' \in [Lanes -> LaneStates] /\ lane'[l] = "landed"
         /\ \A k \in Lanes \ {l} : lane'[k] = lane[k]
         /\ l \in AtWork /\ AtWork' = AtWork \ {l} /\ Failed' = Failed
         /\ l \in InFlight /\ InFlight' = InFlight
         /\ working[l] \in Items /\ runs' \in Seq(Items) /\ Len(runs') = Len(runs) + 1
         /\ ToSet(runs') = ToSet(runs) \union {working[l]}
         /\ outcome[l] = "handed-off" =>
              Follower[working[l]] \in Items /\ HandOn(Follower[working[l]])
         /\ outcome[l] # "handed-off" =>
              counts' = Tally({outcome[l]}) /\ UNCHANGED <<handoffs, ordinal>>
  <1>1. lane[l] = "landing" /\ l \in AtWork /\ l \in InFlight /\ l \notin Failed
    BY DEF RunLands, AtWork, InFlight, Failed
  <1>2. working[l] \in Items BY <1>1, AtItems
  <1>3. lane' = [lane EXCEPT ![l] = "landed"] /\ "landed" \in LaneStates
        /\ lane \in [Lanes -> LaneStates] /\ runs \in Seq(Items)
        /\ runs' = Append(runs, working[l])
    BY DEF RunLands, LaneStates, TypeOK
  <1>4. /\ lane' \in [Lanes -> LaneStates]
        /\ lane'[l] = "landed" /\ \A k \in Lanes \ {l} : lane'[k] = lane[k]
        /\ AtWork' = IF "landed" \in {"running", "landing"} THEN AtWork \union {l} ELSE AtWork \ {l}
        /\ InFlight' = IF "landed" \in {"running", "landing", "landed", "throwing"}
                       THEN InFlight \union {l} ELSE InFlight \ {l}
        /\ Failed' = IF "landed" \in {"throwing", "thrown"} THEN Failed \union {l} ELSE Failed \ {l}
    BY <1>3, Moved
  <1>5. runs' \in Seq(Items) /\ ToSet(runs') = ToSet(runs) \union {working[l]}
    BY <1>2, <1>3, SetOfAppend
  <1>6. Len(runs') = Len(runs) + 1 BY <1>2, <1>3
  <1>7. outcome[l] = "handed-off" =>
          Follower[working[l]] \in Items /\ HandOn(Follower[working[l]])
    BY <1>1, <1>2, ConstantFacts DEF RunLands, Apart
  <1>8. outcome[l] # "handed-off" =>
          counts' = Tally({outcome[l]}) /\ UNCHANGED <<handoffs, ordinal>>
    BY DEF RunLands
  <1> QED BY <1>1, <1>2, <1>4, <1>5, <1>6, <1>7, <1>8

LEMMA HandedOn ==
  ASSUME TypeOK, NEW item \in Items, HandOn(item)
  PROVE  /\ handoffs' \in Seq(Items) /\ ordinal' \in [Items -> Nat]
         /\ ToSet(handoffs') \in {ToSet(handoffs), ToSet(handoffs) \union {item}}
         /\ counts' \in {Tally({"handed-off"}), Tally({"handed-off", "arrivals", "unrouted"})}
  <1>1. counts["handed-off"] \in Nat /\ handoffs \in Seq(Items) BY DEF TypeOK, Outcomes
  <1> DEFINE next == 1000000 + 1 + counts["handed-off"]
  <1>2. next \in Nat /\ ordinal' = [ordinal EXCEPT ![item] = next] BY <1>1, SMT DEF HandOn
  <1> HIDE DEF next
  <1>3. ordinal' \in [Items -> Nat] BY <1>2 DEF TypeOK
  <1>4. \/ handoffs' = Append(handoffs, item) /\ counts' = Tally({"handed-off"})
        \/ handoffs' = handoffs /\ counts' = Tally({"handed-off", "arrivals", "unrouted"})
    BY SMT DEF HandOn
  <1>5. /\ Append(handoffs, item) \in Seq(Items)
        /\ ToSet(Append(handoffs, item)) = ToSet(handoffs) \union {item}
    BY <1>1, SetOfAppend
  <1>6. handoffs' \in Seq(Items) /\ ToSet(handoffs') \in {ToSet(handoffs), ToSet(handoffs) \union {item}}
    BY <1>1, <1>4, <1>5
  <1>7. counts' \in {Tally({"handed-off"}), Tally({"handed-off", "arrivals", "unrouted"})}
    BY <1>4
  <1> QED BY <1>3, <1>6, <1>7

LEMMA RunLandsTypesApart ==
  ASSUME TypeOK, Apart, NEW l \in Lanes, RunLands(l)
  PROVE  TypeOK' /\ Apart'
  <1>1. /\ lane' \in [Lanes -> LaneStates] /\ lane'[l] = "landed"
        /\ \A k \in Lanes \ {l} : lane'[k] = lane[k]
        /\ l \in AtWork /\ AtWork' = AtWork \ {l}
        /\ working[l] \in Items /\ runs' \in Seq(Items)
        /\ ToSet(runs') = ToSet(runs) \union {working[l]}
        /\ outcome[l] = "handed-off" =>
              Follower[working[l]] \in Items /\ HandOn(Follower[working[l]])
        /\ outcome[l] # "handed-off" =>
              counts' = Tally({outcome[l]}) /\ UNCHANGED <<handoffs, ordinal>>
    BY LandedEffects
  <1>2. UNCHANGED <<delivered, clockDone, taken, queue, working, outcome, workedIds, settled>>
    BY DEF RunLands
  <1>3. counts \in [Names -> Nat] BY DEF TypeOK, Names
  <1>4. handoffs' \in Seq(Items) /\ ordinal' \in [Items -> Nat] /\ counts' \in [Names -> Nat]
    <2>1. CASE outcome[l] = "handed-off"
      BY <1>1, <1>3, <2>1, HandedOn, TallyKeeps
    <2>2. CASE outcome[l] # "handed-off"
      BY <1>1, <1>3, <2>2, TallyKeeps DEF TypeOK
    <2> QED BY <2>1, <2>2
  <1>5. TypeOK' BY <1>1, <1>2, <1>4 DEF TypeOK, Names
  <1>6. AtWork \subseteq Lanes BY DEF AtWork
  <1>7. \A k \in AtWork' : working'[k] \in workedIds' /\ working'[k] \notin ToSet(runs')
    BY <1>1, <1>2 DEF Apart
  <1>8. \A j, k \in AtWork' : working'[j] = working'[k] => j = k BY <1>1, <1>2 DEF Apart
  <1>9. ToSet(runs') \subseteq workedIds' BY <1>1, <1>2 DEF Apart
  <1>10. \A k \in Lanes : lane'[k] = "landing" /\ outcome'[k] = "handed-off"
                           => Follower[working'[k]] # 0
    BY <1>1, <1>2 DEF Apart
  <1> QED BY <1>5, <1>7, <1>8, <1>9, <1>10 DEF Apart

LEMMA DeliverTypesApart ==
  ASSUME TypeOK, Apart, Deliver
  PROVE  TypeOK' /\ Apart'
  <1> DEFINE item == delivered + 1
  <1> DEFINE desk == FirstDesk(KindOf[item])
  <1>1. item \in Items /\ delivered' = item /\ item \in 0 .. Arrived
        /\ desk \in Desks \union {0}
    BY ConstantFacts DEF Deliver, TypeOK
  <1>2. UNCHANGED <<clockDone, handoffs, working, outcome, ordinal, workedIds, runs, settled>>
    BY DEF Deliver
  <1>3. counts \in [Names -> Nat] /\ lane \in [Lanes -> LaneStates]
        /\ queue \in [Desks -> Seq(Items)] /\ taken \in 0 .. StopAfter
    BY DEF TypeOK, Names
  <1>4. \/ /\ \E names : counts' = Tally(names)
           /\ UNCHANGED <<taken, queue, lane>>
        \/ /\ taken < StopAfter /\ desk # 0 /\ \E names : counts' = Tally(names)
           /\ taken' = taken + 1 /\ queue' = [queue EXCEPT ![desk] = Append(@, item)]
           /\ lane' = Wake(lane)
    BY DEF Deliver, TakesMore
  <1> HIDE DEF item, desk
  <1>5. counts' \in [Names -> Nat] BY <1>3, <1>4, TallyKeeps
  <1>6. lane' \in [Lanes -> LaneStates] /\ AtWork' = AtWork
        /\ \A k \in Lanes : lane'[k] = "landing" => lane[k] = "landing"
    <2>1. CASE UNCHANGED lane BY <1>3, <2>1 DEF AtWork
    <2>2. CASE lane' = Wake(lane) BY <1>3, <2>2, Woken
    <2> QED BY <1>4, <2>1, <2>2
  <1>7. queue' \in [Desks -> Seq(Items)] /\ taken' \in 0 .. StopAfter
    <2>1. CASE UNCHANGED <<taken, queue>> BY <1>3, <2>1
    <2>2. CASE taken < StopAfter /\ desk # 0 /\ taken' = taken + 1
               /\ queue' = [queue EXCEPT ![desk] = Append(@, item)]
      <3>1. desk \in Desks BY <1>1, <2>2
      <3>2. Append(queue[desk], item) \in Seq(Items) BY <1>1, <1>3, <3>1, SetOfAppend
      <3> QED BY <1>3, <2>2, <3>1, <3>2, ConstantFacts
    <2> QED BY <1>4, <2>1, <2>2
  <1>8. TypeOK' BY <1>1, <1>2, <1>5, <1>6, <1>7 DEF TypeOK, Names
  <1>9. ToSet(runs') = ToSet(runs) BY <1>2 DEF ToSet
  <1>10. Apart' BY <1>2, <1>6, <1>9, KeptApart
  <1> QED BY <1>8, <1>10

LEMMA ClockEndsTypesApart ==
  ASSUME TypeOK, Apart, ClockEnds
  PROVE  TypeOK' /\ Apart'
  <1>1. lane \in [Lanes -> LaneStates] /\ lane' = Wake(lane) BY DEF TypeOK, ClockEnds
  <1>2. lane' \in [Lanes -> LaneStates] /\ AtWork' = AtWork
        /\ \A k \in Lanes : lane'[k] = "landing" => lane[k] = "landing"
    BY <1>1, Woken
  <1>3. TypeOK' BY <1>2 DEF TypeOK, ClockEnds
  <1>4. ToSet(runs') = ToSet(runs) BY DEF ToSet, ClockEnds
  <1>5. UNCHANGED <<working, workedIds, outcome>> BY DEF ClockEnds
  <1> QED BY <1>2, <1>3, <1>4, <1>5, KeptApart

LEMMA SettleRuns ==
  ASSUME TypeOK, Settle
  PROVE  /\ runs' \in Seq(Items) /\ Len(runs') = Len(runs) /\ ToSet(runs') = ToSet(runs)
         /\ settled' \in {"recorded", "rejected"} /\ clockDone /\ settled = "pending"
         /\ UNCHANGED <<delivered, clockDone, taken, queue, handoffs, lane, working, outcome,
                        ordinal, workedIds, counts>>
         /\ settled' = "recorded" => \A l \in Lanes : lane[l] = "returned"
  <1>1. runs \in Seq(Items) BY DEF TypeOK
  <1>2. runs' \in Sorted(runs) \/ runs' = runs BY DEF Settle
  <1>3. runs' \in Seq(Items) /\ Len(runs') = Len(runs) /\ ToSet(runs') = ToSet(runs)
    BY <1>1, <1>2, SortedIsSame
  <1> QED BY <1>3 DEF Settle

LEMMA SettleTypesApart ==
  ASSUME TypeOK, Apart, Settle
  PROVE  TypeOK' /\ Apart'
  <1>1. TypeOK' BY SettleRuns DEF TypeOK
  <1>2. AtWork' = AtWork BY SettleRuns DEF AtWork
  <1> QED BY <1>1, <1>2, SettleRuns, KeptApart

(* What a lane takes from its desk's own queue.                               *)
LEMMA TakenOwn ==
  ASSUME TypeOK, NEW l \in Lanes, TakeOwn(l)
  PROVE  LET d == DeskOf[l]  item == Head(queue[d])
         IN /\ d \in Desks /\ queue[d] \in Seq(Items) /\ queue[d] # <<>> /\ item \in Items
            /\ lane[l] \in {"ready", "looping"} /\ Begin(l, item)
            /\ queue' \in [Desks -> Seq(Items)] /\ queue' = [queue EXCEPT ![d] = Tail(queue[d])]
            /\ ToSet(queue[d]) = {item} \union ToSet(Tail(queue[d]))
  <1> DEFINE d == DeskOf[l]
  <1>1. d \in Desks /\ queue[d] \in Seq(Items) BY ConstantFacts DEF TypeOK
  <1>2. /\ queue[d] # <<>> /\ lane[l] \in {"ready", "looping"} /\ Begin(l, Head(queue[d]))
        /\ queue' = [queue EXCEPT ![d] = Tail(queue[d])]
    BY DEF TakeOwn, Looks
  <1> HIDE DEF d
  <1>3. /\ Head(queue[d]) \in Items /\ Tail(queue[d]) \in Seq(Items)
        /\ ToSet(queue[d]) = {Head(queue[d])} \union ToSet(Tail(queue[d]))
    BY <1>1, <1>2, SetOfTail
  <1>4. queue' \in [Desks -> Seq(Items)] BY <1>2, <1>3 DEF TypeOK
  <1> QED BY <1>1, <1>2, <1>3, <1>4 DEF d

LEMMA TakenHandoff ==
  ASSUME TypeOK, NEW l \in Lanes, TakeHandoff(l)
  PROVE  \E item \in Items :
            /\ lane[l] \in {"ready", "looping"} /\ Begin(l, item) /\ handoffs # <<>>
            /\ handoffs' \in Seq(Items) /\ ToSet(handoffs) = {item} \union ToSet(handoffs')
  <1> DEFINE n == Min(Takes(l))
  <1>1. handoffs \in Seq(Items) /\ Takes(l) # {} BY DEF TakeHandoff, TypeOK
  <1>2. n \in DOMAIN handoffs BY <1>1, FirstHandoff
  <1>3. lane[l] \in {"ready", "looping"} /\ handoffs' = RemoveAt(handoffs, n)
        /\ Begin(l, handoffs[n])
    BY DEF TakeHandoff, Looks
  <1> HIDE DEF n
  <1>4. /\ handoffs[n] \in Items /\ RemoveAt(handoffs, n) \in Seq(Items)
        /\ ToSet(handoffs) = {handoffs[n]} \union ToSet(RemoveAt(handoffs, n))
    BY <1>1, <1>2, SetOfRemoveAt
  <1>5. handoffs # <<>> BY <1>1, <1>2
  <1> QED BY <1>3, <1>4, <1>5

LEMMA TakeTypesApart ==
  ASSUME TypeOK, Apart, NEW l \in Lanes, TakeOwn(l) \/ TakeHandoff(l)
  PROVE  TypeOK' /\ Apart'
  <1>1. UNCHANGED <<delivered, clockDone, taken, outcome, ordinal, runs, settled>>
    BY DEF TakeOwn, TakeHandoff
  <1>2. counts \in [Names -> Nat] BY DEF TypeOK, Names
  <1>3. counts' \in [Names -> Nat]
    <2>1. CASE TakeOwn(l) BY <1>2, <2>1 DEF TakeOwn
    <2>2. CASE TakeHandoff(l)
      <3>1. counts' = Tally({"arrivals", "routed"}) BY <2>2 DEF TakeHandoff
      <3> QED BY <1>2, <3>1, TallyKeeps
    <2> QED BY <2>1, <2>2
  <1>4. /\ queue' \in [Desks -> Seq(Items)] /\ handoffs' \in Seq(Items)
        /\ lane[l] \in {"ready", "looping"} /\ \E item \in Items : Begin(l, item)
    <2>1. CASE TakeOwn(l)
      <3>1. UNCHANGED handoffs BY <2>1 DEF TakeOwn
      <3> QED BY <2>1, <3>1, TakenOwn DEF TypeOK
    <2>2. CASE TakeHandoff(l)
      <3>1. UNCHANGED queue BY <2>2 DEF TakeHandoff
      <3> QED BY <2>2, <3>1, TakenHandoff DEF TypeOK
    <2> QED BY <2>1, <2>2
  <1>5. PICK item \in Items : Begin(l, item) BY <1>4
  <1>6. /\ working' \in [Lanes -> Items \union {0}] /\ workedIds' \subseteq Items
        /\ lane' \in [Lanes -> LaneStates]
    BY <1>4, <1>5, Begun
  <1>7. TypeOK' BY <1>1, <1>3, <1>4, <1>6 DEF TypeOK, Names
  <1>8. Apart' BY <1>1, <1>4, <1>5, BegunApart
  <1> QED BY <1>7, <1>8

(* A lane that finds nothing, or whose run throws, takes up no item.          *)
LEMMA FoundNothing ==
  ASSUME TypeOK, NEW l \in Lanes, FindNothing(l)
  PROVE  /\ lane' \in [Lanes -> LaneStates] /\ lane'[l] \in {"returned", "waiting"}
         /\ lane'[l] = "returned" => clockDone /\ Drained
         /\ \A k \in Lanes \ {l} : lane'[k] = lane[k]
         /\ AtWork' = AtWork /\ InFlight' = InFlight /\ Failed' = Failed
  <1> DEFINE x == IF clockDone /\ Drained THEN "returned" ELSE "waiting"
  <1>1. /\ lane[l] \in {"ready", "looping"} /\ lane' = [lane EXCEPT ![l] = x]
        /\ x \in LaneStates /\ lane \in [Lanes -> LaneStates]
    BY DEF FindNothing, Looks, LaneStates, TypeOK
  <1>2. x \in {"returned", "waiting"} /\ (x = "returned" => clockDone /\ Drained) OBVIOUS
  <1>3. l \notin AtWork /\ l \notin InFlight /\ l \notin Failed
    BY <1>1 DEF AtWork, InFlight, Failed
  <1> HIDE DEF x
  <1>4. /\ lane' \in [Lanes -> LaneStates]
        /\ lane'[l] = x /\ \A k \in Lanes \ {l} : lane'[k] = lane[k]
        /\ AtWork' = IF x \in {"running", "landing"} THEN AtWork \union {l} ELSE AtWork \ {l}
        /\ InFlight' = IF x \in {"running", "landing", "landed", "throwing"}
                       THEN InFlight \union {l} ELSE InFlight \ {l}
        /\ Failed' = IF x \in {"throwing", "thrown"} THEN Failed \union {l} ELSE Failed \ {l}
    BY <1>1, Moved
  <1>5. CASE x = "returned" BY <1>2, <1>3, <1>4, <1>5
  <1>6. CASE x = "waiting" BY <1>2, <1>3, <1>4, <1>6
  <1> QED BY <1>2, <1>5, <1>6

LEMMA Thrown ==
  ASSUME TypeOK, NEW l \in Lanes, Throw(l)
  PROVE  /\ lane' \in [Lanes -> LaneStates] /\ lane'[l] = "throwing"
         /\ \A k \in Lanes \ {l} : lane'[k] = lane[k]
         /\ l \in AtWork /\ AtWork' = AtWork \ {l}
         /\ l \notin Failed /\ Failed' = Failed \union {l}
         /\ l \in InFlight /\ InFlight' = InFlight
  <1>1. /\ lane[l] \in {"running", "landing"} /\ lane' = [lane EXCEPT ![l] = "throwing"]
        /\ "throwing" \in LaneStates /\ lane \in [Lanes -> LaneStates]
    BY DEF Throw, LaneStates, TypeOK
  <1>2. l \in AtWork /\ l \in InFlight /\ l \notin Failed
    BY <1>1 DEF AtWork, InFlight, Failed
  <1>3. /\ lane' \in [Lanes -> LaneStates]
        /\ lane'[l] = "throwing" /\ \A k \in Lanes \ {l} : lane'[k] = lane[k]
        /\ AtWork' = IF "throwing" \in {"running", "landing"}
                     THEN AtWork \union {l} ELSE AtWork \ {l}
        /\ InFlight' = IF "throwing" \in {"running", "landing", "landed", "throwing"}
                       THEN InFlight \union {l} ELSE InFlight \ {l}
        /\ Failed' = IF "throwing" \in {"throwing", "thrown"}
                     THEN Failed \union {l} ELSE Failed \ {l}
    BY <1>1, Moved
  <1> QED BY <1>2, <1>3

LEMMA OtherTypesApart ==
  ASSUME TypeOK, Apart, NEW l \in Lanes, FindNothing(l) \/ Throw(l) \/ Resume(l)
  PROVE  TypeOK' /\ Apart'
  <1>1. UNCHANGED <<delivered, clockDone, taken, queue, handoffs, working, outcome, ordinal,
                    workedIds, counts, runs, settled>>
    BY DEF FindNothing, Throw, Resume
  <1>2. lane' \in [Lanes -> LaneStates] /\ AtWork' \subseteq AtWork
        /\ \A k \in Lanes : lane'[k] = "landing" => lane[k] = "landing"
    <2>1. CASE FindNothing(l) BY <2>1, FoundNothing
    <2>2. CASE Throw(l) BY <2>2, Thrown
    <2>3. CASE Resume(l) BY <2>3, Resumed DEF TypeOK
    <2> QED BY <2>1, <2>2, <2>3
  <1>3. TypeOK' BY <1>1, <1>2 DEF TypeOK
  <1>4. ToSet(runs') = ToSet(runs) BY <1>1 DEF ToSet
  <1> QED BY <1>1, <1>2, <1>3, <1>4, KeptApart

LEMMA InitTypesApart == Init => TypeOK /\ Apart
  <1> SUFFICES ASSUME Init PROVE TypeOK /\ Apart OBVIOUS
  <1>1. AtWork = {} BY DEF Init, AtWork
  <1>2. <<>> \in Seq(Items) OBVIOUS
  <1>3. lane \in [Lanes -> LaneStates] /\ outcome \in [Lanes -> Outcomes]
    BY DEF Init, LaneStates, Outcomes
  <1>4. ordinal \in [Items -> Nat] BY ConstantFacts DEF Init
  <1>5. TypeOK
    <2>1. queue \in [Desks -> Seq(Items)] /\ handoffs \in Seq(Items) /\ runs \in Seq(Items)
      BY <1>2 DEF Init
    <2>2. delivered \in 0 .. Arrived /\ taken \in 0 .. StopAfter BY ConstantFacts DEF Init
    <2>3. working \in [Lanes -> Items \union {0}] BY DEF Init
    <2>4. counts \in [Names -> Nat] BY DEF Init, Names
    <2> QED BY <1>3, <1>4, <2>1, <2>2, <2>3, <2>4 DEF Init, TypeOK, Names
  <1>6. \A l \in Lanes : lane[l] # "landing" BY DEF Init
  <1>7. ToSet(runs) = {} BY Nothing DEF Init
  <1> QED BY <1>1, <1>5, <1>6, <1>7 DEF Apart

LEMMA NextTypesApart == TypeOK /\ Apart /\ [Next]_vars => TypeOK' /\ Apart'
  <1> SUFFICES ASSUME TypeOK, Apart, [Next]_vars PROVE TypeOK' /\ Apart' OBVIOUS
  <1>1. CASE Deliver BY <1>1, DeliverTypesApart
  <1>2. CASE ClockEnds BY <1>2, ClockEndsTypesApart
  <1>3. CASE Settle BY <1>3, SettleTypesApart
  <1>4. ASSUME NEW l \in Lanes, LaneStep(l) \/ Throw(l) PROVE TypeOK' /\ Apart'
    BY <1>4, TakeTypesApart, OtherTypesApart, RunEndsTypesApart, RunLandsTypesApart DEF LaneStep
  <1>5. CASE UNCHANGED vars
    BY <1>5 DEF vars, TypeOK, Apart, AtWork, ToSet
  <1>6. CASE ProcessEnds
    <2>1. TypeOK' BY <1>6 DEF ProcessEnds, TypeOK
    <2>2. Apart' BY <1>6 DEF ProcessEnds, Apart, AtWork, ToSet
    <2> QED BY <2>1, <2>2
  <1> QED BY <1>1, <1>2, <1>3, <1>4, <1>5, <1>6 DEF Next

(* What a day holds is of the type its variables say, whatever throws         *)
(* (runBank(), lane(), workOne() of bank.ts).                                 *)
THEOREM TypeCorrect == Spec => []TypeOK
  <1>1. Init => TypeOK /\ Apart BY InitTypesApart
  <1>2. TypeOK /\ Apart /\ [Next]_vars => TypeOK' /\ Apart' BY NextTypesApart
  <1> QED BY <1>1, <1>2, PTL DEF Spec

--------------------------------------------------------------------------------
(* Nobody goes home early                                                     *)

LEMMA InitGone == Init => Gone
  BY DEF Init, Gone

LEMMA NextGone == TypeOK /\ Apart /\ Gone /\ [Next]_vars => Gone'
  <1> SUFFICES ASSUME TypeOK, Apart, Gone, [Next]_vars PROVE Gone' OBVIOUS
  <1> USE DEF Gone
  <1>0. lane \in [Lanes -> LaneStates] BY DEF TypeOK
  <1>1. CASE Deliver
    <2>1. ~clockDone /\ ~clockDone' /\ settled' = settled BY <1>1 DEF Deliver
    <2>2. lane' = lane \/ lane' = Wake(lane) BY <1>1 DEF Deliver
    <2>3. \A k \in Lanes : lane'[k] = "returned" => lane[k] = "returned"
      BY <1>0, <2>2, Woken
    <2> QED BY <2>1, <2>3
  <1>2. CASE ClockEnds
    <2>1. ~clockDone /\ lane' = Wake(lane) /\ settled' = settled BY <1>2 DEF ClockEnds
    <2>2. \A k \in Lanes : lane'[k] = "returned" => lane[k] = "returned"
      BY <1>0, <2>1, Woken
    <2> QED BY <2>1, <2>2
  <1>3. CASE Settle
    <2>1. clockDone' /\ UNCHANGED <<handoffs, queue, lane>> BY <1>3, SettleRuns
    <2> QED BY <2>1 DEF Drained, InFlight
  <1>4. ASSUME NEW l \in Lanes, LaneStep(l) \/ Throw(l) PROVE Gone'
    <2>0. UNCHANGED <<clockDone, settled>>
      BY <1>4 DEF LaneStep, TakeOwn, TakeHandoff, FindNothing, RunEnds, RunLands, Resume, Throw
    <2>1. CASE TakeOwn(l)
      <3>1. ~Drained BY <2>1, TakenOwn DEF Drained
      <3>2. /\ lane[l] \in {"ready", "looping"}
            /\ \E item \in Items : Begin(l, item)
        BY <2>1, TakenOwn
      <3>3. \A k \in Lanes : lane'[k] = "returned" => lane[k] = "returned" BY <3>2, Begun
      <3> QED BY <2>0, <3>1, <3>3
    <2>2. CASE TakeHandoff(l)
      <3>1. /\ lane[l] \in {"ready", "looping"} /\ handoffs # <<>>
            /\ \E item \in Items : Begin(l, item)
        BY <2>2, TakenHandoff
      <3>2. \A k \in Lanes : lane'[k] = "returned" => lane[k] = "returned" BY <3>1, Begun
      <3> QED BY <2>0, <3>1, <3>2 DEF Drained
    <2>3. CASE FindNothing(l)
      <3>1. UNCHANGED <<handoffs, queue>> /\ InFlight' = InFlight
        BY <2>3, FoundNothing DEF FindNothing
      <3>2. Drained' <=> Drained BY <3>1 DEF Drained
      <3>3. \A k \in Lanes : lane'[k] = "returned" =>
              lane[k] = "returned" \/ (clockDone /\ Drained)
        BY <2>3, FoundNothing
      <3> QED BY <2>0, <3>2, <3>3
    <2>4. CASE RunEnds(l) \/ RunLands(l) \/ Throw(l) \/ Resume(l)
      <3>1. lane[l] \in {"running", "landing", "landed", "throwing"}
        BY <2>4 DEF RunEnds, RunLands, Throw, Resume
      <3>2. ~Drained BY <3>1 DEF Drained, InFlight
      <3>3. \A k \in Lanes : lane'[k] = "returned" => lane[k] = "returned"
        <4>1. CASE Resume(l) BY <1>0, <4>1, Resumed
        <4>2. CASE RunEnds(l) \/ RunLands(l) \/ Throw(l)
          BY <1>0, <4>2 DEF RunEnds, RunLands, Throw
        <4> QED BY <2>4, <4>1, <4>2
      <3> QED BY <2>0, <3>2, <3>3
    <2> QED BY <1>4, <2>1, <2>2, <2>3, <2>4 DEF LaneStep
  <1>5. CASE UNCHANGED vars
    BY <1>5 DEF vars, Drained, InFlight
  <1>6. CASE ProcessEnds
    BY <1>6 DEF ProcessEnds, Drained, InFlight
  <1> QED BY <1>1, <1>2, <1>3, <1>4, <1>5, <1>6 DEF Next

--------------------------------------------------------------------------------
(* The figures                                                                *)

LEMMA FiniteLanes ==
  /\ IsFiniteSet(AtWork) /\ IsFiniteSet(Failed)
  /\ \A S : IsFiniteSet(S) => /\ Cardinality(S) \in Nat
                              /\ \A x : x \notin S => Cardinality(S \union {x}) = Cardinality(S) + 1
                              /\ \A x : x \in S => Cardinality(S \ {x}) = Cardinality(S) - 1
  <1>1. AtWork \subseteq Lanes /\ Failed \subseteq Lanes BY DEF AtWork, Failed
  <1>2. IsFiniteSet(AtWork) /\ IsFiniteSet(Failed) BY <1>1, ConstantFacts, FS_Subset
  <1>3. ASSUME NEW S, IsFiniteSet(S) PROVE Cardinality(S) \in Nat BY <1>3, FS_CardinalityType
  <1>4. ASSUME NEW S, IsFiniteSet(S), NEW x, x \notin S
        PROVE  Cardinality(S \union {x}) = Cardinality(S) + 1
    BY <1>4, FS_AddElement
  <1>5. ASSUME NEW S, IsFiniteSet(S), NEW x, x \in S
        PROVE  Cardinality(S \ {x}) = Cardinality(S) - 1
    BY <1>5, FS_RemoveElement
  <1> QED BY <1>2, <1>3, <1>4, <1>5

(* The places of a queue that is given one more, and of one that gives one up. *)
LEMMA OneMorePlace ==
  ASSUME queue \in [Desks -> Seq(Items)], NEW d \in Desks, NEW item \in Items,
         queue' = [queue EXCEPT ![d] = Append(@, item)]
  PROVE  <<d, Len(queue[d]) + 1>> \notin Queued
         /\ Queued' = Queued \union {<<d, Len(queue[d]) + 1>>}
  <1> DEFINE q == Append(queue[d], item)
  <1> DEFINE last == Len(queue[d]) + 1
  <1>1. queue[d] \in Seq(Items) /\ DOMAIN queue[d] = 1 .. Len(queue[d]) /\ Len(queue[d]) \in Nat
    OBVIOUS
  <1>2. DOMAIN q = 1 .. last BY <1>1
  <1>3. queue'[d] = q /\ \A c \in Desks \ {d} : queue'[c] = queue[c] OBVIOUS
  <1> HIDE DEF q
  <1>4. DOMAIN q = DOMAIN queue[d] \union {last} /\ last \notin DOMAIN queue[d]
    BY <1>1, <1>2
  <1> HIDE DEF last
  <1>5. \A c, n : <<c, n>> \in Queued <=> c \in Desks /\ n \in DOMAIN queue[c]
    BY DEF Queued
  <1>6. \A c, n : <<c, n>> \in Queued' <=> c \in Desks /\ n \in DOMAIN queue'[c]
    BY DEF Queued
  <1>7. \A x \in Queued : \E c, n : x = <<c, n>> BY DEF Queued
  <1>8. \A x \in Queued' : \E c, n : x = <<c, n>> BY DEF Queued
  <1>9. ASSUME NEW c, NEW n
        PROVE  <<c, n>> \in Queued' <=> <<c, n>> \in Queued \/ <<c, n>> = <<d, last>>
    <2>1. CASE c = d BY <1>3, <1>4, <1>5, <1>6, <2>1
    <2>2. CASE c # d
      <3>1. c \in Desks => queue'[c] = queue[c] BY <1>3, <2>2
      <3>2. <<c, n>> # <<d, last>> BY <2>2
      <3> QED BY <1>5, <1>6, <3>1, <3>2
    <2> QED BY <2>1, <2>2
  <1>10. ASSUME NEW x PROVE x \in Queued' <=> x \in Queued \union {<<d, last>>}
    BY <1>7, <1>8, <1>9
  <1>11. <<d, last>> \notin Queued BY <1>4, <1>5
  <1> QED BY <1>10, <1>11 DEF last

LEMMA OnePlaceLess ==
  ASSUME queue \in [Desks -> Seq(Items)], NEW d \in Desks, queue[d] # <<>>,
         queue' = [queue EXCEPT ![d] = Tail(queue[d])]
  PROVE  <<d, Len(queue[d])>> \in Queued /\ Queued' = Queued \ {<<d, Len(queue[d])>>}
  <1> DEFINE q == Tail(queue[d])
  <1>1. queue[d] \in Seq(Items) /\ DOMAIN queue[d] = 1 .. Len(queue[d]) /\ Len(queue[d]) \in Nat
        /\ Len(queue[d]) >= 1
    OBVIOUS
  <1>2. DOMAIN q = 1 .. Len(queue[d]) - 1 BY <1>1
  <1>3. queue'[d] = q /\ \A c \in Desks \ {d} : queue'[c] = queue[c] OBVIOUS
  <1> HIDE DEF q
  <1>4. DOMAIN q = DOMAIN queue[d] \ {Len(queue[d])} /\ Len(queue[d]) \in DOMAIN queue[d]
    BY <1>1, <1>2
  <1>5. \A c, n : <<c, n>> \in Queued <=> c \in Desks /\ n \in DOMAIN queue[c]
    BY DEF Queued
  <1>6. \A c, n : <<c, n>> \in Queued' <=> c \in Desks /\ n \in DOMAIN queue'[c]
    BY DEF Queued
  <1>7. \A x \in Queued : \E c, n : x = <<c, n>> BY DEF Queued
  <1>8. \A x \in Queued' : \E c, n : x = <<c, n>> BY DEF Queued
  <1>9. \A c, n : <<c, n>> \in Queued' <=> <<c, n>> \in Queued /\ ~(c = d /\ n = Len(queue[d]))
    BY <1>3, <1>4, <1>5, <1>6
  <1>10. Queued' = Queued \ {<<d, Len(queue[d])>>}
    BY <1>7, <1>8, <1>9
  <1> QED BY <1>4, <1>5, <1>10

LEMMA InitBooks == Init => Books
  <1> SUFFICES ASSUME Init PROVE Books OBVIOUS
  <1>1. AtWork = {} /\ Failed = {} /\ Queued = {} BY DEF Init, AtWork, Failed, Queued
  <1>2. IsFiniteSet({}) /\ Cardinality({}) = 0 BY FS_EmptySet
  <1>3. counts["routed"] = 0 /\ counts["unrouted"] = 0 /\ counts["arrivals"] = 0
        /\ counts["completed"] = 0 /\ counts["stopped"] = 0 /\ counts["handed-off"] = 0
    BY DEF Init, Outcomes
  <1>4. delivered = 0 /\ taken = 0 /\ Len(runs) = 0 BY DEF Init
  <1> QED BY <1>1, <1>2, <1>3, <1>4 DEF Books

(* What a tally adds, name by name.                                           *)
LEMMA Tallied ==
  ASSUME TypeOK, NEW names, counts' = Tally(names)
  PROVE  /\ counts'["routed"] = counts["routed"] + IF "routed" \in names THEN 1 ELSE 0
         /\ counts'["unrouted"] = counts["unrouted"] + IF "unrouted" \in names THEN 1 ELSE 0
         /\ counts'["arrivals"] = counts["arrivals"] + IF "arrivals" \in names THEN 1 ELSE 0
         /\ counts'["completed"] = counts["completed"] + IF "completed" \in names THEN 1 ELSE 0
         /\ counts'["stopped"] = counts["stopped"] + IF "stopped" \in names THEN 1 ELSE 0
         /\ counts'["handed-off"] = counts["handed-off"] + IF "handed-off" \in names THEN 1 ELSE 0
  <1>1. counts \in [Names -> Nat] BY DEF TypeOK, Names
  <1>2. \A n \in Names : counts'[n] = counts[n] + IF n \in names THEN 1 ELSE 0
    BY <1>1, TallyKeeps
  <1>3. /\ "routed" \in Names /\ "unrouted" \in Names /\ "arrivals" \in Names
        /\ "completed" \in Names /\ "stopped" \in Names /\ "handed-off" \in Names
    BY DEF Names, Outcomes
  <1> QED BY <1>2, <1>3

LEMMA FigureTypes ==
  ASSUME TypeOK, Books
  PROVE  /\ counts["routed"] \in Nat /\ counts["unrouted"] \in Nat /\ counts["arrivals"] \in Nat
         /\ counts["completed"] \in Nat /\ counts["stopped"] \in Nat /\ counts["handed-off"] \in Nat
         /\ Cardinality(Queued) \in Nat /\ Cardinality(AtWork) \in Nat
         /\ Cardinality(Failed) \in Nat /\ Len(runs) \in Nat
         /\ delivered \in Nat /\ taken \in Nat
  <1>1. /\ counts["routed"] \in Nat /\ counts["unrouted"] \in Nat /\ counts["arrivals"] \in Nat
        /\ counts["completed"] \in Nat /\ counts["stopped"] \in Nat /\ counts["handed-off"] \in Nat
    BY DEF TypeOK, Outcomes
  <1>2. Cardinality(Queued) \in Nat /\ Cardinality(AtWork) \in Nat /\ Cardinality(Failed) \in Nat
    BY FiniteLanes DEF Books
  <1>3. Len(runs) \in Nat /\ delivered \in Nat /\ taken \in Nat
    BY ConstantFacts DEF TypeOK
  <1> QED BY <1>1, <1>2, <1>3

LEMMA WaysAdd ==
  ASSUME NEW c \in {0, 1}, NEW s \in {0, 1}, NEW h \in {0, 1},
         Len(runs) \in Nat, counts["completed"] \in Nat, counts["stopped"] \in Nat,
         counts["handed-off"] \in Nat,
         counts'["completed"] = counts["completed"] + c,
         counts'["stopped"] = counts["stopped"] + s,
         counts'["handed-off"] = counts["handed-off"] + h,
         Len(runs') = Len(runs) + c + s + h,
         Len(runs) = counts["completed"] + counts["stopped"] + counts["handed-off"]
  PROVE  Len(runs') = counts'["completed"] + counts'["stopped"] + counts'["handed-off"]
  <1> DEFINE x == counts["completed"]
  <1> DEFINE y == counts["stopped"]
  <1> DEFINE z == counts["handed-off"]
  <1>1. x \in Nat /\ y \in Nat /\ z \in Nat OBVIOUS
  <1>2. Len(runs') = (x + y + z) + c + s + h OBVIOUS
  <1>3. counts'["completed"] = x + c /\ counts'["stopped"] = y + s
        /\ counts'["handed-off"] = z + h
    OBVIOUS
  <1> HIDE DEF x, y, z
  <1>4. (x + y + z) + c + s + h = (x + c) + (y + s) + (z + h) BY <1>1
  <1> QED BY <1>2, <1>3, <1>4

LEMMA FiguresAdd ==
  ASSUME NEW r \in {0, 1}, NEW u \in {0, 1}, NEW a \in {0, 1}, NEW t \in {0, 1}, NEW d \in {0, 1},
         counts["routed"] \in Nat, counts["unrouted"] \in Nat, counts["arrivals"] \in Nat,
         delivered \in Nat, taken \in Nat,
         counts'["routed"] = counts["routed"] + r,
         counts'["unrouted"] = counts["unrouted"] + u,
         counts'["arrivals"] = counts["arrivals"] + a,
         taken' = taken + t, delivered' = delivered + d,
         r + u <= a, a + t <= d + r + u,
         counts["routed"] + counts["unrouted"] <= counts["arrivals"],
         counts["arrivals"] + taken <= delivered + counts["routed"] + counts["unrouted"]
  PROVE  /\ counts'["routed"] + counts'["unrouted"] <= counts'["arrivals"]
         /\ counts'["arrivals"] + taken' <= delivered' + counts'["routed"] + counts'["unrouted"]
  OBVIOUS

(* The figures of a step: what it adds to each, and what moves from place to  *)
(* place.                                                                     *)
LEMMA BooksKept ==
  ASSUME TypeOK, Books, IsFiniteSet(Queued'),
         NEW r \in {0, 1}, NEW u \in {0, 1}, NEW a \in {0, 1}, NEW t \in {0, 1},
         NEW d \in {0, 1}, NEW c \in {0, 1}, NEW s \in {0, 1}, NEW h \in {0, 1},
         counts'["routed"] = counts["routed"] + r,
         counts'["unrouted"] = counts["unrouted"] + u,
         counts'["arrivals"] = counts["arrivals"] + a,
         counts'["completed"] = counts["completed"] + c,
         counts'["stopped"] = counts["stopped"] + s,
         counts'["handed-off"] = counts["handed-off"] + h,
         Len(runs') = Len(runs) + c + s + h,
         Cardinality(Queued') + Cardinality(AtWork') + Len(runs') + Cardinality(Failed')
           = Cardinality(Queued) + Cardinality(AtWork) + Len(runs) + Cardinality(Failed) + r,
         taken' = taken + t, delivered' = delivered + d,
         r + u <= a, a + t <= d + r + u
  PROVE  Books'
  <1>1. /\ counts["routed"] \in Nat /\ counts["unrouted"] \in Nat /\ counts["arrivals"] \in Nat
        /\ counts["completed"] \in Nat /\ counts["stopped"] \in Nat /\ counts["handed-off"] \in Nat
        /\ Len(runs) \in Nat /\ delivered \in Nat /\ taken \in Nat
    BY FigureTypes
  <1>2. /\ counts["routed"] = Cardinality(Queued) + Cardinality(AtWork) + Len(runs)
                                + Cardinality(Failed)
        /\ Len(runs) = counts["completed"] + counts["stopped"] + counts["handed-off"]
        /\ counts["routed"] + counts["unrouted"] <= counts["arrivals"]
        /\ counts["arrivals"] + taken <= delivered + counts["routed"] + counts["unrouted"]
    BY DEF Books
  <1>3. counts'["routed"] = Cardinality(Queued') + Cardinality(AtWork') + Len(runs')
                              + Cardinality(Failed')
    BY <1>2
  <1>4. Len(runs') = counts'["completed"] + counts'["stopped"] + counts'["handed-off"]
    BY <1>1, <1>2, WaysAdd
  <1>5. /\ counts'["routed"] + counts'["unrouted"] <= counts'["arrivals"]
        /\ counts'["arrivals"] + taken' <= delivered' + counts'["routed"] + counts'["unrouted"]
    BY <1>1, <1>2, FiguresAdd
  <1> QED BY <1>3, <1>4, <1>5 DEF Books

LEMMA DeliverBooks ==
  ASSUME TypeOK, Books, Deliver
  PROVE  Books'
  <1> DEFINE item == delivered + 1
  <1> DEFINE desk == FirstDesk(KindOf[item])
  <1>1. item \in Items /\ delivered' = delivered + 1 /\ desk \in Desks \union {0}
        /\ UNCHANGED runs
    BY ConstantFacts DEF Deliver, TypeOK
  <1>2. lane \in [Lanes -> LaneStates] /\ queue \in [Desks -> Seq(Items)] BY DEF TypeOK
  <1>3. taken = taken + 0 /\ Len(runs) = Len(runs) + 0 + 0 + 0
        /\ Cardinality(Queued) + Cardinality(AtWork) + Len(runs) + Cardinality(Failed)
             = Cardinality(Queued) + Cardinality(AtWork) + Len(runs) + Cardinality(Failed) + 0
    BY FigureTypes
  <1>4. ASSUME counts' = Tally({"arrivals"}) \/ counts' = Tally({"arrivals", "unrouted"}),
               UNCHANGED <<taken, queue, lane>>
        PROVE  Books'
    <2>1. Queued' = Queued /\ AtWork' = AtWork /\ Failed' = Failed /\ IsFiniteSet(Queued)
          /\ taken' = taken
      BY <1>4 DEF Queued, AtWork, Failed, Books
    <2>2. CASE counts' = Tally({"arrivals"})
      <3>1. /\ counts'["routed"] = counts["routed"] + 0
            /\ counts'["unrouted"] = counts["unrouted"] + 0
            /\ counts'["arrivals"] = counts["arrivals"] + 1
            /\ counts'["completed"] = counts["completed"] + 0
            /\ counts'["stopped"] = counts["stopped"] + 0
            /\ counts'["handed-off"] = counts["handed-off"] + 0
        BY <2>2, Tallied
      <3> QED BY <1>1, <1>3, <2>1, <3>1, BooksKept
    <2>3. CASE counts' = Tally({"arrivals", "unrouted"})
      <3>1. /\ counts'["routed"] = counts["routed"] + 0
            /\ counts'["unrouted"] = counts["unrouted"] + 1
            /\ counts'["arrivals"] = counts["arrivals"] + 1
            /\ counts'["completed"] = counts["completed"] + 0
            /\ counts'["stopped"] = counts["stopped"] + 0
            /\ counts'["handed-off"] = counts["handed-off"] + 0
        BY <2>3, Tallied
      <3> QED BY <1>1, <1>3, <2>1, <3>1, BooksKept
    <2> QED BY <1>4, <2>2, <2>3
  <1>5. CASE /\ counts' = Tally({"arrivals", "routed"}) /\ desk # 0
             /\ taken' = taken + 1 /\ queue' = [queue EXCEPT ![desk] = Append(@, item)]
             /\ lane' = Wake(lane)
    <2> DEFINE place == <<desk, Len(queue[desk]) + 1>>
    <2>1. desk \in Desks BY <1>1, <1>5
    <2>2. AtWork' = AtWork /\ Failed' = Failed BY <1>2, <1>5, Woken
    <2>3. place \notin Queued /\ Queued' = Queued \union {place}
      BY <1>1, <1>2, <1>5, <2>1, OneMorePlace
    <2> HIDE DEF place, desk, item
    <2>4. IsFiniteSet(Queued') /\ Cardinality(Queued') = Cardinality(Queued) + 1
      BY <2>3, FiniteLanes, FS_AddElement DEF Books
    <2>5. /\ counts'["routed"] = counts["routed"] + 1
          /\ counts'["unrouted"] = counts["unrouted"] + 0
          /\ counts'["arrivals"] = counts["arrivals"] + 1
          /\ counts'["completed"] = counts["completed"] + 0
          /\ counts'["stopped"] = counts["stopped"] + 0
          /\ counts'["handed-off"] = counts["handed-off"] + 0
      BY <1>5, Tallied
    <2>6. Cardinality(Queued') + Cardinality(AtWork') + Len(runs') + Cardinality(Failed')
            = Cardinality(Queued) + Cardinality(AtWork) + Len(runs) + Cardinality(Failed) + 1
      BY <1>1, <2>2, <2>4, FigureTypes
    <2>7. Len(runs') = Len(runs) + 0 + 0 + 0 /\ taken' = taken + 1 BY <1>1, <1>3, <1>5
    <2> QED BY <1>1, <2>4, <2>5, <2>6, <2>7, BooksKept
  <1> QED BY <1>4, <1>5 DEF Deliver

(* A lane that takes an item is at work on it, or has failed with it.         *)
LEMMA BegunFigures ==
  ASSUME TypeOK, Books, NEW l \in Lanes, NEW item \in Items, lane[l] \in {"ready", "looping"},
         Begin(l, item)
  PROVE  /\ Cardinality(AtWork') \in Nat /\ Cardinality(Failed') \in Nat
         /\ Cardinality(AtWork') + Cardinality(Failed')
              = Cardinality(AtWork) + Cardinality(Failed) + 1
  <1>1. /\ l \notin AtWork /\ l \notin Failed
        /\ \/ AtWork' = AtWork \union {l} /\ Failed' = Failed
           \/ AtWork' = AtWork /\ Failed' = Failed \union {l}
    BY Begun
  <1>2. Cardinality(AtWork) \in Nat /\ Cardinality(Failed) \in Nat BY FigureTypes
  <1>3. CASE AtWork' = AtWork \union {l} /\ Failed' = Failed
    <2>1. Cardinality(AtWork \union {l}) = Cardinality(AtWork) + 1 BY <1>1, FiniteLanes
    <2> QED BY <1>2, <1>3, <2>1
  <1>4. CASE AtWork' = AtWork /\ Failed' = Failed \union {l}
    <2>1. Cardinality(Failed \union {l}) = Cardinality(Failed) + 1 BY <1>1, FiniteLanes
    <2> QED BY <1>2, <1>4, <2>1
  <1> QED BY <1>1, <1>3, <1>4

LEMMA TakeOwnBooks ==
  ASSUME TypeOK, Books, NEW l \in Lanes, TakeOwn(l)
  PROVE  Books'
  <1> DEFINE d == DeskOf[l]
  <1> DEFINE place == <<d, Len(queue[d])>>
  <1>1. /\ d \in Desks /\ queue[d] # <<>> /\ lane[l] \in {"ready", "looping"}
        /\ Head(queue[d]) \in Items /\ Begin(l, Head(queue[d]))
        /\ queue' = [queue EXCEPT ![d] = Tail(queue[d])]
    BY TakenOwn
  <1>2. UNCHANGED <<delivered, taken, counts, runs>> BY DEF TakeOwn
  <1>3. queue \in [Desks -> Seq(Items)] BY DEF TypeOK
  <1>4. /\ Cardinality(AtWork') \in Nat /\ Cardinality(Failed') \in Nat
        /\ Cardinality(AtWork') + Cardinality(Failed')
             = Cardinality(AtWork) + Cardinality(Failed) + 1
    BY <1>1, BegunFigures
  <1> HIDE DEF d
  <1>5. place \in Queued /\ Queued' = Queued \ {place}
    BY <1>1, <1>3, OnePlaceLess
  <1> HIDE DEF place
  <1>6. IsFiniteSet(Queued') /\ Cardinality(Queued') = Cardinality(Queued) - 1
    BY <1>5, FiniteLanes, FS_RemoveElement DEF Books
  <1>7. /\ Cardinality(Queued) \in Nat /\ Cardinality(AtWork) \in Nat
        /\ Cardinality(Failed) \in Nat /\ Len(runs) \in Nat
    BY FigureTypes
  <1>8. Cardinality(Queued') + Cardinality(AtWork') + Len(runs') + Cardinality(Failed')
          = Cardinality(Queued) + Cardinality(AtWork) + Len(runs) + Cardinality(Failed)
    <2> DEFINE q == Cardinality(Queued)
    <2> DEFINE n == Len(runs)
    <2> DEFINE at == Cardinality(AtWork)
    <2> DEFINE f == Cardinality(Failed)
    <2> DEFINE at2 == Cardinality(AtWork')
    <2> DEFINE f2 == Cardinality(Failed')
    <2>1. q \in Nat /\ n \in Nat /\ at \in Nat /\ f \in Nat /\ at2 \in Nat /\ f2 \in Nat
          /\ at2 + f2 = at + f + 1 /\ Cardinality(Queued') = q - 1 /\ Len(runs') = n
      BY <1>2, <1>4, <1>6, <1>7
    <2> HIDE DEF q, n, at, f, at2, f2
    <2>2. (q - 1) + at2 + n + f2 = q + at + n + f BY <2>1
    <2> QED BY <2>1, <2>2 DEF q, n, at, f, at2, f2
  <1> QED BY <1>2, <1>6, <1>8 DEF Books

LEMMA TakeHandoffBooks ==
  ASSUME TypeOK, Books, NEW l \in Lanes, TakeHandoff(l)
  PROVE  Books'
  <1>1. UNCHANGED <<delivered, taken, queue, runs>> /\ counts' = Tally({"arrivals", "routed"})
    BY DEF TakeHandoff
  <1>2. /\ Cardinality(AtWork') \in Nat /\ Cardinality(Failed') \in Nat
        /\ Cardinality(AtWork') + Cardinality(Failed')
             = Cardinality(AtWork) + Cardinality(Failed) + 1
    BY TakenHandoff, BegunFigures
  <1>3. Queued' = Queued /\ IsFiniteSet(Queued) BY <1>1 DEF Queued, Books
  <1>4. /\ Cardinality(Queued) \in Nat /\ Cardinality(AtWork) \in Nat
        /\ Cardinality(Failed) \in Nat /\ Len(runs) \in Nat /\ taken \in Nat /\ delivered \in Nat
    BY FigureTypes
  <1>5. /\ counts'["routed"] = counts["routed"] + 1
        /\ counts'["unrouted"] = counts["unrouted"] + 0
        /\ counts'["arrivals"] = counts["arrivals"] + 1
        /\ counts'["completed"] = counts["completed"] + 0
        /\ counts'["stopped"] = counts["stopped"] + 0
        /\ counts'["handed-off"] = counts["handed-off"] + 0
    BY <1>1, Tallied
  <1>6. Cardinality(Queued') + Cardinality(AtWork') + Len(runs') + Cardinality(Failed')
          = Cardinality(Queued) + Cardinality(AtWork) + Len(runs) + Cardinality(Failed) + 1
    <2> DEFINE q == Cardinality(Queued)
    <2> DEFINE n == Len(runs)
    <2> DEFINE at == Cardinality(AtWork)
    <2> DEFINE f == Cardinality(Failed)
    <2> DEFINE at2 == Cardinality(AtWork')
    <2> DEFINE f2 == Cardinality(Failed')
    <2>1. q \in Nat /\ n \in Nat /\ at \in Nat /\ f \in Nat /\ at2 \in Nat /\ f2 \in Nat
          /\ at2 + f2 = at + f + 1 /\ Cardinality(Queued') = q /\ Len(runs') = n
      BY <1>1, <1>2, <1>3, <1>4
    <2> HIDE DEF q, n, at, f, at2, f2
    <2>2. q + at2 + n + f2 = q + at + n + f + 1 BY <2>1
    <2> QED BY <2>1, <2>2 DEF q, n, at, f, at2, f2
  <1>7. Len(runs') = Len(runs) + 0 + 0 + 0 /\ taken' = taken + 0 /\ delivered' = delivered + 0
    BY <1>1, <1>4
  <1> QED BY <1>3, <1>5, <1>6, <1>7, BooksKept

LEMMA RunLandsBooks ==
  ASSUME TypeOK, Apart, Books, NEW l \in Lanes, RunLands(l)
  PROVE  Books'
  <1>1. /\ l \in AtWork /\ AtWork' = AtWork \ {l} /\ Failed' = Failed
        /\ Len(runs') = Len(runs) + 1
        /\ outcome[l] = "handed-off" =>
              Follower[working[l]] \in Items /\ HandOn(Follower[working[l]])
        /\ outcome[l] # "handed-off" => counts' = Tally({outcome[l]})
    BY LandedEffects
  <1>2. UNCHANGED <<delivered, taken, queue>> BY DEF RunLands
  <1>3. Queued' = Queued /\ IsFiniteSet(Queued) BY <1>2 DEF Queued, Books
  <1>4. Cardinality(AtWork') = Cardinality(AtWork) - 1 BY <1>1, FiniteLanes
  <1>5. outcome[l] \in {"completed", "stopped", "handed-off"} BY DEF TypeOK, Outcomes
  <1>6. /\ Cardinality(Queued) \in Nat /\ Cardinality(AtWork) \in Nat
        /\ Cardinality(Failed) \in Nat /\ Len(runs) \in Nat /\ taken \in Nat /\ delivered \in Nat
    BY FigureTypes
  <1>7. Cardinality(Queued') + Cardinality(AtWork') + Len(runs') + Cardinality(Failed')
          = Cardinality(Queued) + Cardinality(AtWork) + Len(runs) + Cardinality(Failed) + 0
    BY <1>1, <1>3, <1>4, <1>6
  <1>8. taken' = taken + 0 /\ delivered' = delivered + 0 BY <1>2, <1>6
  <1>9. CASE outcome[l] = "completed"
    <2>1. counts' = Tally({"completed"}) BY <1>1, <1>9
    <2>2. /\ counts'["routed"] = counts["routed"] + 0
          /\ counts'["unrouted"] = counts["unrouted"] + 0
          /\ counts'["arrivals"] = counts["arrivals"] + 0
          /\ counts'["completed"] = counts["completed"] + 1
          /\ counts'["stopped"] = counts["stopped"] + 0
          /\ counts'["handed-off"] = counts["handed-off"] + 0
      BY <2>1, Tallied
    <2>3. Len(runs') = Len(runs) + 1 + 0 + 0 BY <1>1, <1>6
    <2> QED BY <1>3, <1>7, <1>8, <2>2, <2>3, BooksKept
  <1>10. CASE outcome[l] = "stopped"
    <2>1. counts' = Tally({"stopped"}) BY <1>1, <1>10
    <2>2. /\ counts'["routed"] = counts["routed"] + 0
          /\ counts'["unrouted"] = counts["unrouted"] + 0
          /\ counts'["arrivals"] = counts["arrivals"] + 0
          /\ counts'["completed"] = counts["completed"] + 0
          /\ counts'["stopped"] = counts["stopped"] + 1
          /\ counts'["handed-off"] = counts["handed-off"] + 0
      BY <2>1, Tallied
    <2>3. Len(runs') = Len(runs) + 0 + 1 + 0 BY <1>1, <1>6
    <2> QED BY <1>3, <1>7, <1>8, <2>2, <2>3, BooksKept
  <1>11. CASE outcome[l] = "handed-off"
    <2>1. counts' = Tally({"handed-off"}) \/ counts' = Tally({"handed-off", "arrivals", "unrouted"})
      BY <1>1, <1>11, HandedOn
    <2>2. Len(runs') = Len(runs) + 0 + 0 + 1 BY <1>1, <1>6
    <2>3. CASE counts' = Tally({"handed-off"})
      <3>1. /\ counts'["routed"] = counts["routed"] + 0
            /\ counts'["unrouted"] = counts["unrouted"] + 0
            /\ counts'["arrivals"] = counts["arrivals"] + 0
            /\ counts'["completed"] = counts["completed"] + 0
            /\ counts'["stopped"] = counts["stopped"] + 0
            /\ counts'["handed-off"] = counts["handed-off"] + 1
        BY <2>3, Tallied
      <3> QED BY <1>3, <1>7, <1>8, <2>2, <3>1, BooksKept
    <2>4. CASE counts' = Tally({"handed-off", "arrivals", "unrouted"})
      <3>1. /\ counts'["routed"] = counts["routed"] + 0
            /\ counts'["unrouted"] = counts["unrouted"] + 1
            /\ counts'["arrivals"] = counts["arrivals"] + 1
            /\ counts'["completed"] = counts["completed"] + 0
            /\ counts'["stopped"] = counts["stopped"] + 0
            /\ counts'["handed-off"] = counts["handed-off"] + 1
        BY <2>4, Tallied
      <3> QED BY <1>3, <1>7, <1>8, <2>2, <3>1, BooksKept
    <2> QED BY <2>1, <2>3, <2>4
  <1> QED BY <1>5, <1>9, <1>10, <1>11

LEMMA ThrowBooks ==
  ASSUME TypeOK, Books, NEW l \in Lanes, Throw(l)
  PROVE  Books'
  <1>1. l \in AtWork /\ AtWork' = AtWork \ {l} /\ l \notin Failed /\ Failed' = Failed \union {l}
    BY Thrown
  <1>2. UNCHANGED <<delivered, taken, queue, counts, runs>> BY DEF Throw
  <1>3. Queued' = Queued BY <1>2 DEF Queued
  <1>4. Cardinality(AtWork') = Cardinality(AtWork) - 1
        /\ Cardinality(Failed') = Cardinality(Failed) + 1
    BY <1>1, FiniteLanes
  <1>5. /\ Cardinality(Queued) \in Nat /\ Cardinality(AtWork) \in Nat
        /\ Cardinality(Failed) \in Nat /\ Len(runs) \in Nat
    BY FigureTypes
  <1>6. Cardinality(Queued') + Cardinality(AtWork') + Len(runs') + Cardinality(Failed')
          = Cardinality(Queued) + Cardinality(AtWork) + Len(runs) + Cardinality(Failed)
    BY <1>2, <1>3, <1>4, <1>5
  <1> QED BY <1>2, <1>3, <1>6 DEF Books

(* A step that moves no item from one place to another moves no figure.       *)
LEMMA SameBooks ==
  ASSUME Books, AtWork' = AtWork, Failed' = Failed, Len(runs') = Len(runs),
         UNCHANGED <<queue, delivered, taken, counts>>
  PROVE  Books'
  BY DEF Books, Queued

LEMMA RunEndsSame ==
  ASSUME TypeOK, NEW l \in Lanes, RunEnds(l)
  PROVE  AtWork' = AtWork /\ Failed' = Failed
  <1>1. /\ lane[l] = "running" /\ lane' = [lane EXCEPT ![l] = "landing"]
        /\ "landing" \in LaneStates /\ lane \in [Lanes -> LaneStates]
    BY DEF RunEnds, LaneStates, TypeOK
  <1>2. /\ AtWork' = IF "landing" \in {"running", "landing"} THEN AtWork \union {l} ELSE AtWork \ {l}
        /\ Failed' = IF "landing" \in {"throwing", "thrown"} THEN Failed \union {l} ELSE Failed \ {l}
    BY <1>1, Moved
  <1>3. l \in AtWork /\ l \notin Failed BY <1>1 DEF AtWork, Failed
  <1> QED BY <1>2, <1>3

LEMMA NextBooks == TypeOK /\ Apart /\ Books /\ [Next]_vars => Books'
  <1> SUFFICES ASSUME TypeOK, Apart, Books, [Next]_vars PROVE Books' OBVIOUS
  <1>0. lane \in [Lanes -> LaneStates] BY DEF TypeOK
  <1>1. CASE Deliver BY <1>1, DeliverBooks
  <1>2. CASE ClockEnds
    <2>1. AtWork' = AtWork /\ Failed' = Failed BY <1>0, <1>2, Woken DEF ClockEnds
    <2> QED BY <1>2, <2>1, SameBooks DEF ClockEnds
  <1>3. CASE Settle
    <2>1. AtWork' = AtWork /\ Failed' = Failed BY <1>3, SettleRuns DEF AtWork, Failed
    <2> QED BY <1>3, <2>1, SettleRuns, SameBooks
  <1>4. ASSUME NEW l \in Lanes, LaneStep(l) \/ Throw(l) PROVE Books'
    <2>1. CASE TakeOwn(l) BY <2>1, TakeOwnBooks
    <2>2. CASE TakeHandoff(l) BY <2>2, TakeHandoffBooks
    <2>3. CASE RunLands(l) BY <2>3, RunLandsBooks
    <2>4. CASE Throw(l) BY <2>4, ThrowBooks
    <2>5. CASE FindNothing(l) BY <2>5, FoundNothing, SameBooks DEF FindNothing
    <2>6. CASE RunEnds(l) BY <2>6, RunEndsSame, SameBooks DEF RunEnds
    <2>7. CASE Resume(l) BY <1>0, <2>7, Resumed, SameBooks DEF Resume
    <2> QED BY <1>4, <2>1, <2>2, <2>3, <2>4, <2>5, <2>6, <2>7 DEF LaneStep
  <1>5. CASE UNCHANGED vars
    BY <1>5, SameBooks DEF vars, AtWork, Failed
  <1>6. CASE ProcessEnds
    BY <1>6, SameBooks DEF ProcessEnds, AtWork, Failed
  <1> QED BY <1>1, <1>2, <1>3, <1>4, <1>5, <1>6 DEF Next

LEMMA BooksBalanceFromBooks == TypeOK /\ Books => BooksBalance
  <1> SUFFICES ASSUME TypeOK, Books PROVE BooksBalance OBVIOUS
  <1>1. delivered <= Arrived /\ Arrived \in Nat BY ConstantFacts DEF TypeOK
  <1>2. /\ counts["routed"] + counts["unrouted"] <= counts["arrivals"]
        /\ counts["arrivals"] + taken <= delivered + counts["routed"] + counts["unrouted"]
    BY DEF Books
  <1>3. /\ counts["routed"] \in Nat /\ counts["unrouted"] \in Nat /\ counts["arrivals"] \in Nat
        /\ delivered \in Nat /\ taken \in Nat
    BY FigureTypes
  <1>4. counts["arrivals"] - counts["routed"] - counts["unrouted"] \in 0 .. Arrived - taken
    BY <1>1, <1>2, <1>3
  <1> QED BY <1>4 DEF Books, BooksBalance

(* The day's figures add up at every moment of a day of any size: what was    *)
(* routed is queued, in flight, recorded or lost with a lane, and every run   *)
(* came out one way (counts, runs of bank.ts).                                *)
THEOREM BooksAlwaysBalance == Spec => []BooksBalance
  <1>1. Init => TypeOK /\ Apart /\ Books BY InitTypesApart, InitBooks
  <1>2. TypeOK /\ Apart /\ Books /\ [Next]_vars => (TypeOK /\ Apart /\ Books)'
    BY NextTypesApart, NextBooks
  <1>3. TypeOK /\ Apart /\ Books => BooksBalance BY BooksBalanceFromBooks
  <1> QED BY <1>1, <1>2, <1>3, PTL DEF Spec

--------------------------------------------------------------------------------
(* A pool of work                                                             *)

LEMMA InitPool == Init => Pool!Init
  <1> SUFFICES ASSUME Init PROVE Pool!Init OBVIOUS
  <1>1. AtWork = {} /\ Failed = {} BY DEF Init, AtWork, Failed
  <1>2. handoffs = <<>> /\ runs = <<>> /\ workedIds = {} /\ settled = "pending"
        /\ \A d \in Desks : queue[d] = <<>>
    BY DEF Init
  <1>3. ToSet(handoffs) = {} /\ ToSet(runs) = {} /\ \A d \in Desks : ToSet(queue[d]) = {}
    BY <1>2, Nothing
  <1>4. Todo = {} BY <1>2, <1>3 DEF Todo, Waiting
  <1>5. Doing = {} /\ Done = {} /\ Lost = {} BY <1>1, <1>2, <1>3 DEF Doing, Done, Lost
  <1>6. Failure = FALSE /\ Over = FALSE BY <1>1, <1>2 DEF Failure, Over
  <1> QED BY <1>4, <1>5, <1>6 DEF Pool!Init

(* What was ever accepted is waiting or was begun.                            *)
LEMMA PoolKnown == Apart => Pool!Known = Todo \union workedIds
  <1> SUFFICES ASSUME Apart PROVE Pool!Known = Todo \union workedIds OBVIOUS
  <1>1. Doing \subseteq workedIds /\ Done \subseteq workedIds BY DEF Apart, Doing, Done
  <1> QED BY <1>1 DEF Pool!Known, Lost

LEMMA KeptPool ==
  ASSUME UNCHANGED <<Waiting, workedIds, Doing, Done, Failed, settled>>
  PROVE  UNCHANGED Pool!vars
  BY DEF Pool!vars, Todo, Lost, Failure, Over

(* What waits when only the cases handed on change.                           *)
LEMMA HandoffWaiting ==
  ASSUME UNCHANGED queue
  PROVE  \A x : /\ ToSet(handoffs) = {x} \union ToSet(handoffs') => Waiting = {x} \union Waiting'
                /\ ToSet(handoffs') = ToSet(handoffs) \union {x} => Waiting' = Waiting \union {x}
                /\ ToSet(handoffs') = ToSet(handoffs) => Waiting' = Waiting
  <1>1. \A x : x \in Waiting <=>
                 (\E d \in Desks : x \in ToSet(queue[d])) \/ x \in ToSet(handoffs)
    BY DEF Waiting
  <1>2. \A x : x \in Waiting' <=>
                 (\E d \in Desks : x \in ToSet(queue'[d])) \/ x \in ToSet(handoffs')
    BY DEF Waiting
  <1>3. \A x : (\E d \in Desks : x \in ToSet(queue'[d])) <=>
               (\E d \in Desks : x \in ToSet(queue[d]))
    OBVIOUS
  <1>4. ASSUME NEW x, ToSet(handoffs) = {x} \union ToSet(handoffs')
        PROVE  Waiting = {x} \union Waiting'
    BY <1>1, <1>2, <1>3, <1>4
  <1>5. ASSUME NEW x, ToSet(handoffs') = ToSet(handoffs) \union {x}
        PROVE  Waiting' = Waiting \union {x}
    BY <1>1, <1>2, <1>3, <1>5
  <1>6. ASSUME ToSet(handoffs') = ToSet(handoffs) PROVE Waiting' = Waiting
    BY <1>1, <1>2, <1>3, <1>6
  <1> QED BY <1>4, <1>5, <1>6

LEMMA DeliverPool ==
  ASSUME TypeOK, Apart, Gone, Deliver
  PROVE  Pool!Next \/ UNCHANGED Pool!vars
  <1> DEFINE item == delivered + 1
  <1> DEFINE desk == FirstDesk(KindOf[item])
  <1>1. item \in Items /\ desk \in Desks \union {0} BY ConstantFacts DEF Deliver, TypeOK
  <1>2. UNCHANGED <<handoffs, working, workedIds, runs, settled>> /\ ~clockDone BY DEF Deliver
  <1>3. lane \in [Lanes -> LaneStates] /\ queue \in [Desks -> Seq(Items)] BY DEF TypeOK
  <1>4. \/ UNCHANGED <<queue, lane>>
        \/ desk # 0 /\ queue' = [queue EXCEPT ![desk] = Append(@, item)] /\ lane' = Wake(lane)
    BY DEF Deliver
  <1> HIDE DEF item, desk
  <1>5. CASE UNCHANGED <<queue, lane>>
    <2>1. Waiting' = Waiting BY <1>2, <1>5 DEF Waiting, ToSet
    <2>2. Doing' = Doing /\ Done' = Done /\ Failed' = Failed
      BY <1>2, <1>5 DEF Doing, Done, Failed, AtWork, ToSet
    <2> QED BY <1>2, <2>1, <2>2, KeptPool
  <1>6. CASE desk # 0 /\ queue' = [queue EXCEPT ![desk] = Append(@, item)] /\ lane' = Wake(lane)
    <2>1. desk \in Desks BY <1>1, <1>6
    <2>2. ToSet(Append(queue[desk], item)) = ToSet(queue[desk]) \union {item}
      BY <1>1, <1>3, <2>1, SetOfAppend
    <2>3. queue'[desk] = Append(queue[desk], item) /\ \A d \in Desks \ {desk} : queue'[d] = queue[d]
      BY <1>3, <1>6, <2>1
    <2>4. Waiting' = Waiting \union {item}
      <3>1. ToSet(handoffs') = ToSet(handoffs) BY <1>2 DEF ToSet
      <3>2. \A d \in Desks : ToSet(queue'[d]) = IF d = desk THEN ToSet(queue[d]) \union {item}
                                                ELSE ToSet(queue[d])
        BY <2>2, <2>3
      <3> QED BY <2>1, <3>1, <3>2 DEF Waiting
    <2>5. AtWork' = AtWork /\ Failed' = Failed BY <1>3, <1>6, Woken
    <2>6. Doing' = Doing /\ Done' = Done BY <1>2, <2>5 DEF Doing, Done, ToSet
    <2>7. CASE item \in Todo \union workedIds
      <3>1. Todo' = Todo BY <1>2, <2>4, <2>7 DEF Todo
      <3> QED BY <1>2, <2>5, <2>6, <3>1 DEF Pool!vars, Lost, Failure, Over
    <2>8. CASE item \notin Todo \union workedIds
      <3>1. Todo' = Todo \union {item} BY <1>2, <2>4, <2>8 DEF Todo
      <3>2. ~Over BY <1>2 DEF Over, Gone
      <3>3. UNCHANGED <<Doing, Done, Lost, Failure, Over>>
        BY <1>2, <2>5, <2>6 DEF Lost, Failure, Over
      <3>4. Pool!Accept(item) BY <2>8, <3>1, <3>2, <3>3, PoolKnown DEF Pool!Accept
      <3> QED BY <1>1, <3>4 DEF Pool!Next
    <2> QED BY <2>7, <2>8
  <1> QED BY <1>4, <1>5, <1>6

LEMMA TakePool ==
  ASSUME TypeOK, Apart, NEW l \in Lanes, TakeOwn(l) \/ TakeHandoff(l)
  PROVE  Pool!Next
  <1>1. UNCHANGED <<runs, settled>> BY DEF TakeOwn, TakeHandoff
  <1>2. \E item \in Items : /\ lane[l] \in {"ready", "looping"} /\ Begin(l, item)
                            /\ Waiting = {item} \union Waiting'
    <2>1. CASE TakeOwn(l)
      <3> DEFINE d == DeskOf[l]
      <3> DEFINE item == Head(queue[d])
      <3>1. /\ d \in Desks /\ item \in Items
            /\ lane[l] \in {"ready", "looping"} /\ Begin(l, item)
            /\ queue' = [queue EXCEPT ![d] = Tail(queue[d])]
            /\ ToSet(queue[d]) = {item} \union ToSet(Tail(queue[d]))
        BY <2>1, TakenOwn
      <3> HIDE DEF d, item
      <3>2. queue \in [Desks -> Seq(Items)] BY DEF TypeOK
      <3>3. queue'[d] = Tail(queue[d]) /\ \A c \in Desks \ {d} : queue'[c] = queue[c]
        BY <3>1, <3>2
      <3>4. \A c \in Desks : ToSet(queue[c]) = IF c = d THEN {item} \union ToSet(queue'[c])
                                               ELSE ToSet(queue'[c])
        BY <3>1, <3>3
      <3>5. ToSet(handoffs') = ToSet(handoffs) BY <2>1 DEF TakeOwn, ToSet
      <3>6. Waiting = {item} \union Waiting' BY <3>1, <3>4, <3>5 DEF Waiting
      <3> QED BY <3>1, <3>6
    <2>2. CASE TakeHandoff(l)
      <3>1. PICK item \in Items :
              /\ lane[l] \in {"ready", "looping"} /\ Begin(l, item)
              /\ ToSet(handoffs) = {item} \union ToSet(handoffs')
        BY <2>2, TakenHandoff
      <3>2. UNCHANGED queue BY <2>2 DEF TakeHandoff
      <3>3. Waiting = {item} \union Waiting' BY <3>1, <3>2, HandoffWaiting
      <3> QED BY <3>1, <3>3
    <2> QED BY <2>1, <2>2
  <1>3. PICK item \in Items : /\ lane[l] \in {"ready", "looping"} /\ Begin(l, item)
                              /\ Waiting = {item} \union Waiting'
    BY <1>2
  <1>4. /\ workedIds' = workedIds \union {item}
        /\ working'[l] = item /\ \A k \in Lanes \ {l} : working'[k] = working[k]
        /\ l \notin AtWork
        /\ \/ item \notin workedIds /\ AtWork' = AtWork \union {l} /\ Failed' = Failed
           \/ item \in workedIds /\ AtWork' = AtWork /\ Failed' = Failed \union {l}
    BY <1>3, Begun
  <1>5. AtWork \subseteq Lanes /\ Done' = Done BY <1>1 DEF AtWork, Done, ToSet
  <1>6. Todo' = Todo \ {item} BY <1>3, <1>4 DEF Todo
  <1>7. CASE item \notin workedIds /\ AtWork' = AtWork \union {l} /\ Failed' = Failed
    <2>1. Doing' = Doing \union {item} BY <1>4, <1>5, <1>7 DEF Doing
    <2>2. item \in Todo BY <1>3, <1>7 DEF Todo
    <2>3. Lost' = Lost BY <1>4, <1>5, <1>7, <2>1 DEF Lost
    <2>4. Failure' = Failure /\ Over' = Over BY <1>1, <1>7 DEF Failure, Over
    <2>5. Pool!Take(item) BY <1>5, <1>6, <2>1, <2>2, <2>3, <2>4 DEF Pool!Take
    <2> QED BY <2>5 DEF Pool!Next
  <1>8. CASE item \in workedIds /\ AtWork' = AtWork /\ Failed' = Failed \union {l}
    <2>1. Doing' = Doing BY <1>4, <1>5, <1>8 DEF Doing
    <2>2. Todo' = Todo /\ Lost' = Lost BY <1>4, <1>5, <1>6, <1>8, <2>1 DEF Lost, Todo
    <2>3. Failure' = TRUE /\ Over' = Over BY <1>1, <1>8 DEF Failure, Over
    <2>4. Pool!Refuse BY <1>5, <2>1, <2>2, <2>3 DEF Pool!Refuse
    <2> QED BY <2>4 DEF Pool!Next
  <1> QED BY <1>4, <1>7, <1>8

LEMMA RunLandsPool ==
  ASSUME TypeOK, Apart, NEW l \in Lanes, RunLands(l)
  PROVE  Pool!Next
  <1> DEFINE item == working[l]
  <1>1. /\ l \in AtWork /\ AtWork' = AtWork \ {l} /\ Failed' = Failed
        /\ item \in Items /\ ToSet(runs') = ToSet(runs) \union {item}
        /\ outcome[l] = "handed-off" =>
             Follower[item] \in Items /\ HandOn(Follower[item])
        /\ outcome[l] # "handed-off" => UNCHANGED handoffs
    BY LandedEffects
  <1>2. UNCHANGED <<queue, working, workedIds, settled>> BY DEF RunLands
  <1>3. item \in workedIds /\ item \in Doing BY <1>1 DEF Apart, Doing
  <1>4. Doing' = Doing \ {item}
    <2>1. \A k \in AtWork : working[k] = item <=> k = l BY <1>1 DEF Apart
    <2> QED BY <1>1, <1>2, <2>1 DEF Doing
  <1> HIDE DEF item
  <1>5. Done' = Done \union {item} BY <1>1 DEF Done
  <1>6. Lost' = Lost BY <1>2, <1>3, <1>4, <1>5 DEF Lost
  <1>7. \E new \in {{}} \union {{j} : j \in Items \ Pool!Known} : Todo' = Todo \union new
    <2>1. CASE outcome[l] # "handed-off"
      <3>1. Todo' = Todo BY <1>1, <1>2, <2>1 DEF Todo, Waiting, ToSet
      <3> QED BY <3>1
    <2>2. CASE outcome[l] = "handed-off"
      <3> DEFINE next == Follower[item]
      <3>1. next \in Items /\ HandOn(next) BY <1>1, <2>2
      <3> HIDE DEF next
      <3>2. ToSet(handoffs') = ToSet(handoffs) \/ ToSet(handoffs') = ToSet(handoffs) \union {next}
        BY <3>1, HandedOn
      <3>3. Waiting' = Waiting \/ Waiting' = Waiting \union {next}
        BY <1>2, <3>2, HandoffWaiting
      <3>4. Todo' = Todo \/ (Todo' = Todo \union {next} /\ next \notin Todo \union workedIds)
        BY <1>2, <3>3 DEF Todo
      <3> QED BY <3>1, <3>4, PoolKnown
    <2> QED BY <2>1, <2>2
  <1>8. Failure' = Failure /\ Over' = Over BY <1>1, <1>2 DEF Failure, Over
  <1>9. Pool!Finish(item) BY <1>3, <1>4, <1>5, <1>6, <1>7, <1>8 DEF Pool!Finish
  <1> QED BY <1>1, <1>9 DEF Pool!Next, item

LEMMA ThrowPool ==
  ASSUME TypeOK, Apart, NEW l \in Lanes, Throw(l)
  PROVE  Pool!Next
  <1> DEFINE item == working[l]
  <1>1. l \in AtWork /\ AtWork' = AtWork \ {l} /\ Failed' = Failed \union {l} BY Thrown
  <1>2. UNCHANGED <<queue, handoffs, working, workedIds, runs, settled>> BY DEF Throw
  <1>3. item \in Items /\ item \in workedIds /\ item \in Doing /\ item \notin Done
    BY <1>1, AtItems DEF Apart, Doing, Done
  <1>4. Doing' = Doing \ {item}
    <2>1. \A k \in AtWork : working[k] = item <=> k = l BY <1>1 DEF Apart
    <2> QED BY <1>1, <1>2, <2>1 DEF Doing
  <1> HIDE DEF item
  <1>5. Done' = Done /\ Todo' = Todo BY <1>2 DEF Done, Todo, Waiting, ToSet
  <1>6. Lost' = Lost \union {item} BY <1>2, <1>3, <1>4, <1>5 DEF Lost
  <1>7. Failure' = TRUE /\ Over' = Over BY <1>1, <1>2 DEF Failure, Over
  <1>8. Pool!Fail(item) BY <1>3, <1>4, <1>5, <1>6, <1>7 DEF Pool!Fail
  <1> QED BY <1>3, <1>8 DEF Pool!Next

LEMMA SettlePool ==
  ASSUME TypeOK, Apart, Gone, Settle
  PROVE  Pool!Next
  <1>1. /\ ToSet(runs') = ToSet(runs) /\ settled' \in {"recorded", "rejected"}
        /\ UNCHANGED <<queue, handoffs, lane, working, workedIds>>
        /\ settled = "pending"
        /\ settled' = "recorded" => \A l \in Lanes : lane[l] = "returned"
    BY SettleRuns
  <1>2. UNCHANGED <<Todo, Doing, Done, Lost, Failed>>
    BY <1>1 DEF Todo, Waiting, Doing, Done, Lost, AtWork, Failed, ToSet
  <1>3. CASE settled' = "rejected"
    <2>1. Failure' = TRUE /\ Over' = Over BY <1>1, <1>3 DEF Failure, Over
    <2>2. Pool!Refuse BY <1>2, <2>1 DEF Pool!Refuse
    <2> QED BY <2>2 DEF Pool!Next
  <1>4. CASE settled' = "recorded"
    <2>1. \E l \in Lanes : lane[l] = "returned"
      <3>1. 1 \in Desks BY ConstantFacts DEF Desks
      <3> QED BY <1>1, <1>4, <3>1, ConstantFacts
    <2>2. handoffs = <<>> /\ InFlight = {} /\ \A d \in Desks : queue[d] = <<>>
      BY <2>1 DEF Gone, Drained
    <2>3. AtWork = {} /\ Failed = {} BY <1>1, <1>4, <2>2 DEF AtWork, InFlight, Failed
    <2>4. ToSet(handoffs) = {} /\ \A d \in Desks : ToSet(queue[d]) = {} BY <2>2, Nothing
    <2>5. Todo = {} /\ Doing = {} BY <2>3, <2>4 DEF Todo, Waiting, Doing
    <2>6. Failure = FALSE /\ Failure' = FALSE /\ Over' = TRUE
      BY <1>1, <1>2, <1>4, <2>3 DEF Failure, Over
    <2>7. Pool!EndDay BY <1>2, <2>5, <2>6 DEF Pool!EndDay
    <2> QED BY <2>7 DEF Pool!Next
  <1> QED BY <1>1, <1>3, <1>4

LEMMA NextPool == TypeOK /\ Apart /\ Gone /\ [Next]_vars => [Pool!Next]_(Pool!vars)
  <1> SUFFICES ASSUME TypeOK, Apart, Gone, [Next]_vars
               PROVE  Pool!Next \/ UNCHANGED Pool!vars
    OBVIOUS
  <1>0. lane \in [Lanes -> LaneStates] BY DEF TypeOK
  <1>1. CASE Deliver BY <1>1, DeliverPool
  <1>2. CASE ClockEnds
    <2>1. UNCHANGED <<queue, handoffs, working, workedIds, runs, settled>> BY <1>2 DEF ClockEnds
    <2>2. AtWork' = AtWork /\ Failed' = Failed BY <1>0, <1>2, Woken DEF ClockEnds
    <2>3. UNCHANGED <<Waiting, Doing, Done>> BY <2>1, <2>2 DEF Waiting, Doing, Done, ToSet
    <2> QED BY <2>1, <2>2, <2>3, KeptPool
  <1>3. CASE Settle BY <1>3, SettlePool
  <1>4. ASSUME NEW l \in Lanes, LaneStep(l) \/ Throw(l)
        PROVE  Pool!Next \/ UNCHANGED Pool!vars
    <2>1. CASE TakeOwn(l) \/ TakeHandoff(l) BY <2>1, TakePool
    <2>2. CASE RunLands(l) BY <2>2, RunLandsPool
    <2>3. CASE Throw(l) BY <2>3, ThrowPool
    <2>4. CASE FindNothing(l) \/ RunEnds(l) \/ Resume(l)
      <3>1. UNCHANGED <<queue, handoffs, working, workedIds, runs, settled>>
        BY <2>4 DEF FindNothing, RunEnds, Resume
      <3>2. AtWork' = AtWork /\ Failed' = Failed
        BY <1>0, <2>4, FoundNothing, RunEndsSame, Resumed
      <3>3. UNCHANGED <<Waiting, Doing, Done>> BY <3>1, <3>2 DEF Waiting, Doing, Done, ToSet
      <3> QED BY <3>1, <3>2, <3>3, KeptPool
    <2> QED BY <1>4, <2>1, <2>2, <2>3, <2>4 DEF LaneStep
  <1>5. CASE UNCHANGED vars
    <2>1. UNCHANGED <<queue, handoffs, working, workedIds, runs, settled, lane>> BY <1>5 DEF vars
    <2>2. UNCHANGED <<Waiting, Doing, Done, Failed>>
      BY <2>1 DEF Waiting, Doing, Done, Failed, AtWork, ToSet
    <2> QED BY <2>1, <2>2, KeptPool
  <1>6. CASE ProcessEnds
    <2>1. UNCHANGED <<Todo, Doing, Done, Lost, Failed>>
      BY <1>6 DEF ProcessEnds, Todo, Waiting, Doing, Done, Lost, Failed, AtWork, ToSet
    <2>2. Failure' = Failure /\ Over' = Over
      <3>1. settled = "pending" /\ settled' = "ended" BY <1>6 DEF ProcessEnds
      <3> QED BY <2>1, <3>1 DEF Failure, Over
    <2> QED BY <2>1, <2>2 DEF Pool!vars
  <1> QED BY <1>1, <1>2, <1>3, <1>4, <1>5, <1>6 DEF Next

(* A day is a pool of work, whatever fails: every item is worked once, by one *)
(* lane, and the day is recorded as over only when nothing is left to do and  *)
(* nothing went wrong (workOne, lane, drained, Promise.all of bank.ts).       *)
THEOREM AlwaysAPool == Spec => WorksAsAPool
  <1>1. Init => TypeOK /\ Apart /\ Gone /\ Pool!Init BY InitTypesApart, InitGone, InitPool
  <1>2. TypeOK /\ Apart /\ Gone /\ [Next]_vars => (TypeOK /\ Apart /\ Gone)'
    BY NextTypesApart, NextGone
  <1>3. TypeOK /\ Apart /\ Gone /\ [Next]_vars => [Pool!Next]_(Pool!vars) BY NextPool
  <1> QED BY <1>1, <1>2, <1>3, PTL DEF Spec, WorksAsAPool, Pool!Spec
=============================================================================

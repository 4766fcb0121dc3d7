----------------------------- MODULE RoundRobin -----------------------------
(***************************************************************************)
(* What a group promises those who read its merged stream: strict round    *)
(* robin.  One turn at a time; the next goes to the first, in the members' *)
(* order, of those that have had the fewest; who has finished sits out;    *)
(* and nobody takes a turn once the group has ended.                       *)
(***************************************************************************)
EXTENDS Integers

CONSTANT N

VARIABLES
  phase,  \* "unopened", "open", "ended"
  taken,  \* turns each member has had
  live,   \* the members that have not finished
  acting  \* the member whose turn it is; 0 for none

vars == <<phase, taken, live, acting>>
Members == 1..N

Init == phase = "unopened" /\ taken = [m \in Members |-> 0] /\ live = Members /\ acting = 0

Open == phase = "unopened" /\ phase' = "open" /\ UNCHANGED <<taken, live, acting>>

(* Whose turn is next, of the members that are still in. *)
Next1(m) ==
  /\ m \in live
  /\ \A n \in live : taken[m] <= taken[n] /\ (n < m => taken[m] < taken[n])

Take(m) ==
  /\ phase = "open" /\ acting = 0 /\ Next1(m)
  /\ acting' = m /\ taken' = [taken EXCEPT ![m] = @ + 1]
  /\ UNCHANGED <<phase, live>>

(* A turn ends, and may end its member's run and with it the group. *)
Pass(m) ==
  /\ phase = "open" /\ acting = m
  /\ acting' = 0 /\ live' \in {live, live \ {m}}
  /\ UNCHANGED <<phase, taken>>

(* The group ends between turns, and everybody with it. *)
End ==
  /\ phase # "ended"
  /\ phase' = "ended" /\ acting' = 0 /\ live' = {}
  /\ UNCHANGED taken

Next == Open \/ End \/ \E m \in Members : Take(m) \/ Pass(m)

Spec == Init /\ [][Next]_vars
=============================================================================

------------------------------ MODULE WorkPool ------------------------------
(***************************************************************************)
(* What a bank day promises of its work: every accepted item is worked     *)
(* once, by one worker, and the day is over only when nothing is left, the *)
(* work made by other work included.  A day in which something failed, or  *)
(* which was given an item it had before, never ends well.                 *)
(***************************************************************************)
CONSTANT Items

VARIABLES
  todo,    \* accepted and not yet taken
  doing,   \* taken by a worker
  done,    \* worked
  lost,    \* taken, and not worked to the end
  failed,  \* something went wrong
  over     \* the day has ended well

vars == <<todo, doing, done, lost, failed, over>>

Known == todo \union doing \union done \union lost

Init ==
  /\ todo = {} /\ doing = {} /\ done = {} /\ lost = {}
  /\ failed = FALSE /\ over = FALSE

Accept(i) ==
  /\ ~over /\ i \notin Known
  /\ todo' = todo \union {i}
  /\ UNCHANGED <<doing, done, lost, failed, over>>

Take(i) ==
  /\ i \in todo
  /\ todo' = todo \ {i} /\ doing' = doing \union {i}
  /\ UNCHANGED <<done, lost, failed, over>>

(* Work may make work. *)
Finish(i) ==
  /\ i \in doing
  /\ doing' = doing \ {i} /\ done' = done \union {i}
  /\ \E new \in {{}} \union {{j} : j \in Items \ Known} : todo' = todo \union new
  /\ UNCHANGED <<lost, failed, over>>

Fail(i) ==
  /\ i \in doing
  /\ doing' = doing \ {i} /\ lost' = lost \union {i}
  /\ failed' = TRUE
  /\ UNCHANGED <<todo, done, over>>

Refuse == failed' = TRUE /\ UNCHANGED <<todo, doing, done, lost, over>>

EndDay ==
  /\ todo = {} /\ doing = {} /\ ~failed
  /\ over' = TRUE
  /\ UNCHANGED <<todo, doing, done, lost, failed>>

Next ==
  \/ Refuse \/ EndDay
  \/ \E i \in Items : Accept(i) \/ Take(i) \/ Finish(i) \/ Fail(i)

Spec == Init /\ [][Next]_vars
=============================================================================

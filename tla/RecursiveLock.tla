--------------------------- MODULE RecursiveLock ---------------------------
(***************************************************************************)
(* What a recursive mutex promises: one thread at a time has it, as often  *)
(* as it has locked it, and it is free again after as many unlocks.        *)
(***************************************************************************)
EXTENDS Naturals

CONSTANTS Threads, Nobody

VARIABLES holder,  \* the thread that has the lock, or Nobody
          level    \* how many of its locks it has not undone

vars == <<holder, level>>

Init == holder = Nobody /\ level = 0

Lock(t) ==
  /\ holder \in {Nobody, t}
  /\ holder' = t
  /\ level' = level + 1

Unlock(t) ==
  /\ holder = t
  /\ level' = level - 1
  /\ holder' = IF level = 1 THEN Nobody ELSE t

Next == \E t \in Threads : Lock(t) \/ Unlock(t)

Spec == Init /\ [][Next]_vars
=============================================================================

---------------------------- MODULE ComponentMap ----------------------------
(***************************************************************************)
(* What the records of a component promise: a map from entities to data,   *)
(* and a snapshot of it that never shows an entity that is gone.           *)
(***************************************************************************)
CONSTANTS Entities, Values, Absent

VARIABLES map, snapshot

vars == <<map, snapshot>>

Init ==
  /\ map = [e \in Entities |-> Absent]
  /\ snapshot = map

Populate(e, v) == map' = [map EXCEPT ![e] = v] /\ UNCHANGED snapshot

Destroy(e) ==
  /\ map[e] # Absent
  /\ map' = [map EXCEPT ![e] = Absent]
  /\ snapshot' = [snapshot EXCEPT ![e] = Absent]

TakeSnapshot == snapshot' = map /\ UNCHANGED map

Next ==
  \/ \E e \in Entities, v \in Values : Populate(e, v)
  \/ \E e \in Entities : Destroy(e)
  \/ TakeSnapshot

Spec == Init /\ [][Next]_vars
=============================================================================

----------------------------- MODULE Component -----------------------------
(***************************************************************************)
(* neolib::ecs::component<Data>: the records of one component, kept dense  *)
(* in a vector, with the entity of each record and, by entity, the index   *)
(* of its record; and a snapshot, which is another such component.         *)
(* Every operation holds the component's mutex throughout.                 *)
(***************************************************************************)
EXTENDS Integers, Sequences

CONSTANTS Entities,    \* entity ids in use
          NullEntity,
          Values,
          Absent,
          MaxUsers,    \* bound: scoped_snapshots at a time
          MaxFailures  \* bound: allocations that fail

ASSUME ComponentAssumption ==
  /\ NullEntity \notin Entities /\ Absent \notin Values
  /\ MaxUsers \in Nat /\ MaxFailures \in Nat

Ids == Entities \cup {NullEntity}

\* An index into the vectors; 0 stands for `invalid` and for an entity that
\* iReverseIndices is too short for.
Invalid == 0

VARIABLES
  data,      \* iComponentData
  entities,  \* iEntities
  reverse,   \* iReverseIndices
  snap,      \* *iSnapshot: its data, entities and reverse
  have,      \* iHaveSnapshot
  users,     \* iUsingSnapshot
  failures   \* allocations that failed

table == <<data, entities, reverse>>
vars == <<table, snap, have, users, failures>>

TablesOK(d, e, r) ==
  /\ d \in Seq(Values) /\ e \in Seq(Ids) /\ Len(d) = Len(e)
  /\ r \in [Ids -> 0 .. Len(e)]

\* A record's entity leads back to it, and nothing else leads anywhere, but
\* for the record a failed allocation left without an entity.
LeadsBack(e, r) ==
  /\ \A i \in DOMAIN e : e[i] # NullEntity => r[e[i]] = i
  /\ \A x \in Entities : r[x] # Invalid => r[x] \in DOMAIN e /\ e[r[x]] = x

TypeOK ==
  /\ TablesOK(data, entities, reverse)
  /\ TablesOK(snap.data, snap.entities, snap.reverse)
  /\ have \in BOOLEAN /\ users \in 0 .. MaxUsers /\ failures \in 0 .. MaxFailures

----------------------------------------------------------------------------
Empty == [data |-> <<>>, entities |-> <<>>, reverse |-> [x \in Ids |-> Invalid]]

Init ==
  /\ data = <<>> /\ entities = <<>> /\ reverse = [x \in Ids |-> Invalid]
  /\ snap = Empty /\ have = FALSE /\ users = 0 /\ failures = 0

\* do_populate() of an entity that has no record
Add(x, v) ==
  /\ reverse[x] = Invalid
  /\ data' = Append(data, v)
  /\ entities' = Append(entities, x)
  /\ reverse' = [reverse EXCEPT ![x] = Len(data) + 1]
  /\ UNCHANGED <<snap, have, users, failures>>

\* ... whose iReverseIndices cannot grow: the record stays, without entity.
\* (When iEntities cannot grow the record is removed again.)
AddFails(x, v) ==
  /\ reverse[x] = Invalid /\ failures < MaxFailures
  /\ data' = Append(data, v)
  /\ entities' = Append(entities, NullEntity)
  /\ failures' = failures + 1
  /\ UNCHANGED <<reverse, snap, have, users>>

\* do_update()
Update(x, v) ==
  /\ reverse[x] # Invalid
  /\ data' = [data EXCEPT ![reverse[x]] = v]
  /\ UNCHANGED <<entities, reverse, snap, have, users, failures>>

\* swap with back(), pop_back()
SwapPop(s, i) == [j \in 1 .. Len(s) - 1 |-> IF j = i THEN s[Len(s)] ELSE s[j]]

\* Mutant: the entity's index is invalidated before the last one's is set.
Relinked_Early(e, r, x) == [r EXCEPT ![x] = Invalid, ![e[Len(e)]] = r[x]]

\* reverse_indices()[tailEntity] = reverseIndex, then that of x = invalid
Relinked(e, r, x) == [r EXCEPT ![e[Len(e)]] = r[x], ![x] = Invalid]

Removed(t, x) ==
  [data |-> SwapPop(t.data, t.reverse[x]),
   entities |-> SwapPop(t.entities, t.reverse[x]),
   reverse |-> Relinked(t.entities, t.reverse, x)]

\* Mutant: the snapshot keeps the record.
Unsnapped_Not(x) == snap

\* destroy_entity_record() of the snapshot, if there is one
Unsnapped(x) == IF have /\ snap.reverse[x] # Invalid THEN Removed(snap, x) ELSE snap

\* destroy_entity_record()
Destroy(x) ==
  LET t == Removed([data |-> data, entities |-> entities, reverse |-> reverse], x) IN
  /\ reverse[x] # Invalid
  /\ data' = t.data /\ entities' = t.entities /\ reverse' = t.reverse
  /\ snap' = Unsnapped(x)
  /\ UNCHANGED <<have, users, failures>>

Free == users = 0

TakeSnapshot ==
  /\ Free
  /\ snap' = [data |-> data, entities |-> entities, reverse |-> reverse]
  /\ have' = TRUE
  /\ UNCHANGED <<table, users, failures>>

\* snapshot() and the end of a scoped_snapshot
UseSnapshot ==
  /\ have /\ users < MaxUsers
  /\ users' = users + 1 /\ UNCHANGED <<table, snap, have, failures>>
LeaveSnapshot ==
  /\ users > 0
  /\ users' = users - 1 /\ UNCHANGED <<table, snap, have, failures>>

Swapped(s, i, j) == [s EXCEPT ![i] = s[j], ![j] = s[i]]

\* sort(): one call of the swap it hands to intrusive_sort()
SortSwap(i, j) ==
  /\ data' = Swapped(data, i, j)
  /\ entities' = Swapped(entities, i, j)
  /\ reverse' = [reverse EXCEPT ![entities[j]] = i, ![entities[i]] = j]
  /\ UNCHANGED <<snap, have, users, failures>>

Next ==
  \/ \E x \in Entities, v \in Values : Add(x, v) \/ AddFails(x, v) \/ Update(x, v)
  \/ \E x \in Entities : Destroy(x)
  \/ TakeSnapshot \/ UseSnapshot \/ LeaveSnapshot
  \/ \E i \in DOMAIN data, j \in DOMAIN data : i # j /\ SortSwap(i, j)

Spec == Init /\ [][Next]_vars

----------------------------------------------------------------------------
\* The three vectors agree, in the component and in its snapshot, whatever
\* was added, removed by swapping, sorted or left half added before.
IndicesAgree ==
  LeadsBack(entities, reverse) /\ LeadsBack(snap.entities, snap.reverse)

Lookup(d, r) == [x \in Entities |-> IF r[x] = Invalid THEN Absent ELSE d[r[x]]]

\* The component implements a map, and its snapshot a copy of one without
\* the entities destroyed since: an id that is used again never finds the
\* record of the entity that had it before.
AbstractMap == INSTANCE ComponentMap WITH
  map <- Lookup(data, reverse), snapshot <- Lookup(snap.data, snap.reverse)
ComponentMapSpec == AbstractMap!Spec

\* While a scoped_snapshot exists the snapshot only loses records.
SnapshotHeld ==
  [][users > 0 => \A x \in Entities : snap'.reverse[x] # Invalid =>
       /\ snap.reverse[x] # Invalid
       /\ snap'.data[snap'.reverse[x]] = snap.data[snap.reverse[x]]]_vars
=============================================================================

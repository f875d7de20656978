---------------------------- MODULE HandleTable ----------------------------
(***************************************************************************)
(* The handles that components keep in neolib::ecs::ecs, by handle_id.     *)
(* Every operation holds the mutex of the ecs.  None knows which ids are   *)
(* in use: any id in the range of the table can be updated or released,    *)
(* null_id and one that is free among them, as component's                 *)
(* destroy_entity_record() does when it frees the handles of a record and  *)
(* then those of the record's copy in the snapshot.                        *)
(***************************************************************************)
EXTENDS Integers, Sequences, SequencesExt

CONSTANTS Handles,
          Null,   \* a null handle_t
          MaxId,  \* the largest handle_id
          MaxFreed \* bound: entries of iFreedHandleIds

HandleAssumption == Null \notin Handles /\ MaxId \in Nat \ {0} /\ MaxFreed \in Nat

Ids == 0 .. MaxId   \* 0 is null_id

VARIABLES
  size,     \* iHandles.size()
  handles,  \* the elements of iHandles; beyond its end there is nothing that
            \* could be relied upon
  next,     \* iNextHandleId
  freed,    \* iFreedHandleIds
  given,    \* history: the handle last stored under each id
  kept,     \* history: ids whose handle was stored in the table
  strays    \* history: ids updated or released when they were not in use

vars == <<size, handles, next, freed, given, kept, strays>>

TypeOK ==
  /\ size = next
  /\ handles \in [Ids -> Handles \cup {Null}]
  /\ next \in 0 .. MaxId /\ freed \in Seq(Ids)
  /\ given \in [Ids -> Handles \cup {Null}] /\ kept \subseteq Ids
  /\ strays \subseteq Ids

Init ==
  /\ size = 0 /\ next = 0 /\ freed = <<>>
  /\ handles = [i \in Ids |-> Null] /\ given = [i \in Ids |-> Null]
  /\ kept = {} /\ strays = {}

InTable(i) == i < size

\* resize(n), which constructs the elements from the old size on
Resized(n) == [i \in Ids |-> IF i \in size .. n - 1 THEN Null ELSE handles[i]]

\* Mutant: the id that is used again stays in the list.
TakeFreed_Kept(i) == freed # <<>> /\ i = Last(freed) /\ UNCHANGED <<next, freed>>

\* next_handle_id(), which throws when there is no id left
TakeFreed(i) == freed # <<>> /\ i = Last(freed) /\ freed' = Front(freed) /\ UNCHANGED next

TakeNext(i) == freed = <<>> /\ next < MaxId /\ i = next + 1 /\ next' = i /\ UNCHANGED freed

\* if (iHandles.size() <= i) iHandles.resize(i): up to i, without i
NewSize(i) == IF size <= i THEN i ELSE size

\* add_handle(): for a new id it writes past the end
Add(i, h) ==
  /\ TakeFreed(i) \/ TakeNext(i)
  /\ size' = NewSize(i)
  /\ handles' = IF i < size' THEN [Resized(size') EXCEPT ![i] = h] ELSE Resized(size')
  /\ kept' = IF i < size' THEN kept \cup {i} ELSE kept \ {i}
  /\ given' = [given EXCEPT ![i] = h]
  /\ UNCHANGED strays

\* Ids that were given out and not released.
Issued == 1 .. next \ ToSet(freed)

\* update_handle(), which throws for an id beyond the end
Update(i, h) ==
  /\ InTable(i)
  /\ handles' = [handles EXCEPT ![i] = h] /\ given' = [given EXCEPT ![i] = h]
  /\ kept' = kept \cup {i} /\ strays' = strays \cup ({i} \ Issued)
  /\ UNCHANGED <<size, next, freed>>

\* release_handle(), likewise
Release(i) ==
  /\ InTable(i) /\ Len(freed) < MaxFreed
  /\ handles' = [handles EXCEPT ![i] = Null] /\ given' = [given EXCEPT ![i] = Null]
  /\ kept' = kept \ {i} /\ freed' = Append(freed, i) /\ strays' = strays \cup ({i} \ Issued)
  /\ UNCHANGED <<size, next>>

Next == \E i \in Ids : Release(i) \/ \E h \in Handles : Add(i, h) \/ Update(i, h)

Spec == Init /\ [][Next]_vars

----------------------------------------------------------------------------
\* No id is given out that is in use, but for those somebody released (again)
\* or updated while they were not in use.
GivenOnce ==
  [][\A i \in Ids, h \in Handles : Add(i, h) => given[i] = Null \/ i \in strays]_vars

\* A handle stored in the table is found until it is replaced or released;
\* what add_handle() stores past the end, for a new id, is not.
Kept == \A i \in kept : InTable(i) /\ handles[i] = given[i]
=============================================================================

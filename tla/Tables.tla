------------------------------- MODULE Tables -------------------------------
(***************************************************************************)
(* What keeps items where they are found again by a number: the tables of  *)
(* the entity component system, which are a component (module Component),  *)
(* the ids and records of entities, and the table of handles; and          *)
(* basic_jar.  They share nothing here.                                    *)
(***************************************************************************)
EXTENDS Component

CONSTANTS Clients,     \* threads that create and destroy entities
          MaxEntities, \* bound: entities ever created
          MaxAsked,    \* bound: requests to destroy one of them
          MaxEntityId, MaxHandleId,
          MaxFreed,    \* bound: entries of the list of freed handle ids
          Threads,     \* that use the jar
          InvalidCookie,
          MaxThrows    \* bound: handlers, and constructions of items, that throw

VARIABLES
  nextId, freedIds, record, marked, queue, list, pc, id, throws, asked, gone, lost, exhausted,
  size, handles, nextHandle, freedHandles, given, kept, strays,
  nextCookie, free, allocated, items, indices, pending, itemThrows, itemGiven, astray

I == INSTANCE EntityIds WITH MaxId <- MaxEntityId, next <- nextId, freed <- freedIds
H == INSTANCE HandleTable WITH
  Handles <- Values, Null <- Absent, MaxId <- MaxHandleId, next <- nextHandle, freed <- freedHandles
J == INSTANCE Jar WITH
  Items <- Values, Invalid <- InvalidCookie, next <- nextCookie, reverse <- indices,
  throws <- itemThrows, given <- itemGiven

ASSUME TablesAssumption == I!EntityIdsAssumption /\ H!HandleAssumption /\ J!JarAssumption

idVars == <<nextId, freedIds, record, marked, queue, list, pc, id, throws, asked, gone, lost, exhausted>>
handleVars == <<size, handles, nextHandle, freedHandles, given, kept, strays>>
jarVars == <<nextCookie, free, allocated, items, indices, pending, itemThrows, itemGiven, astray>>

----------------------------------------------------------------------------
\* The component implements a map with a snapshot, which only loses records
\* while somebody uses it.
ComponentSafe == []TypeOK /\ ComponentMapSpec /\ SnapshotHeld

\* Every id of an entity is in use or can be used again, once; an entity keeps
\* its records, whoever had its id before; and one that is marked as destroyed
\* is on its way there.  No handle id is given out that is in use, unless it
\* was released or updated when it was not; a handle in the table is found there.
IdsSafe ==
  /\ [](I!TypeOK /\ I!IdsAccounted /\ I!KeepsRecord /\ I!MarkedIsQueued)
  /\ [](H!TypeOK /\ H!Kept) /\ H!GivenOnce

\* A cookie finds the item that was added under it, and is in use, in one
\* thread's hands, or free.
JarSafe == J!TypeOK /\ J!Found /\ J!CookiesAccounted
=============================================================================

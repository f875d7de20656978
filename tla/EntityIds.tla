----------------------------- MODULE EntityIds -----------------------------
(***************************************************************************)
(* neolib::ecs::ecs: the ids of entities, which are used again, and the    *)
(* records kept under them.  Client threads create and destroy entities,   *)
(* at once or through iEntitiesToDestroy, which the system timer empties.  *)
(***************************************************************************)
EXTENDS Integers, Sequences, SequencesExt, FiniteSets

CONSTANTS Clients,
          MaxId,       \* the largest entity_id
          MaxEntities, \* bound: entities ever created
          MaxAsked,    \* bound: requests to destroy one entity
          MaxThrows    \* bound: handlers of EntityDestroyed that throw

EntityIdsAssumption ==
  /\ IsFiniteSet(Clients)
  /\ MaxId \in Nat \ {0} /\ MaxEntities \in Nat
  /\ MaxAsked \in Nat /\ MaxThrows \in Nat

VARIABLES
  next,      \* iNextEntityId
  freed,     \* iFreedEntityIds
  record,    \* the entity whose record is kept under each id; 0: none
  marked,    \* entities whose entity_info says `destroyed`
  queue,     \* iEntitiesToDestroy: the entities asked for, for their ids
  list,      \* what commit_async_entity_destruction() took from it
  pc,        \* what each thread is doing, and with which entity
  id,        \* the id each entity got; 0: not created yet
  throws,
  asked,     \* history: how often each entity was asked to be destroyed
  gone,      \* history: entities that were destroyed
  lost,      \* history: entities whose destruction a throw gave up
  exhausted  \* history: entity_ids_exhausted was thrown

ids == <<next, freed, exhausted>>
vars == <<ids, record, marked, queue, list, pc, id, throws, asked, gone, lost>>

Null == 0
AllEntities == 1 .. MaxEntities
Timer == "timer"
EcsThreads == Clients \cup {Timer}
Idle == <<"idle", 0>>

TypeOK ==
  /\ next \in 0 .. MaxId /\ freed \in Seq(1 .. MaxId)
  /\ record \in [1 .. MaxId -> {0} \cup AllEntities]
  /\ queue \in Seq(AllEntities) /\ list \in Seq(AllEntities)
  /\ pc \in [EcsThreads ->
       {"idle", "populate", "remove", "free", "queue"} \X ({0} \cup AllEntities)]
  /\ id \in [AllEntities -> 0 .. MaxId]
  /\ marked \cup gone \cup lost \subseteq AllEntities /\ asked \in [AllEntities -> 0 .. MaxAsked]
  /\ throws \in 0 .. MaxThrows /\ exhausted \in BOOLEAN

Created == {e \in AllEntities : id[e] # 0}

\* The timer holds every component's mutex while it works through its list.
\* (It drops them between the steps of a destroy_entity() of a client.)
Locked(t) == t # Timer /\ (list # <<>> \/ pc[Timer] # Idle)

Become(t, what, e) == pc' = [pc EXCEPT ![t] = <<what, e>>]

----------------------------------------------------------------------------
\* Mutant: the id that is used again stays in the list.
TakeFreed_Kept ==
  /\ freed # <<>>
  /\ UNCHANGED ids

\* next_entity_id(): a freed id, or else a new one
TakeFreed ==
  /\ freed # <<>>
  /\ freed' = Front(freed) /\ UNCHANGED <<next, exhausted>>

TakeNext ==
  /\ freed = <<>>
  /\ next' = (next + 1) % (MaxId + 1)
  /\ exhausted' = (exhausted \/ next' = Null)
  /\ UNCHANGED freed

\* create_entity(), up to the end of next_entity_id(); without an id it throws
Create(t) ==
  /\ t # Timer /\ pc[t] = Idle /\ Cardinality(Created) < MaxEntities
  /\ LET e == Cardinality(Created) + 1 IN
       \/ TakeFreed /\ id' = [id EXCEPT ![e] = Last(freed)] /\ Become(t, "populate", e)
       \/ TakeNext /\ next' # Null /\ id' = [id EXCEPT ![e] = next'] /\ Become(t, "populate", e)
       \/ TakeNext /\ next' = Null /\ UNCHANGED <<id, pc>>
  /\ UNCHANGED <<record, marked, queue, list, throws, asked, gone, lost>>

\* ... and its entity_info; EntityCreated
Populate(t) ==
  /\ pc[t][1] = "populate" /\ ~Locked(t)
  /\ record' = [record EXCEPT ![id[pc[t][2]]] = pc[t][2]]
  /\ pc' = [pc EXCEPT ![t] = Idle]
  /\ UNCHANGED <<ids, marked, queue, list, id, throws, asked, gone, lost>>

\* Entities that a client may have the id of.
Known == {e \in Created : \A t \in EcsThreads : pc[t] # <<"populate", e>>}

Ask(e) == asked[e] < MaxAsked /\ asked' = [asked EXCEPT ![e] = @ + 1]

\* destroy_entity() of a client: EntityDestroyed; a handler may throw
Destroy(t, e) ==
  /\ t # Timer /\ pc[t] = Idle
  /\ Become(t, "remove", e) /\ Ask(e)
  /\ UNCHANGED <<ids, record, marked, queue, list, id, throws, gone, lost>>

\* ... the records under the id
Unrecord(t) ==
  LET e == pc[t][2] IN
  /\ pc[t][1] = "remove" /\ ~Locked(t)
  /\ record' = [record EXCEPT ![id[e]] = 0]
  /\ Become(t, "free", e)
  /\ UNCHANGED <<ids, marked, queue, list, id, throws, asked, gone, lost>>

\* ... free_entity_id()
Free(t) ==
  LET e == pc[t][2] IN
  /\ pc[t][1] = "free"
  /\ freed' = Append(freed, id[e]) /\ gone' = gone \cup {e}
  /\ pc' = [pc EXCEPT ![t] = Idle]
  /\ UNCHANGED <<next, exhausted, record, marked, queue, list, id, throws, asked, lost>>

\* async_destroy_entity(): mark the record under the id, whosever it is;
\* without one, entity_record_not_found.  time::apply() skips entities
\* that are marked, other callers do not.
Mark(t, e) ==
  /\ t # Timer /\ pc[t] = Idle /\ ~Locked(t) /\ record[id[e]] # 0
  /\ marked' = marked \cup {record[id[e]]}
  /\ Become(t, "queue", e) /\ Ask(e)
  /\ UNCHANGED <<ids, record, queue, list, id, throws, gone, lost>>

Enqueue(t) ==
  /\ pc[t][1] = "queue"
  /\ queue' = Append(queue, pc[t][2])
  /\ pc' = [pc EXCEPT ![t] = Idle]
  /\ UNCHANGED <<ids, record, marked, list, id, throws, asked, gone, lost>>

Taken == <<>>

\* commit_async_entity_destruction()
Commit ==
  /\ queue # <<>> /\ list = <<>> /\ pc[Timer] = Idle
  /\ list' = queue /\ queue' = Taken
  /\ UNCHANGED <<ids, record, marked, pc, id, throws, asked, gone, lost>>

\* Mutant: what is taken off the list is not what was destroyed.
CommitNext_Front ==
  /\ list # <<>> /\ pc[Timer] = Idle
  /\ Become(Timer, "remove", Last(list)) /\ list' = Tail(list)
  /\ UNCHANGED <<ids, record, marked, queue, id, throws, asked, gone, lost>>

\* ... destroys the last one first
CommitNext ==
  /\ list # <<>> /\ pc[Timer] = Idle
  /\ Become(Timer, "remove", Last(list)) /\ list' = Front(list)
  /\ UNCHANGED <<ids, record, marked, queue, id, throws, asked, gone, lost>>

\* ... whose handlers of EntityDestroyed throw: the rest is given up, too
CommitThrows ==
  /\ list # <<>> /\ pc[Timer] = Idle /\ throws < MaxThrows
  /\ throws' = throws + 1
  /\ lost' = lost \cup ToSet(list) /\ list' = <<>>
  /\ UNCHANGED <<ids, record, marked, queue, pc, id, asked, gone>>

Init ==
  /\ next = Null /\ freed = <<>> /\ exhausted = FALSE
  /\ record = [i \in 1 .. MaxId |-> 0] /\ marked = {}
  /\ queue = <<>> /\ list = <<>> /\ pc = [t \in EcsThreads |-> Idle]
  /\ id = [e \in AllEntities |-> 0]
  /\ throws = 0 /\ asked = [e \in AllEntities |-> 0] /\ gone = {} /\ lost = {}

Next ==
  \/ Commit \/ CommitNext \/ CommitThrows
  \/ \E t \in EcsThreads :
       \/ Create(t) \/ Populate(t) \/ Unrecord(t) \/ Free(t) \/ Enqueue(t)
       \/ \E e \in Known : Destroy(t, e) \/ Mark(t, e)

Spec == Init /\ [][Next]_vars

\* iSystemTimer fires, and a thread that took a lock goes on.
Fairness ==
  /\ WF_vars(Commit) /\ WF_vars(CommitNext)
  /\ \A t \in EcsThreads : WF_vars(Populate(t) \/ Unrecord(t) \/ Free(t) \/ Enqueue(t))

FairSpec == Spec /\ Fairness

----------------------------------------------------------------------------
\* Ids whose entity was destroyed twice: through iEntitiesToDestroy and by
\* its owner, or by two systems.  What happens to them is not promised.
Twice == {id[e] : e \in {f \in AllEntities : asked[f] > 1}}

Holders(i) == {e \in Created \ gone : id[e] = i}

\* Every id that was ever issued is that of one entity or can be issued
\* again, once: not lost, and not shared by two entities.
IdsAccounted ==
  exhausted \/ \A i \in 1 .. next \ Twice :
    Cardinality(Holders(i)) + Cardinality({k \in DOMAIN freed : freed[k] = i}) = 1

\* An entity that nobody asked to destroy keeps its records, whatever
\* became of the entities that had its id before.
KeepsRecord ==
  exhausted \/ \A e \in Known : asked[e] = 0 /\ id[e] \notin Twice => record[id[e]] = e

\* An entity marked as destroyed, which time::apply() no longer looks at,
\* is on its way to destruction, unless a handler's exception gave it up.
MarkedIsQueued ==
  exhausted \/ \A e \in marked \ (gone \cup lost) : id[e] \notin Twice =>
    \/ e \in ToSet(queue) \cup ToSet(list)
    \/ \E t \in EcsThreads : pc[t][2] = e

\* An entity in iEntitiesToDestroy is destroyed or given up.
QueuedDestroyed ==
  \A e \in AllEntities : e \in ToSet(queue) ~> e \in gone \cup lost
=============================================================================

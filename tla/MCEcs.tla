------------------------------- MODULE MCEcs -------------------------------
(***************************************************************************)
(* What keeps items where they are found again, as TLC checks it: the      *)
(* tables of module Tables, and the segmented array and tree.  The parts   *)
(* share nothing here, so that a behaviour is one of one part, the others  *)
(* staying as they begin.                                                  *)
(***************************************************************************)
EXTENDS Tables

CONSTANTS Parts,       \* the parts that are checked
          Marked, Default, SegmentSize, MaxNodes, MaxInsert, MaxSize, \* of the segmented array
          Ranks, MaxTreeNodes, MaxHigh, MaxSkips, MaxCount            \* of the segmented tree

VARIABLES part, arr, tree, branchErased, disturbed

A == INSTANCE SegmentedArray
T == INSTANCE SegmentedTree WITH MaxNodes <- MaxTreeNodes, Values <- Ranks

ASSUME PartsAssumption == A!SegmentedArrayAssumption /\ T!SegmentedTreeAssumption

treeVars == <<tree, branchErased, disturbed>>

\* An array and a tree that are not checked are no more than empty lists.
EcsInit ==
  /\ part \in Parts /\ Init /\ I!Init /\ H!Init /\ J!Init
  /\ IF part = "array" THEN A!Init ELSE arr = [front |-> A!Null]
  /\ IF part = "tree" THEN T!Init ELSE tree = <<>> /\ branchErased = FALSE /\ disturbed = FALSE

ComponentStep == part = "component" /\ Next /\ UNCHANGED <<part, idVars, handleVars, jarVars, arr, treeVars>>
IdStep == part = "ids" /\ I!Next /\ UNCHANGED <<part, vars, handleVars, jarVars, arr, treeVars>>
HandleStep == part = "handles" /\ H!Next /\ UNCHANGED <<part, vars, idVars, jarVars, arr, treeVars>>
JarStep == part = "jar" /\ J!Next /\ UNCHANGED <<part, vars, idVars, handleVars, arr, treeVars>>
ArrayStep == part = "array" /\ A!Next /\ UNCHANGED <<part, vars, idVars, handleVars, jarVars, treeVars>>
TreeStep == part = "tree" /\ T!Next /\ UNCHANGED <<part, vars, idVars, handleVars, jarVars, arr>>

Goes(p, Step) == part = p /\ Step

\* The fairness is that of the entities' ids, in behaviours of that part.
EcsSpec ==
  /\ EcsInit
  /\ [][ComponentStep \/ IdStep \/ HandleStep \/ JarStep \/ ArrayStep \/ TreeStep]_
       <<part, vars, idVars, handleVars, jarVars, arr, treeVars>>
  /\ WF_idVars(Goes("ids", I!Commit)) /\ WF_idVars(Goes("ids", I!CommitNext))
  /\ \A t \in I!EcsThreads :
       WF_idVars(Goes("ids", I!Populate(t) \/ I!Unrecord(t) \/ I!Free(t) \/ I!Enqueue(t)))

----------------------------------------------------------------------------
\* An entity in iEntitiesToDestroy is destroyed or given up.
QueuedDestroyed == I!QueuedDestroyed

\* A segmented_array is a vector, whatever segments are split, filled and freed;
\* indices and iterators lead through its tree, which stays balanced, to the same
\* items; and only ranges that need room on both sides of an item are refused.
ArraySafe ==
  /\ A!Promised!Init /\ [][part = "array" => A!Promised!Next]_(A!Items(arr))
  /\ [](part = "array" => A!TypeOK /\ A!ReachedByIndex /\ A!Shaped /\ A!ReturnedThere /\ A!RefusedOnlyRange)

\* Traversals of a segmented_tree visit each node once in both directions, its
\* counts are right until a branch is erased, erase() returns where the traversal
\* goes on, and sort() sorts whatever the counts it goes by say.
TreeSafe ==
  part = "tree" =>
    /\ T!TypeOK /\ T!VisitsAll /\ T!CountsUntilBranchErased /\ T!SkippedUntilDisturbed
    /\ T!EraseReturnsNext /\ T!SortsAll
=============================================================================

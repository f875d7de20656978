------------------------------- MODULE MCCore -------------------------------
(***************************************************************************)
(* What the rest of the library is built from, as TLC checks it: the       *)
(* recursive mutex (module RecursiveMutex), reference counting in one      *)
(* thread and in several, gap_vector, and the settings that a program      *)
(* keeps.  The parts share nothing here, so that a behaviour is one of one *)
(* part, the others staying as they begin.  The mutex is checked as it     *)
(* waits and as it spins (that lock() returns is checked by MCThread).     *)
(***************************************************************************)
EXTENDS RecursiveMutex, TLC

CONSTANTS Parts,                         \* the parts that are checked
          Values,                        \* of settings and items
          MaxInsert, MaxEach, MaxSize,   \* of the gap_vector
          Keys, MaxChanges, MaxRuns, MaxDepth, \* of the settings
          Objects, Pointers, WeakPointers,
          First,                         \* the thread that makes the shared object
          Pinners, Two,                  \* threads that pin it, and those that share one that is pinned
          MaxLost, DefaultGapSize, NearnessFactor, Reservations

VARIABLES
  part,
  life, count, pinned, to, counted, block, weakCount, weak, loose, lost, usurped, revived,
  sharedCount, sharedPinned, sharedLife, controlled, sharedBlock, expired, sharedWeakCount, has,
  sharedWeak, at, seen, destroys, races,
  vec, returned,
  registered, default, value, new, modified, saves, saving, store, file, runs, changes, saved, fresh,
  forgotten, unsaved

Spinning == INSTANCE RecursiveMutex WITH Spinlock <- TRUE
R == INSTANCE RefPtr
S == INSTANCE SharedObject WITH
  count <- sharedCount, pinned <- sharedPinned, life <- sharedLife, block <- sharedBlock,
  weakCount <- sharedWeakCount, weak <- sharedWeak, pc <- at
G == INSTANCE GapVector
C == INSTANCE Settings WITH calls <- saves

ASSUME PartsAssumption ==
  /\ R!RefPtrAssumption /\ S!SharedAssumption /\ G!GapAssumption /\ C!SettingsAssumption
  /\ First \in Two /\ Two \subseteq Threads

refVars == <<life, count, pinned, to, counted, block, weakCount, weak, loose, lost, usurped, revived>>
sharedVars == <<sharedCount, sharedPinned, sharedLife, controlled, sharedBlock, expired, sharedWeakCount,
                has, sharedWeak, at, seen, destroys, races>>
vectorVars == <<vec, returned>>
settingsVars == <<registered, default, value, new, modified, saves, saving, store, file, runs, changes,
                  saved, fresh, forgotten, unsaved>>

CoreInit == part \in Parts /\ Init /\ R!Init /\ S!Init /\ has = {First} /\ G!Init /\ C!Init

MutexStep ==
  /\ (part = "wait" /\ Next) \/ (part = "spin" /\ Spinning!Next)
  /\ UNCHANGED <<part, refVars, sharedVars, vectorVars, settingsVars>>
RefStep == part = "pointers" /\ R!Next /\ UNCHANGED <<part, vars, sharedVars, vectorVars, settingsVars>>
SharedStep ==
  /\ S!Next
  /\ (part = "shared" /\ ~sharedPinned') \/ (part = "pinned" /\ has' \subseteq Two)
  /\ UNCHANGED <<part, vars, refVars, vectorVars, settingsVars>>
VectorStep == part = "vector" /\ G!Next /\ UNCHANGED <<part, vars, refVars, sharedVars, settingsVars>>
SettingsStep == part = "settings" /\ C!Next /\ UNCHANGED <<part, vars, refVars, sharedVars, vectorVars>>

CoreSpec ==
  /\ CoreInit
  /\ [][MutexStep \/ RefStep \/ SharedStep \/ VectorStep \/ SettingsStep]_
       <<part, vars, refVars, sharedVars, vectorVars, settingsVars>>

\* Objects, and the pointers to them, are told apart by nothing.
Symmetry == Permutations(Objects) \cup Permutations(Pointers) \cup Permutations(WeakPointers)

----------------------------------------------------------------------------
\* The count of an object is that of its pointers, an object lives exactly
\* while it is counted, pinned or given away, and a weak pointer finds it or
\* learns that it is gone.
RefsSafe ==
  part = "pointers" => R!TypeOK /\ R!CountExact /\ R!AliveWhileHeld /\ R!WeakFinds

\* An object that threads share is destroyed once and its block once, after
\* all that use them, but for the races that the code has.
SharedSafe ==
  part \in {"shared", "pinned"} => S!TypeOK /\ S!DestroyedOnce /\ S!BlockThere /\ S!NoneLeaks

\* The destructor's assertion: the object is not in use.
NotDestroyedInUse == S!NotDestroyedInUse

\* A gap_vector is a vector whatever its gap does: in its items, ...
VectorSpec == G!VectorSpec

\* ... in its iterators, and in the objects that live in its cells.
VectorSafe ==
  part = "vector" => G!TypeOK /\ G!IteratorsAgree /\ G!ReturnedThere /\ G!LifetimesExact

\* Settings that say they are not modified are in the file, and a setting has,
\* in whatever run of the program, the value that was saved last.
SettingsSafe == part = "settings" => C!TypeOK /\ C!CleanIsSaved /\ C!Remembered
=============================================================================

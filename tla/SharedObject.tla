---------------------------- MODULE SharedObject ----------------------------
(***************************************************************************)
(* One reference_counted object whose ref_ptrs and weak_ref_ptrs belong to *)
(* several threads.  What is atomic in the code is one step here: one      *)
(* operation of an std::atomic, or one read or write of a plain member.    *)
(* Module RefPtr has the pointers of one thread.                           *)
(***************************************************************************)
EXTENDS Integers, FiniteSets

CONSTANTS Threads,
          Pinners   \* threads that pin and unpin the object

SharedAssumption == IsFiniteSet(Threads) /\ Threads # {} /\ Pinners \subseteq Threads

VARIABLES
  count,      \* iReferenceCount
  pinned,     \* iPinned
  life,       \* of the object
  controlled, \* iControlled
  block,      \* the control block iControlBlock points at
  expired,    \* its iManagedPtr is null
  weakCount,  \* its iWeakUseCount
  has,        \* threads with a ref_ptr
  weak,       \* threads with a weak_ref_ptr
  pc,         \* per thread: where it is
  seen,       \* per thread: the iWeakUseCount it has read
  destroys,   \* history: calls of destroy()
  races       \* history: what two threads were in at once
object == <<count, pinned, life, destroys>>
control == <<controlled, block, expired, weakCount>>
vars == <<object, control, has, weak, pc, seen, races>>

Races == {"unpin", "upgrade", "block", "weak count", "expire"}

TypeOK ==
  /\ count \in 0 .. Cardinality(Threads) /\ pinned \in BOOLEAN
  /\ life \in {"alive", "dying", "gone"} /\ controlled \in BOOLEAN
  /\ block \in {"null", "there", "deleted"} /\ expired \in BOOLEAN
  /\ weakCount \in 0 .. Cardinality(Threads)
  /\ has \subseteq Threads /\ weak \subseteq Threads
  /\ pc \in [Threads -> {"ready", "released", "unpinned", "destroy", "destructor", "expire",
                         "expired", "make", "take", "add", "leave", "left", "upgrade"}]
  /\ seen \in [Threads -> 0 .. Cardinality(Threads)] /\ destroys \in Nat /\ races \subseteq Races

----------------------------------------------------------------------------
Goes(t, where) == pc' = [pc EXCEPT ![t] = where]
At(t, where) == pc[t] = where
Raced(kind, cond) == races' = IF cond THEN races \cup {kind} ELSE races

\* Another thread is given a copy of the pointer.
Copy(t, u) ==
  /\ At(t, "ready") /\ At(u, "ready") /\ t \in has /\ u \notin has /\ life = "alive"
  /\ count' = count + 1 /\ has' = has \cup {u}
  /\ UNCHANGED <<pinned, life, destroys, control, weak, pc, seen, races>>

\* Mutant: a reference that is left is not seen.
Last_One(n) == n <= 1

\* (iReferenceCount -= aCount) <= 0
Last(n) == n <= 0

Drop(t) ==
  /\ At(t, "ready") /\ t \in has /\ life = "alive"
  /\ count' = count - 1 /\ has' = has \ {t}
  /\ Goes(t, IF Last(count') THEN "released" ELSE "ready")
  /\ UNCHANGED <<pinned, life, destroys, control, weak, seen, races>>

Released(t) ==
  /\ At(t, "released") /\ Goes(t, IF pinned THEN "ready" ELSE "destroy")
  /\ UNCHANGED <<object, control, has, weak, seen, races>>

Pin(t) ==
  /\ At(t, "ready") /\ t \in has \cap Pinners /\ ~pinned /\ pinned' = TRUE
  /\ UNCHANGED <<count, life, destroys, control, has, weak, pc, seen, races>>

Unpin(t) ==
  /\ At(t, "ready") /\ t \in Pinners /\ pinned /\ life = "alive"
  /\ pinned' = FALSE /\ Goes(t, "unpinned")
  /\ Raced("unpin", \E u \in Threads : At(u, "released"))
  /\ UNCHANGED <<count, life, destroys, control, has, weak, seen>>

Unpinned(t) ==
  /\ At(t, "unpinned") /\ Goes(t, IF count <= 0 THEN "destroy" ELSE "ready")
  /\ Raced("unpin", \/ pinned \/ life # "alive"
                    \/ \E u \in Threads \ {t} : pc[u] \in {"released", "destroy", "destructor", "expire", "expired"})
  /\ UNCHANGED <<object, control, has, weak, seen>>

----------------------------------------------------------------------------
\* destroy(), and what ~reference_counted() does
Destroy(t) ==
  /\ At(t, "destroy") /\ destroys' = destroys + 1 /\ life' = "dying"
  /\ Goes(t, "destructor")
  /\ UNCHANGED <<count, pinned, control, has, weak, seen, races>>

Destructor(t) ==
  /\ At(t, "destructor") /\ controlled' = FALSE
  /\ IF controlled THEN Goes(t, "expire") /\ UNCHANGED life
     ELSE Goes(t, "ready") /\ life' = "gone"
  /\ UNCHANGED <<count, pinned, destroys, block, expired, weakCount, has, weak, seen, races>>

Expire(t) ==
  /\ At(t, "expire") /\ expired' = TRUE /\ Goes(t, "expired")
  /\ Raced("expire", \E u \in Threads : At(u, "left"))
  /\ UNCHANGED <<object, controlled, block, weakCount, has, weak, seen>>

BlockUnused(n) == n <= 0

Expired(t) ==
  /\ At(t, "expired") /\ life' = "gone" /\ Goes(t, "ready")
  /\ block' = IF BlockUnused(weakCount) THEN "deleted" ELSE block
  /\ Raced("weak count", \E u \in Threads : pc[u] \in {"add", "leave"})
  /\ UNCHANGED <<count, pinned, destroys, controlled, expired, weakCount, has, weak, seen>>

----------------------------------------------------------------------------
\* A weak_ref_ptr is made from a ref_ptr: control_block() ...
Weaken(t) ==
  /\ At(t, "ready") /\ t \in has /\ t \notin weak /\ life = "alive"
  /\ controlled' = TRUE /\ Goes(t, IF controlled THEN "take" ELSE "make")
  /\ UNCHANGED <<object, block, expired, weakCount, has, weak, seen, races>>

Make(t) ==
  /\ At(t, "make") /\ block' = "there" /\ Goes(t, "take")
  /\ UNCHANGED <<object, controlled, expired, weakCount, has, weak, seen, races>>

\* ... whose result is that of another thread that has yet to make it, and
\* add_ref(), which reads and writes a plain counter.
Take(t) ==
  /\ At(t, "take")
  /\ IF block = "null" THEN Goes(t, "ready") /\ UNCHANGED seen
     ELSE Goes(t, "add") /\ seen' = [seen EXCEPT ![t] = weakCount]
  /\ Raced("block", block = "null")
  /\ UNCHANGED <<object, control, has, weak>>

Add(t) ==
  /\ At(t, "add") /\ weakCount' = seen[t] + 1 /\ weak' = weak \cup {t} /\ Goes(t, "ready")
  /\ Raced("weak count", seen[t] # weakCount \/ \E u \in Threads \ {t} : pc[u] \in {"add", "leave"})
  /\ UNCHANGED <<object, controlled, block, expired, has, seen>>

\* iWeakUseCount -= aCount
Fewer(n) == n - 1

\* ~weak_ref_ptr(): ref_control_block::release()
Leave(t) ==
  /\ At(t, "ready") /\ t \in weak
  /\ seen' = [seen EXCEPT ![t] = weakCount] /\ Goes(t, "leave")
  /\ UNCHANGED <<object, control, has, weak, races>>

Left(t) ==
  /\ At(t, "leave") /\ weakCount' = Fewer(seen[t]) /\ weak' = weak \ {t}
  /\ Goes(t, IF BlockUnused(weakCount') THEN "left" ELSE "ready")
  /\ races' = races \cup (IF seen[t] # weakCount \/ \E u \in Threads \ {t} : pc[u] \in {"add", "leave"} THEN {"weak count"} ELSE {})
                    \cup (IF \E u \in Threads : At(u, "expired") THEN {"expire"} ELSE {})
  /\ UNCHANGED <<object, controlled, block, expired, has, seen>>

Deleted(t) ==
  /\ At(t, "left") /\ Goes(t, "ready")
  /\ block' = IF expired THEN "deleted" ELSE block
  /\ UNCHANGED <<object, controlled, expired, weakCount, has, weak, seen, races>>

\* A ref_ptr is made from a weak_ref_ptr: ptr(), and add_ref() of what it is.
Lock(t) ==
  /\ At(t, "ready") /\ t \in weak \ has /\ ~expired /\ block = "there" /\ Goes(t, "upgrade")
  /\ UNCHANGED <<object, control, has, weak, seen, races>>

Upgrade(t) ==
  /\ At(t, "upgrade") /\ count' = count + 1 /\ has' = has \cup {t} /\ Goes(t, "ready")
  /\ Raced("upgrade", life # "alive" \/ (count <= 0 /\ ~pinned) \/ \E u \in Threads : pc[u] \in {"released", "unpinned"})
  /\ UNCHANGED <<pinned, life, destroys, control, weak, seen>>

\* One thread has made the object.
Init ==
  /\ count = 1 /\ pinned = FALSE /\ life = "alive" /\ destroys = 0
  /\ controlled = FALSE /\ block = "null" /\ expired = FALSE /\ weakCount = 0
  /\ has \in {{t} : t \in Threads} /\ weak = {}
  /\ pc = [t \in Threads |-> "ready"] /\ seen = [t \in Threads |-> 0] /\ races = {}

\* Plain members that two threads use at once: anything may follow.
Undefined == races \cap {"block", "weak count", "expire"} # {}

Next ==
  /\ ~Undefined
  /\ \E t \in Threads :
       \/ \E u \in Threads : Copy(t, u)
       \/ Drop(t) \/ Released(t) \/ Pin(t) \/ Unpin(t) \/ Unpinned(t)
       \/ Destroy(t) \/ Destructor(t) \/ Expire(t) \/ Expired(t)
       \/ Weaken(t) \/ Make(t) \/ Take(t) \/ Add(t) \/ Leave(t) \/ Left(t) \/ Deleted(t)
       \/ Lock(t) \/ Upgrade(t)

Spec == Init /\ [][Next]_vars

----------------------------------------------------------------------------
\* The object is destroyed once, and not while a thread has a pointer to it,
\* unless it is unpinned while its last reference is released, is pinned again
\* before unpin() looks at the count, or a weak pointer is locked then.
DestroyedOnce ==
  races \cap {"unpin", "upgrade"} = {} =>
    /\ destroys <= 1
    /\ has # {} => life = "alive"

\* A weak pointer has its control block, until the last one or the object,
\* whichever is later, is gone, when it is deleted: unless two threads meet
\* in the plain members of the block or in making it.
BlockThere ==
  races = {} =>
    /\ weak # {} => block = "there"
    /\ block = "deleted" => expired /\ weakCount = 0
    /\ block = "there" /\ life = "gone" => weak # {} \/ \E t \in Threads : At(t, "left")

\* Nobody keeps an object that is neither referred to nor pinned.
NoneLeaks ==
  (\A t \in Threads : At(t, "ready")) /\ has = {} /\ ~pinned => life = "gone"

\* The assertion of the destructor: the object is not in use.
NotDestroyedInUse == \A t \in Threads : At(t, "destructor") => count <= 0 \/ pinned
=============================================================================

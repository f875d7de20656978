------------------------------- MODULE Event -------------------------------
(***************************************************************************)
(* neolib::event<Args...>: how sync_trigger() calls the slots of an event, *)
(* while the handlers it calls trigger, accept, subscribe, unsubscribe,    *)
(* throw and destroy the event.  The work list a trigger iterates over is  *)
(* not its own: it belongs to the thread and the depth of nesting, and is  *)
(* shared by all events of the same argument types.                        *)
(* What happens under the event's mutex is one step.                       *)
(***************************************************************************)
EXTENDS Integers, SequencesExt

CONSTANTS Events,      \* events of one instantiation of the template
          Slots,
          Threads,
          EventOf,     \* per slot: the event it subscribes to
          Emits,       \* per thread: the events it triggers
          Priority,    \* slots that subscribe with aPriority
          Remote,      \* slots called in a thread of their own, none of
                       \* Threads; the others in the thread that triggers
          None,
          MaxDepth,    \* bound: triggers nested in one another
          MaxTriggers  \* bound: calls of sync_trigger() that find a slot

EventAssumption ==
  /\ EventOf \in [Slots -> Events]
  /\ Emits \in [Threads -> SUBSET Events]
  /\ Priority \subseteq Slots /\ Remote \subseteq Slots
  /\ MaxDepth \in Nat /\ MaxTriggers \in Nat
  /\ None \notin Threads \X (1 .. MaxDepth)

\* Each event is triggered by one thread.  iActiveWorkList is one pointer for
\* all threads, so that accept() can only mean a trigger of its own thread
\* when no other thread is in one.
EmittersApart == \A t, u \in Threads : t # u => Emits[t] \cap Emits[u] = {}

Depths == 1 .. MaxDepth

VARIABLES
  slots,     \* per event: iSlots
  active,    \* per event: iActiveWorkList
  lists,     \* per thread and depth: its work_list
  stack,     \* per thread: the sync_trigger() calls it is in
  dead,      \* events that are destroyed
  born,      \* slots that were constructed
  triggers,  \* triggers so far
  result,    \* history: what the last sync_trigger() of each thread returned
  cut,       \* history: work lists last left by a throw or a destroyed event
  touched    \* history: events written to after they were destroyed

vars == <<slots, active, lists, stack, dead, born, triggers, result, cut,
          touched>>

WorkLists == Threads \X Depths

\* A sync_trigger() in progress: `next` is the slot it is calling.  The work
\* list as it was copied (due) and whether accept() was called for this very
\* trigger (asked) are history.
Frames == [event : Events, next : Nat, saved : WorkLists \cup {None},
           due : Seq(Slots), asked : BOOLEAN]

Results == {"none", "unaccepted", "accepted", "destroyed", "thrown"}

TypeOK ==
  /\ slots \in [Events -> Seq(Slots)]
  /\ active \in [Events -> WorkLists \cup {None}]
  /\ lists \in [WorkLists -> [slots : Seq(Slots), accepted : BOOLEAN]]
  /\ stack \in [Threads -> Seq(Frames)]
  /\ dead \subseteq Events /\ touched \subseteq dead
  /\ born \subseteq Slots
  /\ triggers \in 0 .. MaxTriggers
  /\ result \in [Threads -> Results]
  /\ cut \subseteq WorkLists

----------------------------------------------------------------------------
\* Mutant: the depth of nesting is not counted.
ListOf_Shared(t, depth) == <<t, 1>>

\* *workLists[stack - 1]: the work list of a thread's triggers at a depth.
ListOf(t, depth) == <<t, depth>>

Depth(t) == Len(stack[t])
Current(t) == ListOf(t, Depth(t))

\* The innermost trigger of thread t, and the slot it is at.
Top(t) == Last(stack[t])
Slot(t) == lists[Current(t)].slots[Top(t).next]

\* Thread t runs code that is not the event system's own: a handler, or
\* whatever it does outside every trigger.
InUserCode(t) == stack[t] # <<>> => Slot(t) \notin Remote

----------------------------------------------------------------------------
(* What a thread or a handler may call.                                    *)

\* slot's constructor and add_slot()
Subscribe(s) ==
  LET e == EventOf[s] IN
  /\ s \notin born /\ e \notin dead
  /\ born' = born \cup {s}
  /\ slots' = [slots EXCEPT ![e] = IF s \in Priority THEN <<s>> \o @
                                   ELSE Append(@, s)]
  /\ UNCHANGED <<active, lists, stack, dead, triggers, result, cut, touched>>

\* slot::remove() and remove_slot(), as called by sink::clear()
Unsubscribe(s) ==
  LET e == EventOf[s] IN
  /\ s \in ToSet(slots[e]) /\ e \notin dead
  /\ slots' = [slots EXCEPT ![e] = RemoveFirst(@, s)]
  /\ UNCHANGED <<active, lists, stack, dead, born, triggers, result, cut,
                 touched>>

\* scoped_pointer: iActiveWorkList is replaced, its old value saved.
Activated(e, list) == list

\* sync_trigger() of an event with slots, up to its first call.  The flag
\* `accepted` of the work list is as the last trigger at this depth left it.
Trigger(t, e) ==
  LET list == ListOf(t, Depth(t) + 1) IN
  /\ InUserCode(t) /\ e \in Emits[t] \ dead
  /\ Depth(t) < MaxDepth /\ triggers < MaxTriggers
  /\ slots[e] # <<>>
  /\ triggers' = triggers + 1
  /\ lists' = [lists EXCEPT ![list].slots = slots[e]]
  /\ active' = [active EXCEPT ![e] = Activated(e, list)]
  /\ stack' = [stack EXCEPT ![t] =
                 Append(@, [event |-> e, next |-> 1, saved |-> active[e],
                            due |-> slots[e], asked |-> FALSE])]
  /\ UNCHANGED <<slots, dead, born, result, cut, touched>>

\* The triggers of e that thread t is in, and the innermost of them.
Within(t, e) == {i \in DOMAIN stack[t] : stack[t][i].event = e}
Innermost(t, e) == CHOOSE i \in Within(t, e) : \A j \in Within(t, e) : j <= i

\* accept(), by a handler below a trigger of e
Accept(t, e) ==
  /\ InUserCode(t) /\ e \notin dead
  /\ Within(t, e) # {}
  /\ lists' = IF active[e] = None THEN lists
              ELSE [lists EXCEPT ![active[e]].accepted = TRUE]
  /\ stack' = [stack EXCEPT ![t][Innermost(t, e)].asked = TRUE]
  /\ UNCHANGED <<slots, active, dead, born, triggers, result, cut, touched>>

\* ~event(), which a handler may well call for the event that called it.  No
\* other thread may be using the event.
Destroy(t, e) ==
  /\ InUserCode(t) /\ e \in Emits[t] \ dead
  /\ \A u \in Threads \ {t} : Within(u, e) = {}
  /\ dead' = dead \cup {e}
  /\ slots' = [slots EXCEPT ![e] = <<>>]
  /\ active' = [active EXCEPT ![e] = None]
  /\ UNCHANGED <<lists, stack, born, triggers, result, cut, touched>>

----------------------------------------------------------------------------
(* The rest of sync_trigger(): what follows each call.                     *)

\* What iActiveWorkList was before the innermost trigger of thread t.
Saved(t) == Top(t).saved

\* sync_trigger() returns: scoped_pointer puts the saved pointer back into
\* the event, whether it still exists or not.
Leave(t, outcome) ==
  LET e == Top(t).event IN
  /\ stack' = [stack EXCEPT ![t] = Front(@)]
  /\ result' = [result EXCEPT ![t] = outcome]
  /\ IF e \in dead
     THEN touched' = touched \cup {e} /\ UNCHANGED active
     ELSE active' = [active EXCEPT ![e] = Saved(t)] /\ UNCHANGED touched
  /\ UNCHANGED <<slots, dead, born, triggers>>

\* The slot's handler returned (or the call was queued for its own thread).
\* The event being destroyed is looked at first, then `accepted`.
Destroyed(t) ==
  /\ stack[t] # <<>> /\ Top(t).event \in dead
  /\ Leave(t, "destroyed")
  /\ cut' = cut \cup {Current(t)}
  /\ UNCHANGED lists

Accepted(t) ==
  /\ stack[t] # <<>> /\ Top(t).event \notin dead
  /\ lists[Current(t)].accepted
  /\ lists' = [lists EXCEPT ![Current(t)].accepted = FALSE]
  /\ Leave(t, "accepted")
  /\ cut' = cut \ {Current(t)}

\* The slot is not the last one: the loop goes on.
NextSlot(t) ==
  /\ stack[t] # <<>> /\ Top(t).event \notin dead
  /\ ~lists[Current(t)].accepted
  /\ Top(t).next < Len(lists[Current(t)].slots)
  /\ stack' = [stack EXCEPT ![t][Depth(t)].next = @ + 1]
  /\ UNCHANGED <<slots, active, lists, dead, born, triggers, result, cut,
                 touched>>

Unaccepted(t) ==
  /\ stack[t] # <<>> /\ Top(t).event \notin dead
  /\ ~lists[Current(t)].accepted
  /\ Top(t).next = Len(lists[Current(t)].slots)
  /\ lists' = [lists EXCEPT ![Current(t)] = [slots |-> <<>>, accepted |-> FALSE]]
  /\ Leave(t, "unaccepted")
  /\ cut' = cut \ {Current(t)}

\* The handler throws, or the slot's thread has no queue.  Whatever called
\* sync_trigger() may catch that or not.
Throw(t) ==
  /\ stack[t] # <<>>
  /\ Leave(t, "thrown")
  /\ cut' = cut \cup {Current(t)}
  /\ UNCHANGED lists

----------------------------------------------------------------------------
Init ==
  /\ slots = [e \in Events |-> <<>>]
  /\ active = [e \in Events |-> None]
  /\ lists = [l \in WorkLists |-> [slots |-> <<>>, accepted |-> FALSE]]
  /\ stack = [t \in Threads |-> <<>>]
  /\ dead = {} /\ born = {}
  /\ triggers = 0
  /\ result = [t \in Threads |-> "none"]
  /\ cut = {} /\ touched = {}

Next ==
  \/ \E s \in Slots : Subscribe(s) \/ Unsubscribe(s)
  \/ \E t \in Threads, e \in Events : Trigger(t, e) \/ Accept(t, e) \/ Destroy(t, e)
  \/ \E t \in Threads : Destroyed(t) \/ Accepted(t) \/ NextSlot(t) \/ Unaccepted(t)
  \/ \E t \in Threads : Throw(t)

Spec == Init /\ [][Next]_vars

----------------------------------------------------------------------------
(* What sync_trigger() promises                                            *)

\* The slots a trigger iterates over stay those that were subscribed when it
\* began, whatever handlers subscribe, unsubscribe, trigger or destroy, and
\* although events share the lists: a nested trigger uses another one.
WorkListKept ==
  \A t \in Threads : \A i \in DOMAIN stack[t] :
    lists[<<t, i>>].slots = stack[t][i].due

\* With one thread triggering an event, accept() reaches its innermost
\* trigger and no other: nested triggers that end, in whatever way, put the
\* outer one back.
ActiveIsInnermost ==
  \A t \in Threads : \A e \in Emits[t] \ dead :
    active[e] = IF Within(t, e) = {} THEN None ELSE <<t, Innermost(t, e)>>

Done(t) == Depth(t)' < Depth(t)

\* Once a handler has accepted the event, no further slot is called and
\* sync_trigger() does not return Unaccepted, unless the event is destroyed.
AcceptStops ==
  [][\A t \in Threads :
       stack[t] # <<>> /\ Top(t).asked /\ Top(t).event \notin dead =>
         /\ Done(t) => result'[t] \in {"accepted", "thrown"}
         /\ Depth(t)' = Depth(t) => Top(t)'.next = Top(t).next]_vars

\* sync_trigger() returns Accepted only if a handler of that very trigger
\* accepted it, or if an earlier trigger that used the same work list ended
\* with an exception or the end of its event: `accepted` outlives those.
AcceptedMeansAsked ==
  [][\A t \in Threads :
       Done(t) /\ result'[t] = "accepted" => Top(t).asked \/ Current(t) \in cut]_vars

\* A handler may destroy the event that called it: after that sync_trigger()
\* leaves the event alone.
NoUseAfterDestroy == touched = {}
=============================================================================

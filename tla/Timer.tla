------------------------------- MODULE Timer -------------------------------
(***************************************************************************)
(* neolib::timer with its timer_object, and the timer_service of the task  *)
(* that polls them, all in the task's thread: a timer's handler may use    *)
(* and destroy timers and poll the service again.  The work lists of a     *)
(* poll belong to the depth of nesting, not to the poll.  A timer's object *)
(* and its one subscriber are parts of it here.  The timers have no        *)
(* context (iContextDestroyed is nullopt), and no destructor polls while   *)
(* an exception unwinds the stack: handler() then calls again() instead    *)
(* of ready().                                                             *)
(***************************************************************************)
EXTENDS Integers, SequencesExt

CONSTANTS Timers,
          SliceExpires, \* whether i_time_slice::expired() ends a poll early
          MaxDepth,     \* bound: polls nested in one another
          MaxThrows     \* bound: handlers that throw

TimerAssumption ==
  SliceExpires \in BOOLEAN /\ MaxDepth \in Nat /\ MaxThrows \in Nat

VARIABLES
  timer,    \* per timer: its members
  life,     \* per timer: whether it exists
  task,     \* the task: "alive" or "destroyed"
  objects,  \* iObjects of the timer service
  objLists, \* per depth: work list of timer_service::poll()
  subLists, \* per depth: work list of timer_object::poll()
  polls,    \* the polls in progress, innermost last
  throws,   \* exceptions so far
  owed,     \* history: per timer: what again() promised
  stopped,  \* history: timers cancelled since they last began to wait
  torn,     \* history: timers in a work list that an exception left
            \* filled, also those that were added to it
  touched   \* history: timers used after they were destroyed

lists == <<objLists, subLists>>
history == <<owed, stopped, torn, touched>>
vars == <<timer, life, task, objects, lists, polls, throws, history>>

Depths == 1 .. MaxDepth

\* A deadline is set, and then passed.
Deadlines == {"none", "set", "passed"}

TypeOK ==
  /\ timer \in [Timers -> [enabled : BOOLEAN, waiting : BOOLEAN,
                           inReady : BOOLEAN, expiry : Deadlines,
                           object : BOOLEAN, subscribed : BOOLEAN]]
  /\ life \in [Timers -> {"unborn", "alive", "dead"}]
  /\ task \in {"alive", "destroyed"}
  /\ objects \in Seq(Timers)
  /\ objLists \in [Depths -> Seq(Timers)] /\ subLists \in [Depths -> Seq(Timers)]
  /\ Len(polls) <= MaxDepth
  /\ \A d \in DOMAIN polls :     \* the loops' iterators are valid
       /\ polls[d].obj \in 1 .. Len(objLists[d]) + 1
       /\ polls[d].at \in {"objects", "subscribers", "ready"}
       /\ polls[d].at # "objects" => polls[d].obj \in DOMAIN objLists[d]
       /\ polls[d].sub \in 1 .. Len(subLists[d]) + 1
       /\ polls[d].at = "ready" => polls[d].sub \in DOMAIN subLists[d]
  /\ throws \in 0 .. MaxThrows
  /\ owed \in [Timers -> Deadlines]
  /\ stopped \subseteq Timers /\ torn \subseteq Timers
  /\ touched \subseteq Timers

----------------------------------------------------------------------------
(* What the operations of a timer do to its members                        *)

\* again(), which throws when the timer waits
Again(r) ==
  IF task # "alive" THEN r
  ELSE IF r.waiting THEN [r EXCEPT !.enabled = TRUE]
  ELSE [enabled |-> TRUE, waiting |-> TRUE, inReady |-> r.inReady,
        expiry |-> "set", object |-> TRUE, subscribed |-> TRUE]

\* Mutant: the timer object is not cancelled.
Cancel_FlagOnly(r) == [r EXCEPT !.waiting = FALSE]

\* cancel(), which leaves iWaiting alone
Cancel(r) ==
  IF r.waiting /\ task = "alive" THEN [r EXCEPT !.expiry = "none"] ELSE r

Reset(r) == Again(Cancel(r))

\* set_duration() with aEffectiveImmediately
SetDuration(r) == IF r.waiting THEN Again(Cancel(r)) ELSE r

Enable(r, wait) ==
  IF r.enabled THEN r
  ELSE IF wait THEN Again([r EXCEPT !.enabled = TRUE])
  ELSE [r EXCEPT !.enabled = TRUE]

Disable(r) == [Cancel(r) EXCEPT !.enabled = FALSE]

\* operator=
Assign(r, other) ==
  LET own == [Cancel(r) EXCEPT !.enabled = other.enabled] IN
  IF other.waiting THEN Again(own) ELSE own

\* The destructor: cancel() and unsubscribe()
Dismantled(r) == [Cancel(r) EXCEPT !.subscribed = FALSE]

----------------------------------------------------------------------------
Depth == Len(polls)
Top == Last(polls)

\* *workListStack[stack - 1]
ListAt(depth) == depth

Objects == objLists[ListAt(Depth)]
Subscribers == subLists[ListAt(Depth)]

\* A timer's ready() is running, or nothing of the service is.
InUserCode == polls # <<>> => Top.at = "ready"

\* Timer t gets the members r; a timer object that is created is the
\* service's too.
Become(t, r) ==
  /\ timer' = [timer EXCEPT ![t] = r]
  /\ objects' = IF r.object /\ ~timer[t].object THEN Append(objects, t) ELSE objects
  /\ owed' = [owed EXCEPT ![t] =
       IF r.waiting /\ ~timer[t].waiting THEN "set" ELSE @]
  /\ stopped' = IF r.waiting /\ ~timer[t].waiting THEN stopped \ {t} ELSE stopped

\* ... after cancel(): whatever was promised is called off.
BecomeCancelled(t, r) ==
  /\ timer' = [timer EXCEPT ![t] = r]
  /\ owed' = [owed EXCEPT ![t] = "none"]
  /\ stopped' = stopped \cup {t}
  /\ UNCHANGED objects

Create(t, wait) ==
  /\ InUserCode /\ life[t] = "unborn"
  /\ life' = [life EXCEPT ![t] = "alive"]
  /\ Become(t, IF wait THEN Again(timer[t]) ELSE timer[t])
  /\ UNCHANGED <<task, lists, polls, throws, torn, touched>>

Use(t) ==
  LET r == timer[t] IN
  /\ InUserCode /\ life[t] = "alive"
  /\ \/ \E n \in {Again(r), Enable(r, TRUE), Enable(r, FALSE)} : Become(t, n)
     \/ /\ r.waiting
        /\ \E n \in {Cancel(r), Reset(r), SetDuration(r)} : BecomeCancelled(t, n)
     \/ ~r.waiting /\ Become(t, Reset(r))
     \/ r.enabled /\ r.waiting /\ BecomeCancelled(t, Disable(r))
     \/ r.enabled /\ ~r.waiting /\ Become(t, Disable(r))
     \/ \E u \in Timers \ {t} :
          /\ life[u] = "alive"
          /\ IF r.waiting THEN BecomeCancelled(t, Assign(r, timer[u]))
             ELSE Become(t, Assign(r, timer[u]))
  /\ UNCHANGED <<life, task, lists, polls, throws, torn, touched>>

Destroy(t) ==
  /\ InUserCode /\ life[t] = "alive"
  /\ life' = [life EXCEPT ![t] = "dead"]
  /\ BecomeCancelled(t, Dismantled(timer[t]))
  /\ UNCHANGED <<task, lists, polls, throws, torn, touched>>

\* async_task::cancel(): the service ends, its timers keep their objects.
CancelTask ==
  /\ polls = <<>> /\ objects # <<>>
  /\ objects' = <<>>
  /\ UNCHANGED <<timer, life, task, lists, polls, throws, history>>

\* ~async_task(): the timers give up their objects.
DestroyTask ==
  /\ polls = <<>> /\ task = "alive"
  /\ task' = "destroyed" /\ objects' = <<>>
  /\ timer' = [t \in Timers |->
       [timer[t] EXCEPT !.object = FALSE, !.subscribed = FALSE, !.expiry = "none"]]
  /\ owed' = [t \in Timers |-> "none"] /\ stopped' = Timers
  /\ UNCHANGED <<life, lists, polls, throws, torn, touched>>

TimePasses(t) ==
  /\ timer[t].expiry = "set"
  /\ timer' = [timer EXCEPT ![t].expiry = "passed"]
  /\ owed' = [owed EXCEPT ![t] = IF @ = "set" THEN "passed" ELSE @]
  /\ UNCHANGED <<life, task, objects, lists, polls, throws, stopped, torn, touched>>

----------------------------------------------------------------------------
(* timer_service::poll() and timer_object::poll()                          *)

\* Mutant: the last object is left out.
Snapshot_Front == Front(objects)

Snapshot == objects

Poll ==
  /\ InUserCode /\ task = "alive" /\ objects # <<>> /\ Depth < MaxDepth
  /\ objLists' = [objLists EXCEPT ![ListAt(Depth + 1)] = @ \o Snapshot]
  /\ polls' = Append(polls, [at |-> "objects", obj |-> 1, sub |-> 1])
  /\ UNCHANGED <<timer, life, task, objects, subLists, throws, history>>

\* The next object of the work list; an expired one gathers its subscribers.
NextObject ==
  LET t == Objects[Top.obj] IN
  /\ polls # <<>> /\ Top.at = "objects" /\ Top.obj <= Len(Objects)
  /\ IF timer[t].expiry = "passed"
     THEN /\ timer' = [timer EXCEPT ![t].expiry = "none"]
          /\ subLists' = [subLists EXCEPT ![ListAt(Depth)] =
                            @ \o IF timer[t].subscribed THEN <<t>> ELSE <<>>]
          /\ polls' = [polls EXCEPT ![Depth].at = "subscribers", ![Depth].sub = 1]
          /\ torn' = IF Subscribers = <<>> THEN torn ELSE torn \cup {t}
     ELSE /\ polls' = [polls EXCEPT ![Depth].obj = @ + 1]
          /\ UNCHANGED <<timer, subLists, torn>>
  /\ UNCHANGED <<life, task, objects, objLists, throws, owed, stopped, touched>>

Ready(r) == r.enabled

Subscriber == Subscribers[Top.sub]
AtSubscriber ==
  polls # <<>> /\ Top.at = "subscribers" /\ Top.sub <= Len(Subscribers)

Fired(r) == [r EXCEPT !.waiting = FALSE, !.inReady = TRUE]

\* handler() down to its call of ready()
CallReady ==
  LET t == Subscriber IN
  /\ AtSubscriber /\ life[t] = "alive"
  /\ Ready(timer[t]) /\ (timer[t].inReady => timer[t].waiting)
  /\ timer' = [timer EXCEPT ![t] = Fired(@)]
  /\ polls' = [polls EXCEPT ![Depth].at = "ready"]
  /\ owed' = [owed EXCEPT ![t] = "none"]
  /\ UNCHANGED <<life, task, objects, lists, throws, stopped, torn, touched>>

\* handler() that does not: the timer is disabled, or in its ready() and
\* not waiting, or was destroyed while the work list kept its subscriber.
CallOther ==
  LET t == Subscriber IN
  /\ AtSubscriber
  /\ polls' = [polls EXCEPT ![Depth].sub = @ + 1]
  /\ \/ /\ life[t] = "alive" /\ ~Ready(timer[t])
        /\ timer' = [timer EXCEPT ![t].waiting = FALSE]
        /\ UNCHANGED <<objects, owed, stopped, touched>>
     \/ /\ life[t] = "alive" /\ Ready(timer[t])
        /\ timer[t].inReady /\ ~timer[t].waiting
        /\ Become(t, Again(timer[t])) /\ UNCHANGED touched
     \/ /\ life[t] = "dead" /\ touched' = touched \cup {t}
        /\ UNCHANGED <<timer, objects, owed, stopped>>
  /\ UNCHANGED <<life, task, lists, throws, torn>>

\* if (destroyed)
IfDestroyed(t) == life[t] = "dead"

Touched(t) == IF life[t] = "dead" THEN touched \cup {t} ELSE touched

Return ==
  LET t == Subscriber IN
  /\ polls # <<>> /\ Top.at = "ready"
  /\ polls' = [polls EXCEPT ![Depth].at = "subscribers", ![Depth].sub = @ + 1]
  /\ IF IfDestroyed(t) THEN UNCHANGED <<timer, touched>>
     ELSE timer' = [timer EXCEPT ![t].inReady = FALSE] /\ touched' = Touched(t)
  /\ UNCHANGED <<life, task, objects, lists, throws, owed, stopped, torn>>

\* ready() throws: iInReady is cleared, destroyed or not, and both polls are
\* left with their work lists as they are.
Throw ==
  LET t == Subscriber IN
  /\ polls # <<>> /\ Top.at = "ready" /\ throws < MaxThrows
  /\ throws' = throws + 1
  /\ timer' = [timer EXCEPT ![t].inReady = FALSE]
  /\ torn' = torn \cup ToSet(Subscribers)
  /\ touched' = Touched(t)
  /\ polls' = Front(polls)
  /\ UNCHANGED <<life, task, objects, lists, owed, stopped>>

\* The object's subscribers are done; the service goes on with the next
\* object, or no further when the time slice is used up.
EndObject ==
  /\ polls # <<>> /\ Top.at = "subscribers" /\ Top.sub > Len(Subscribers)
  /\ \/ /\ polls' = [polls EXCEPT ![Depth] =
                       [at |-> "objects", obj |-> @.obj + 1, sub |-> 1]]
        /\ subLists' = [subLists EXCEPT ![ListAt(Depth)] = <<>>]
        /\ UNCHANGED objLists
     \/ /\ SliceExpires
        /\ polls' = Front(polls)
        /\ subLists' = [subLists EXCEPT ![ListAt(Depth)] = <<>>]
        /\ objLists' = [objLists EXCEPT ![ListAt(Depth)] = <<>>]
  /\ UNCHANGED <<timer, life, task, objects, throws, history>>

EndPoll ==
  /\ polls # <<>> /\ Top.at = "objects" /\ Top.obj > Len(Objects)
  /\ polls' = Front(polls)
  /\ objLists' = [objLists EXCEPT ![ListAt(Depth)] = <<>>]
  /\ UNCHANGED <<timer, life, task, objects, subLists, throws, history>>

----------------------------------------------------------------------------
Init ==
  /\ timer = [t \in Timers |->
       [enabled |-> TRUE, waiting |-> FALSE, inReady |-> FALSE,
        expiry |-> "none", object |-> FALSE, subscribed |-> FALSE]]
  /\ life = [t \in Timers |-> "unborn"] /\ task = "alive"
  /\ objects = <<>> /\ polls = <<>> /\ throws = 0
  /\ objLists = [d \in Depths |-> <<>>] /\ subLists = [d \in Depths |-> <<>>]
  /\ owed = [t \in Timers |-> "none"]
  /\ stopped = {} /\ torn = {} /\ touched = {}

PollStep == NextObject \/ CallReady \/ CallOther \/ EndObject \/ EndPoll

Next ==
  \/ \E t \in Timers, wait \in BOOLEAN : Create(t, wait)
  \/ \E t \in Timers : Use(t) \/ Destroy(t) \/ TimePasses(t)
  \/ CancelTask \/ DestroyTask
  \/ Poll \/ PollStep \/ Return \/ Throw

Spec == Init /\ [][Next]_vars

\* The task polls again and again (async_task::do_work()), a handler returns
\* however often it polls, and time passes.
FairSpec ==
  /\ Spec
  /\ WF_vars(PollStep) /\ SF_vars(Return) /\ WF_vars(Depth = 0 /\ Poll)
  /\ \A t \in Timers : WF_vars(TimePasses(t))

----------------------------------------------------------------------------
(* What timers promise                                                     *)

\* The subscribers a poll in progress has yet to call.
BeingPolled(t) ==
  \E d \in DOMAIN polls :
    /\ polls[d].at # "objects"
    /\ \E i \in DOMAIN subLists[d] :
         /\ subLists[d][i] = t
         /\ i > polls[d].sub \/ (i = polls[d].sub /\ polls[d].at = "subscribers")

\* A timer whose object is armed says that it waits: again() and enable()
\* rely on that to tell whether a deadline is set.
ArmedWaits ==
  \A t \in Timers \ torn : timer[t].expiry # "none" => timer[t].waiting

\* A timer that says it waits is armed or about to be called, unless it was
\* cancelled: then it keeps saying so and again() refuses to start it.
WaitsForSomething ==
  \A t \in Timers \ (torn \cup stopped) :
    timer[t].waiting => timer[t].expiry # "none" \/ BeingPolled(t)

Starts(t) ==
  /\ Depth > 0 /\ Depth' = Depth
  /\ Top.at = "subscribers" /\ Top'.at = "ready" /\ Subscriber = t

\* ready() is called once for each again() whose time has passed, and never
\* after the timer was cancelled, disabled or destroyed; only an exception,
\* which leaves its timer in the work list of the next one, breaks that.
ReadyWhenDue ==
  [][\A t \in Timers \ torn :
       Starts(t) => /\ owed[t] = "passed" /\ life[t] = "alive"
                    /\ timer[t].enabled]_vars

\* Nothing uses a timer that is destroyed, in whichever handler, as long as
\* no handler throws.
NoUseAfterDestroy == throws = 0 => touched = {}

\* A timer whose time has passed is called, cancelled or destroyed, while the
\* service it was made by lives.
Served ==
  \A t \in Timers :
    timer[t].expiry = "passed" ~>
      timer[t].expiry = "none" \/ t \notin ToSet(objects)
=============================================================================

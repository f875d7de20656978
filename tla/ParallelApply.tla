--------------------------- MODULE ParallelApply ---------------------------
(***************************************************************************)
(* neolib::parallel_apply(): the caller cuts a container into ranges, runs *)
(* a task of the thread pool on each, and waits for the pool.  The pool is *)
(* what module CentralQueue says it is to its callers: threads that take   *)
(* the tasks of one queue.  While it is being stopped its threads leave    *)
(* one after another, with the task they had, if any, done.                *)
(***************************************************************************)
EXTENDS Integers, FiniteSets

CONSTANTS Sizes,   \* what aContainer.size() may be
          Minimum, \* aMinimumParallelismCount
          Threads, \* the threads of the pool: max_threads() of them
          MaxStops \* clients that call stop()

ASSUME ApplyAssumption ==
  /\ Sizes \subseteq Nat /\ Minimum \in Nat /\ MaxStops \in Nat
  /\ IsFiniteSet(Threads) /\ Threads # {}

Caller == "caller"
ASSUME CallerAssumption == Caller \notin Threads

VARIABLES
  size,    \* aContainer.size()
  pc,      \* where the caller is
  next,    \* the first element that is in no range yet
  queued,  \* the ranges of the tasks that wait
  range,   \* of each thread, and of the caller: what is left of its range
  gone,    \* threads that have ended
  stops,   \* stop() calls that have begun
  stopped, \* iStopped
  applied, \* history: elements aFunction was called with
  again    \* history: elements it was called with once more
vars == <<size, pc, next, queued, range, gone, stops, stopped, applied, again>>
pool == <<gone, stops, stopped>>

Nothing == [from |-> 0, to |-> 0]
Ranges == [from : Nat, to : Nat]
In(i, r) == r.from <= i /\ i < r.to

TypeOK ==
  /\ size \in Sizes /\ pc \in {"called", "serial", "loop", "wait", "returned"}
  /\ next \in 0 .. size
  /\ queued \subseteq Ranges /\ range \in [Threads \cup {Caller} -> Ranges]
  /\ \A r \in queued \cup {range[w] : w \in Threads \cup {Caller}} : r.from <= r.to /\ r.to <= size
  /\ gone \subseteq Threads /\ stops \in 0 .. MaxStops /\ stopped \in BOOLEAN
  /\ applied \subseteq 0 .. size - 1 /\ again \subseteq applied

----------------------------------------------------------------------------
Idle == queued = {} /\ \A w \in Threads : range[w] = Nothing

\* Mutant: a container smaller than the pool gives empty ranges.
Subrange_Zero == size \div Cardinality(Threads)

Subrange == IF size \div Cardinality(Threads) < 1 THEN 1 ELSE size \div Cardinality(Threads)

Remainder == [from |-> next, to |-> size]

\* thread_pool::run(), which does nothing once the pool is stopped
Run(r) == queued' = IF stopped THEN queued ELSE queued \cup {r}

Call ==
  /\ pc = "called"
  /\ IF stopped THEN pc' = "returned" /\ UNCHANGED <<range, next>>
     ELSE IF size < Minimum
     THEN pc' = "serial" /\ next' = size /\ range' = [range EXCEPT ![Caller] = Remainder]
     ELSE pc' = "loop" /\ UNCHANGED <<range, next>>
  /\ UNCHANGED <<size, queued, pool, applied, again>>

Loop ==
  /\ pc = "loop" /\ size - next >= Subrange
  /\ Run([from |-> next, to |-> next + Subrange]) /\ next' = next + Subrange
  /\ UNCHANGED <<size, pc, range, pool, applied, again>>

Rest ==
  /\ pc = "loop" /\ size - next < Subrange /\ pc' = "wait"
  /\ IF next # size THEN Run(Remainder) ELSE UNCHANGED queued
  /\ next' = size
  /\ UNCHANGED <<size, range, pool, applied, again>>

\* Mutant: the caller does not wait.
MayReturn_AtOnce == TRUE

\* wait() returns
MayReturn == stopped \/ Idle

Return ==
  /\ \/ pc = "wait" /\ MayReturn
     \/ pc = "serial" /\ range[Caller] = Nothing
  /\ pc' = "returned"
  /\ UNCHANGED <<size, next, queued, range, pool, applied, again>>

----------------------------------------------------------------------------
\* The threads
Take(w) ==
  /\ w \in Threads \ gone /\ range[w] = Nothing
  /\ \E r \in queued : queued' = queued \ {r} /\ range' = [range EXCEPT ![w] = r]
  /\ UNCHANGED <<size, pc, next, pool, applied, again>>

\* What is left of r after its first element
Advanced(r) == [r EXCEPT !.from = @ + 1]

Apply(w) ==
  LET r == range[w] IN
  /\ r.from # r.to
  /\ again' = IF r.from \in applied THEN again \cup {r.from} ELSE again
  /\ applied' = applied \cup {r.from} /\ range' = [range EXCEPT ![w] = Advanced(r)]
  /\ UNCHANGED <<size, pc, next, queued, pool>>

End(w) ==
  /\ range[w] # Nothing /\ range[w].from = range[w].to
  /\ range' = [range EXCEPT ![w] = Nothing]
  /\ UNCHANGED <<size, pc, next, queued, pool, applied, again>>

Leave(w) ==
  /\ stops > 0 /\ w \notin gone /\ range[w] = Nothing /\ gone' = gone \cup {w}
  /\ UNCHANGED <<size, pc, next, queued, range, stops, stopped, applied, again>>

\* thread_pool::stop() begins, and has waited for the threads.  A second
\* call does not wait for those that the first one is waiting for.
Stop ==
  /\ ~stopped /\ stops < MaxStops /\ stops' = stops + 1
  /\ UNCHANGED <<size, pc, next, queued, range, gone, stopped, applied, again>>

Stopped ==
  /\ stops > 0 /\ ~stopped /\ (gone = Threads \/ stops > 1) /\ stopped' = TRUE
  /\ UNCHANGED <<size, pc, next, queued, range, gone, stops, applied, again>>

Init ==
  /\ size \in Sizes /\ pc = "called" /\ next = 0
  /\ queued = {} /\ range = [w \in Threads \cup {Caller} |-> Nothing] /\ gone = {}
  /\ stops = 0 /\ stopped = FALSE /\ applied = {} /\ again = {}

Next ==
  \/ Call \/ Loop \/ Rest \/ Return \/ Stop \/ Stopped
  \/ \E w \in Threads : Take(w) \/ Leave(w)
  \/ \E w \in Threads \cup {Caller} : Apply(w) \/ End(w)

Spec == Init /\ [][Next]_vars

\* The caller goes on, a thread that is there takes work and does it, and
\* stop() gets each thread to leave when it has no work.
FairSpec ==
  /\ Spec /\ WF_vars(Call \/ Loop \/ Rest \/ Return) /\ WF_vars(Stopped)
  /\ WF_vars(Apply(Caller) \/ End(Caller))
  /\ \A w \in Threads : WF_vars(Take(w) \/ Apply(w) \/ End(w)) /\ WF_vars(Leave(w))

----------------------------------------------------------------------------
\* The function is called with no element twice, however the ranges are cut
\* and whichever threads take them.
AppliedOnce == again = {}

\* When parallel_apply() returns, and nobody stops the pool, it has been
\* called with every element.
AppliedAll == pc = "returned" /\ stops = 0 => applied = 0 .. size - 1

\* The tasks hold a reference to the function, which ends with the call:
\* none is at work any more, unless two clients stop the pool.
NoUseAfterReturn ==
  pc = "returned" /\ stops <= 1 => \A w \in Threads : range[w] = Nothing

\* parallel_apply() calls its function once with each element, and not after
\* it has returned, unless the pool is stopped around it.
ApplySafe == TypeOK /\ AppliedOnce /\ AppliedAll /\ NoUseAfterReturn

\* parallel_apply() returns, also when the pool is stopped around it.
Returns == <>(pc = "returned")
=============================================================================

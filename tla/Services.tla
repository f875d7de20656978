------------------------------ MODULE Services ------------------------------
(***************************************************************************)
(* neolib::services: service() finds or starts a service while other       *)
(* threads do, and set_service_provider() hands the services over to the   *)
(* provider of the program that has loaded this library.                   *)
(***************************************************************************)
EXTENDS Integers

CONSTANTS Threads,
          Setter \* the one that calls set_service_provider()

VARIABLES
  pc,         \* where each thread is
  instance,   \* the provider in service_provider_instance
  instanceBy, \* the thread that has its mutex
  providerBy, \* ... and that of each provider
  found,      \* the provider that each thread in service() locks
  registered, \* the service each provider has
  pointer,    \* service_ptr()
  starts,     \* history: how often the service was started and registered
  result,     \* history: what service() returned
  gone,       \* history: the first provider is destroyed
  touched,    \* history: ... and was used after that
  crossed     \* history: set_service_provider() has met a call of service()
vars == <<pc, instance, instanceBy, providerBy, found, registered, pointer, starts, result, gone, touched, crossed>>
mutexes == <<instanceBy, providerBy>>
past == <<gone, touched>>

Nobody == "nobody"
None == "none"
Own == "own"       \* the first provider, and the service this library starts
Other == "other"   \* the other provider, and a service it had

ASSUME ServicesAssumption == Setter \in Threads /\ Nobody \notin Threads

TypeOK ==
  /\ pc \in [Threads -> {"out", "get", "lock", "look", "start", "unlock", "done", "migrate", "set"}]
  /\ instance \in {Own, Other} /\ instanceBy \in Threads \cup {Nobody}
  /\ providerBy \in [{Own, Other} -> Threads \cup {Nobody}]
  /\ found \in [Threads -> {Own, Other}] /\ registered \in [{Own, Other} -> {None, Own, Other}]
  /\ pointer \in {None, Own, Other} /\ starts \in Nat
  /\ result \in [Threads -> {None, Own, Other}]
  /\ gone \in BOOLEAN /\ touched \in BOOLEAN /\ crossed \in BOOLEAN
  /\ gone => registered[Own] = None

----------------------------------------------------------------------------
Goes(t, where) == pc' = [pc EXCEPT ![t] = where]

Fast(t) ==
  /\ pc[t] = "out" /\ t # Setter
  /\ IF pointer # None THEN result' = [result EXCEPT ![t] = pointer] /\ Goes(t, "done")
     ELSE Goes(t, "get") /\ UNCHANGED result
  /\ UNCHANGED <<instance, mutexes, found, registered, pointer, starts, past, crossed>>

Provider == instance

\* get_service_provider()
Get(t) ==
  /\ pc[t] = "get" /\ instanceBy = Nobody /\ found' = [found EXCEPT ![t] = Provider] /\ Goes(t, "lock")
  /\ UNCHANGED <<instance, mutexes, registered, pointer, starts, result, past, crossed>>

\* Mutant: any thread lets the other in.
LockFree_Any(t) == TRUE

LockFree(t) == providerBy[found[t]] = Nobody

Lock(t) ==
  /\ pc[t] = "lock" /\ LockFree(t) /\ Goes(t, "look")
  /\ touched' = (touched \/ (found[t] = Own /\ gone))
  /\ providerBy' = [providerBy EXCEPT ![found[t]] = t]
  /\ UNCHANGED <<instance, instanceBy, found, registered, pointer, starts, result, gone, crossed>>

Unregistered == registered[instance] = None

\* Whatever is done here asks get_service_provider() again.
Look(t) ==
  /\ pc[t] = "look" /\ instanceBy = Nobody
  /\ IF Unregistered THEN Goes(t, "start") /\ UNCHANGED pointer
     ELSE Goes(t, "unlock") /\ pointer' = registered[instance]
  /\ UNCHANGED <<instance, mutexes, found, registered, starts, result, past, crossed>>

Register(t) ==
  /\ pc[t] = "start" /\ instanceBy = Nobody /\ Goes(t, "unlock")
  /\ registered' = [registered EXCEPT ![instance] = Own] /\ starts' = starts + 1 /\ pointer' = Own
  /\ UNCHANGED <<instance, mutexes, found, result, past, crossed>>

Released(t) == [providerBy EXCEPT ![found[t]] = Nobody]

Unlock(t) ==
  /\ pc[t] = "unlock" /\ Goes(t, "done") /\ result' = [result EXCEPT ![t] = pointer]
  /\ providerBy' = Released(t)
  /\ UNCHANGED <<instance, instanceBy, found, registered, pointer, starts, past, crossed>>

InService == {t \in Threads : pc[t] \in {"lock", "look", "start", "unlock"}}

SetProvider(t) ==
  /\ t = Setter /\ pc[t] = "out" /\ instanceBy = Nobody /\ Goes(t, "migrate")
  /\ instanceBy' = t /\ instance' = Other /\ crossed' = (InService # {})
  /\ UNCHANGED <<providerBy, found, registered, pointer, starts, result, past>>

Migrated ==
  IF registered[Own] = None THEN registered
  ELSE [p \in {Own, Other} |-> IF p = Own THEN None ELSE registered[Own]]

\* migrate_to(), and the end of the provider
Migrate(t) ==
  /\ pc[t] = "migrate" /\ providerBy = [p \in {Own, Other} |-> Nobody] /\ Goes(t, "set")
  /\ registered' = Migrated /\ gone' = TRUE /\ instanceBy' = Nobody
  /\ UNCHANGED <<instance, providerBy, found, pointer, starts, result, touched, crossed>>

Init ==
  /\ pc = [t \in Threads |-> "out"] /\ instance = Own /\ instanceBy = Nobody /\ providerBy = [p \in {Own, Other} |-> Nobody]
  /\ found = [t \in Threads |-> Own] /\ registered \in {[p \in {Own, Other} |-> IF p = Own THEN None ELSE service] : service \in {None, Other}}
  /\ pointer = None /\ starts = 0 /\ result = [t \in Threads |-> None]
  /\ gone = FALSE /\ touched = FALSE /\ crossed = FALSE

Step(t) == Get(t) \/ Lock(t) \/ Look(t) \/ Register(t) \/ Unlock(t) \/ Migrate(t)

Next == \E t \in Threads : Fast(t) \/ SetProvider(t) \/ Step(t)

Spec == Init /\ [][Next]_vars

\* A thread that may go on does.
FairSpec == Spec /\ \A t \in Threads : WF_vars(Step(t))

----------------------------------------------------------------------------
\* Whoever asks for the service gets the same, the provider that is there does
\* not lose it, and it is registered once, unless a thread has locked a
\* provider that set_service_provider() has replaced meanwhile.
OneService ==
  /\ \A t, u \in Threads : result[t] = result[u] \/ None \in {result[t], result[u]}
  /\ starts > 1 => crossed
  /\ pointer # None /\ pc[Setter] # "migrate" => registered[instance] = pointer

\* The first provider is not used when it has been destroyed, but by a thread
\* that has got it before set_service_provider() came.
NoUseAfterDestroy == touched => crossed

\* service() and set_service_provider() return, unless they meet: the one
\* then has the mutex of the provider and waits for that of the instance, and
\* the other has that and waits for the first.
Returns ==
  \A t \in Threads : pc[t] \notin {"out", "done", "set"} ~> pc[t] \in {"done", "set"} \/ crossed
=============================================================================

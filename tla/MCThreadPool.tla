---------------------------- MODULE MCThreadPool ----------------------------
(* Small instances of the thread pool for TLC. *)
EXTENDS ThreadPool

CONSTANT urgent

\* One task is more urgent than the others, which tie.
MCPriority == [t \in Tasks |-> IF t = urgent THEN 1 ELSE 0]
----------------------------------------------------------------------------
\* wait(), stop() and the destructor return, but for the calls that join one
\* thread at once.
CallsReturn == WaitReturns /\ StopReturns
=============================================================================

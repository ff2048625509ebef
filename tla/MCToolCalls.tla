----------------------------- MODULE MCToolCalls -----------------------------
(***************************************************************************)
(* Small instances of ToolCalls: two tools, one mutex and three calls, the *)
(* least with which a call holds a slot, another waits for it and a third  *)
(* is made by a handler.                                                   *)
(***************************************************************************)
EXTENDS ToolCalls, TLC

CONSTANTS a, b, m

MCTools == {a, b}
MCMutexes == {m}

\* Both tools behind the mutex.
BothMutex == (a :> m) @@ (b :> m)
\* One tool behind the mutex, the other left to the server's queue.
OneMutex == (a :> m) @@ (b :> "off")
NoneSequential == (a :> "off") @@ (b :> "off")

NoMaxConcurrency == [t \in Tools |-> 0]

OnlyA == {a}
OnlyB == {b}

NoRetries == [t \in Tools |-> 0]
RetryA == (a :> 1) @@ (b :> 0)

CallSymmetry == Permutations(Calls)
=============================================================================

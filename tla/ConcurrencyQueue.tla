-------------------------- MODULE ConcurrencyQueue --------------------------
(***************************************************************************)
(* ConcurrencyQueue of src/utils/queue.ts: a counter of running holders    *)
(* and an array of waiters, driven by acquire, by the release closures     *)
(* acquire hands out, and by the abort listeners it registers.             *)
(*                                                                         *)
(* JavaScript runs one piece of code at a time, so each method body is one *)
(* action.  The exception is AbortController.abort(): it sets the signal's *)
(* aborted flag first and then calls the listeners one after the other, in *)
(* the order they were registered; `dispatch' holds the listeners still to *)
(* be called, and nothing else runs until it is empty.                     *)
(***************************************************************************)
EXTENDS Naturals, Arrays, FiniteSets

CONSTANTS Calls,            \* the calls of acquire, each made at most once
          Signals,          \* the AbortSignals passed to acquire
          NoSignal,         \* acquire called without a signal
          MaxConcurrency,   \* the constructor's argument
          ReleaseOnAbort    \* whether callers may register their release
                            \* closure as an abort listener of their signal

ASSUME QueueAssumption ==
    /\ MaxConcurrency \in Nat \ {0}
    /\ NoSignal \notin Signals
    /\ ReleaseOnAbort \in BOOLEAN
    /\ IsFiniteSet(Calls)

VARIABLES running,    \* ConcurrencyQueue.running
          queue,      \* ConcurrencyQueue.queue, a call for each QueueItem
          pc,         \* how far each call of acquire has come
          sig,        \* the signal each call was made with
          aborted,    \* the signals whose aborted flag is set
          listeners,  \* per signal, the calls with a listener registered on it
          dispatch    \* listeners the abort under way has yet to call

vars == <<running, queue, pc, sig, aborted, listeners, dispatch>>

Phases == {"idle", "waiting", "holding", "released", "rejected", "skipped"}

TypeOK ==
    /\ running \in Nat
    /\ queue \in Seq(Calls)
    /\ pc \in [Calls -> Phases]
    /\ sig \in [Calls -> Signals \cup {NoSignal}]
    /\ aborted \subseteq Signals
    /\ listeners \in [Signals -> Seq(Calls)]
    /\ dispatch \in Seq(Calls)

Init ==
    /\ running = 0
    /\ queue = <<>>
    /\ pc = [c \in Calls |-> "idle"]
    /\ sig = [c \in Calls |-> NoSignal]
    /\ aborted = {}
    /\ listeners = [s \in Signals |-> <<>>]
    /\ dispatch = <<>>

Holders == {c \in Calls : pc[c] = "holding"}
Waiters == {c \in Calls : pc[c] = "waiting"}
IsLive(c) == sig[c] \notin aborted

\* Mutant: the listener is never registered.
BugNoListener(c, s) == UNCHANGED listeners

\* signal.addEventListener('abort', ...); it has no effect without a signal.
Listen(c, s) ==
    listeners' = IF s = NoSignal THEN listeners
                 ELSE [listeners EXCEPT ![s] = Append(@, c)]

\* signal.removeEventListener('abort', abortHandler) of the item being resolved.
Unlisten(c) ==
    \/ /\ sig[c] = NoSignal
       /\ UNCHANGED listeners
    \/ /\ sig[c] # NoSignal
       /\ \E i \in DOMAIN listeners[sig[c]] :
             /\ listeners[sig[c]][i] = c
             /\ listeners' = [listeners EXCEPT ![sig[c]] = Without(@, i)]

-----------------------------------------------------------------------------
\* Mutant: acquire does not look at its signal.
BugUnchecked(s) == FALSE

\* signal?.aborted
AlreadyAborted(s) == s \in aborted

\* acquire(signal)
Acquire(c, s) ==
    /\ dispatch = <<>>
    /\ pc[c] = "idle"
    /\ sig' = [sig EXCEPT ![c] = s]
    /\ \/ /\ AlreadyAborted(s)
          /\ pc' = [pc EXCEPT ![c] = "rejected"]
          /\ UNCHANGED <<running, queue, listeners>>
       \/ /\ ~AlreadyAborted(s)
          /\ running < MaxConcurrency
          /\ running' = running + 1
          /\ pc' = [pc EXCEPT ![c] = "holding"]
          /\ UNCHANGED <<queue, listeners>>
       \/ /\ ~AlreadyAborted(s)
          /\ running >= MaxConcurrency
          /\ queue' = Append(queue, c)
          /\ pc' = [pc EXCEPT ![c] = "waiting"]
          /\ Listen(c, s)
          /\ UNCHANGED running
    /\ UNCHANGED <<aborted, dispatch>>

\* The items release() shifts without resolving them when it stops before item n.
SkippedBefore(n) == {queue[j] : j \in 1..(n - 1)}

\* Mutant: the loop takes any live item.
BugAnyLive(i) == IsLive(queue[i])

\* The item on which the loop of release() stops.
IsNext(i) ==
    /\ IsLive(queue[i])
    /\ \A j \in 1..(i - 1) : ~IsLive(queue[j])

\* Mutant: the slot is freed and nobody woken.
BugNoWakeup(c) ==
    /\ running' = running - 1
    /\ pc' = [pc EXCEPT ![c] = "released"]
    /\ UNCHANGED <<queue, listeners>>

\* The private release(): the loop shifts items until it has resolved one that
\* is not aborted or the array is empty.  Its other condition, running below the
\* maximum, holds after the decrement (SlotsAccounted).
ReleaseSlot(c) ==
    \/ \E i \in DOMAIN queue :
          /\ IsNext(i)
          /\ queue' = SubSeq(queue, i + 1, Len(queue))
          /\ pc' = [d \in Calls |-> CASE d = c -> "released"
                                      [] d = queue[i] -> "holding"
                                      [] d \in SkippedBefore(i) -> "skipped"
                                      [] OTHER -> pc[d]]
          /\ Unlisten(queue[i])
          /\ UNCHANGED running
    \/ /\ \A i \in DOMAIN queue : ~IsLive(queue[i])
       /\ queue' = <<>>
       /\ pc' = [d \in Calls |-> CASE d = c -> "released"
                                   [] d \in Elements(queue) -> "skipped"
                                   [] OTHER -> pc[d]]
       /\ running' = running - 1
       /\ UNCHANGED listeners

\* Mutant: the closure lacks its `released' flag.
BugReleaseTwice(c) ==
    /\ pc[c] \in {"holding", "released"}
    /\ ReleaseSlot(c)

\* A release closure is called: once more is no different from once.
CloseSlot(c) ==
    \/ /\ pc[c] = "holding"
       /\ ReleaseSlot(c)
    \/ /\ pc[c] = "released"
       /\ UNCHANGED <<running, queue, pc, listeners>>

Release(c) ==
    /\ dispatch = <<>>
    /\ CloseSlot(c)
    /\ UNCHANGED <<sig, aborted, dispatch>>

\* A caller makes cancellation give its slot back at once.
RegisterRelease(c) ==
    /\ ReleaseOnAbort
    /\ dispatch = <<>>
    /\ pc[c] = "holding"
    /\ sig[c] # NoSignal
    /\ IsLive(c)
    /\ c \notin Elements(listeners[sig[c]])
    /\ Listen(c, sig[c])
    /\ UNCHANGED <<running, queue, pc, sig, aborted, dispatch>>

\* controller.abort(): the flag first, then the listeners, each called once.
Abort(s) ==
    /\ dispatch = <<>>
    /\ s \notin aborted
    /\ aborted' = aborted \cup {s}
    /\ dispatch' = listeners[s]
    /\ listeners' = [listeners EXCEPT ![s] = <<>>]
    /\ UNCHANGED <<running, queue, pc, sig>>

\* Mutant: rejected without being spliced out of the array.
BugNoSplice(c) ==
    /\ c \in Elements(queue)
    /\ pc' = [pc EXCEPT ![c] = "rejected"]
    /\ UNCHANGED <<running, queue, listeners>>

\* The abortHandler of acquire for a call in the array: splice and reject.
RejectWaiting(c) ==
    /\ \E i \in DOMAIN queue :
          /\ queue[i] = c
          /\ queue' = Without(queue, i)
    /\ pc' = [pc EXCEPT ![c] = "rejected"]
    /\ UNCHANGED <<running, listeners>>

\* The abortHandler of an item release() already shifted: indexOf is -1.
IgnoreShifted(c) ==
    /\ pc[c] = "skipped"
    /\ UNCHANGED <<running, queue, pc, listeners>>

RunListener ==
    /\ dispatch # <<>>
    /\ dispatch' = Tail(dispatch)
    /\ \/ RejectWaiting(Head(dispatch))
       \/ IgnoreShifted(Head(dispatch))
       \/ CloseSlot(Head(dispatch))
    /\ UNCHANGED <<sig, aborted>>

Next ==
    \/ \E c \in Calls, s \in Signals \cup {NoSignal} : Acquire(c, s)
    \/ \E c \in Calls : Release(c)
    \/ \E c \in Calls : RegisterRelease(c)
    \/ \E s \in Signals : Abort(s)
    \/ RunListener

\* An abort runs its listeners to the end, and every holder releases its slot:
\* run() and both callTool implementations release in a finally block.
Fairness ==
    /\ WF_vars(RunListener)
    /\ \A c \in Calls : WF_vars(Release(c))

Spec == Init /\ [][Next]_vars /\ Fairness

-----------------------------------------------------------------------------
\* The counter is the number of release closures not yet used, and the limit
\* holds, however often closures are called and whatever listeners run.
SlotsAccounted ==
    /\ running = Cardinality(Holders)
    /\ running <= MaxConcurrency

\* The array holds exactly the calls that wait, each once: none waits outside
\* it, where release() would never find it.
QueueHoldsWaiters ==
    /\ Elements(queue) = Waiters
    /\ \A i, j \in DOMAIN queue : queue[i] = queue[j] => i = j

\* No lost wakeup: while somebody waits every slot is in use, so that there is
\* a release still to come which hands a slot over.
WaitersImplySaturated == queue # <<>> => running = MaxConcurrency

\* Whoever waits with an aborted signal has its listener still to be called.
AbortReachesWaiters ==
    \A c \in Waiters : sig[c] \in aborted => c \in Elements(dispatch)

Ahead(c, d) == \E i, j \in DOMAIN queue : i < j /\ queue[i] = c /\ queue[j] = d

\* First in, first out: when d gets a slot nobody waits who stood before d and
\* was not cancelled, and when a newcomer gets one nobody waits at all.
NoOvertaking ==
    [][\A c, d \in Calls :
          d \notin Holders /\ d \in Holders' /\ c \in Waiters /\ IsLive(c)
             => d \in Waiters /\ ~Ahead(c, d)]_vars

\* A call whose signal is aborted never receives a slot any more.
CancelledNeverGranted ==
    [][\A c \in Calls : sig'[c] \in aborted /\ c \notin Holders => c \notin Holders']_vars

\* Every acquire settles, with a slot or with the abort error.  The exception is
\* a caller that releases in an abort listener: release() then drops an aborted
\* item (queue.ts:120 takes it for rejected) before that item's own listener
\* has run, which rejects nothing any more.
EveryAcquireSettles ==
    \A c \in Calls :
        pc[c] = "waiting" ~> (\/ pc[c] \in {"holding", "released", "rejected"}
                              \/ ReleaseOnAbort /\ pc[c] = "skipped")

-----------------------------------------------------------------------------
\* The queue seen as a FIFO semaphore: a cancelled waiter has left the line as
\* soon as its signal is aborted, though its listener is called only later.
Live == {c \in Calls : IsLive(c)}
LiveLine == Only(queue, Live)
Gone == {c \in Calls : pc[c] \in {"released", "rejected", "skipped"} \/ c \in Waiters \ Live}

Semaphore == INSTANCE FifoSemaphore WITH
    Clients <- Calls,
    Slots <- MaxConcurrency,
    holders <- Holders,
    line <- LiveLine,
    gone <- Gone

ImplementsSemaphore == Semaphore!Spec
=============================================================================

----------------------- MODULE ConcurrencyQueueProofs -----------------------
(***************************************************************************)
(* Proofs about ConcurrencyQueue, for any number of calls and signals and  *)
(* any limit: type correctness, the inductive invariant, and what follows  *)
(* from it.                                                                *)
(***************************************************************************)
EXTENDS ConcurrencyQueue, ArrayProofs, FiniteSetTheorems

\* Counting holders: any set of calls is finite, and one call more or less in it
\* is one more or less in its cardinality.
LEMMA CallSets ==
    ASSUME NEW H \in SUBSET Calls
    PROVE  /\ Cardinality(H) \in Nat
           /\ \A c \in Calls : c \notin H => Cardinality(H \cup {c}) = Cardinality(H) + 1
           /\ \A c \in H : Cardinality(H \ {c}) = Cardinality(H) - 1
<1>1. IsFiniteSet(H)
  BY QueueAssumption, FS_Subset
<1>2. QED
  BY <1>1, FS_CardinalityType, FS_AddElement, FS_RemoveElement

-----------------------------------------------------------------------------
\* The inductive invariant.  Each conjunct leans on the others: that running
\* stays a natural number needs SlotsAccounted, that a handover keeps the count
\* needs QueueHoldsWaiters (the item resolved is no holder), and that release()
\* leaves no waiter behind an idle slot needs WaitersImplySaturated.
IInv ==
    /\ TypeOK
    /\ QueueHoldsWaiters
    /\ SlotsAccounted
    /\ WaitersImplySaturated

\* The conjuncts about the queue's own fields, which its methods disturb.
FieldsOK ==
    /\ running \in Nat
    /\ queue \in Seq(Calls)
    /\ pc \in [Calls -> Phases]
    /\ QueueHoldsWaiters
    /\ SlotsAccounted
    /\ WaitersImplySaturated

LEMMA InitFields == Init => IInv
<1> SUFFICES ASSUME Init
             PROVE  IInv
  OBVIOUS
<1> USE DEF Init
<1>1. TypeOK
  BY EmptySeq DEF TypeOK, Phases
<1>2. DOMAIN queue = {} /\ Holders = {} /\ Waiters = {}
  BY EmptySeq, LenProperties DEF Holders, Waiters
<1>3. QueueHoldsWaiters
  BY <1>2 DEF QueueHoldsWaiters, Elements
<1>4. SlotsAccounted
  BY <1>2, FS_EmptySet, QueueAssumption DEF SlotsAccounted
<1>5. WaitersImplySaturated
  BY DEF WaitersImplySaturated
<1>6. QED
  BY <1>1, <1>3, <1>4, <1>5 DEF IInv

\* The three outcomes of acquire: rejected at once, a slot at once, a place in line.
LEMMA AcquireFields ==
    ASSUME IInv, NEW c \in Calls, NEW s \in Signals \cup {NoSignal}, Acquire(c, s)
    PROVE  FieldsOK' /\ listeners' \in [Signals -> Seq(Calls)]
<1> USE DEF IInv, TypeOK
<1>1. pc[c] = "idle" /\ c \notin Holders /\ c \notin Waiters
  BY DEF Acquire, Holders, Waiters
<1>2. CASE /\ pc' = [pc EXCEPT ![c] = "rejected"]
           /\ UNCHANGED <<running, queue, listeners>>
  <2>1. Holders' = Holders /\ Waiters' = Waiters /\ pc' \in [Calls -> Phases]
    BY <1>1, <1>2 DEF Holders, Waiters, Phases
  <2>2. QED
    BY <1>2, <2>1 DEF FieldsOK, QueueHoldsWaiters, SlotsAccounted, WaitersImplySaturated, Elements
<1>3. CASE /\ running < MaxConcurrency
           /\ running' = running + 1
           /\ pc' = [pc EXCEPT ![c] = "holding"]
           /\ UNCHANGED <<queue, listeners>>
  <2>1. Holders' = Holders \cup {c} /\ Waiters' = Waiters /\ pc' \in [Calls -> Phases]
    BY <1>1, <1>3 DEF Holders, Waiters, Phases
  <2>2. Cardinality(Holders') = Cardinality(Holders) + 1
    <3>1. Holders \in SUBSET Calls
      BY DEF Holders
    <3>2. QED
      BY <1>1, <2>1, <3>1, CallSets
  <2>3. SlotsAccounted' /\ running' \in Nat
    BY <1>3, <2>2, QueueAssumption DEF SlotsAccounted
  <2>4. WaitersImplySaturated'
    BY <1>3, QueueAssumption DEF WaitersImplySaturated
  <2>5. QED
    BY <1>3, <2>1, <2>3, <2>4 DEF FieldsOK, QueueHoldsWaiters, Elements
<1>4. CASE /\ running >= MaxConcurrency
           /\ queue' = Append(queue, c)
           /\ pc' = [pc EXCEPT ![c] = "waiting"]
           /\ Listen(c, s)
           /\ UNCHANGED running
  <2>1. Holders' = Holders /\ Waiters' = Waiters \cup {c} /\ pc' \in [Calls -> Phases]
    BY <1>1, <1>4 DEF Holders, Waiters, Phases
  <2>2. queue' \in Seq(Calls)
    BY <1>4, AppendProperties
  <2>3. QueueHoldsWaiters'
    <3>1. Injective(queue) /\ c \notin Elements(queue)
      BY <1>1 DEF QueueHoldsWaiters, Injective
    <3>2. Elements(queue') = Elements(queue) \cup {c} /\ Injective(queue')
      BY <1>4, <3>1, AppendElements
    <3>3. QED
      BY <2>1, <3>2 DEF QueueHoldsWaiters, Injective, Elements
  <2>4. running' \in Nat /\ SlotsAccounted'
    BY <1>4, <2>1 DEF SlotsAccounted
  <2>5. WaitersImplySaturated'
    BY <1>4, QueueAssumption DEF WaitersImplySaturated, SlotsAccounted
  <2>6. listeners' \in [Signals -> Seq(Calls)]
    BY <1>4, AppendProperties DEF Listen
  <2>7. QED
    BY <2>1, <2>2, <2>3, <2>4, <2>5, <2>6 DEF FieldsOK
<1>5. QED
  BY <1>2, <1>3, <1>4 DEF Acquire

\* removeEventListener leaves arrays of listeners.
LEMMA UnlistenType ==
    ASSUME TypeOK, NEW c \in Calls, Unlisten(c)
    PROVE  listeners' \in [Signals -> Seq(Calls)]
<1>1. CASE UNCHANGED listeners
  BY <1>1 DEF TypeOK
<1>2. CASE sig[c] # NoSignal /\ ~UNCHANGED listeners
  <2>1. sig[c] \in Signals /\ listeners[sig[c]] \in Seq(Calls)
    BY <1>2 DEF TypeOK
  <2>2. PICK i \in DOMAIN listeners[sig[c]] :
           listeners' = [listeners EXCEPT ![sig[c]] = Without(@, i)]
    BY <1>2 DEF Unlisten
  <2>3. Without(listeners[sig[c]], i) \in Seq(Calls)
    BY <2>1, WithoutProperties
  <2>4. QED
    BY <2>1, <2>2, <2>3 DEF TypeOK
<1>3. QED
  BY <1>1, <1>2 DEF Unlisten

\* release() of a holder: a handover to the first live waiter keeps the count,
\* and an array without one ends empty with one holder less.
LEMMA ReleaseFields ==
    ASSUME IInv, NEW c \in Calls, pc[c] = "holding", ReleaseSlot(c)
    PROVE  FieldsOK' /\ listeners' \in [Signals -> Seq(Calls)]
<1> USE DEF IInv, TypeOK
<1>1. c \in Holders /\ c \notin Waiters /\ Holders \in SUBSET Calls
  BY DEF Holders, Waiters
<1>2. /\ Len(queue) \in Nat /\ DOMAIN queue = 1..Len(queue)
      /\ \A i \in DOMAIN queue : queue[i] \in Calls /\ pc[queue[i]] = "waiting"
  BY LenProperties DEF QueueHoldsWaiters, Elements, Waiters
<1>3. ASSUME NEW i \in DOMAIN queue,
             queue' = SubSeq(queue, i + 1, Len(queue)),
             pc' = [d \in Calls |-> CASE d = c -> "released"
                                      [] d = queue[i] -> "holding"
                                      [] d \in SkippedBefore(i) -> "skipped"
                                      [] OTHER -> pc[d]],
             Unlisten(queue[i]),
             UNCHANGED running
      PROVE  FieldsOK' /\ listeners' \in [Signals -> Seq(Calls)]
  <2> DEFINE w == queue[i]
             shifted == {queue[j] : j \in 1..i}
  <2>1. w \in Calls /\ w \in Waiters /\ w # c /\ w \notin Holders
    BY <1>1, <1>2 DEF Holders, Waiters
  <2>2. shifted = SkippedBefore(i) \cup {w} /\ shifted \subseteq Waiters
    <3>1. \A j \in 1..i : j \in DOMAIN queue /\ (j \in 1..(i - 1) \/ j = i)
      BY <1>2
    <3>2. \A j \in 1..(i - 1) : j \in 1..i
      BY <1>2
    <3>3. i \in 1..i
      BY <1>2
    <3>4. QED
      BY <1>2, <3>1, <3>2, <3>3 DEF SkippedBefore, Waiters
  <2>3. w \notin SkippedBefore(i)
    <3>1. \A j \in 1..(i - 1) : j \in DOMAIN queue /\ j # i
      BY <1>2
    <3>2. QED
      BY <3>1 DEF SkippedBefore, QueueHoldsWaiters
  <2> HIDE DEF w, shifted
  <2>4. pc' \in [Calls -> Phases]
    BY <1>3 DEF Phases
  <2>5. /\ pc'[c] = "released" /\ pc'[w] = "holding"
        /\ \A d \in SkippedBefore(i) : pc'[d] = "skipped"
        /\ \A d \in Calls : d # c /\ d \notin shifted => pc'[d] = pc[d]
    BY <1>1, <1>2, <1>3, <2>1, <2>2, <2>3 DEF w, Waiters
  <2>6. Holders' = (Holders \ {c}) \cup {w}
    BY <2>1, <2>2, <2>5 DEF Holders, Waiters
  <2>7. Waiters' = Waiters \ shifted
    BY <1>1, <2>1, <2>2, <2>5 DEF Waiters
  <2>8. Cardinality(Holders') = Cardinality(Holders)
    <3>1. (Holders \ {c}) \in SUBSET Calls /\ w \notin Holders \ {c}
      BY <1>1, <2>1
    <3>2. Cardinality(Holders \ {c}) = Cardinality(Holders) - 1
      BY <1>1, CallSets
    <3>3. Cardinality((Holders \ {c}) \cup {w}) = Cardinality(Holders \ {c}) + 1
      BY <2>1, <3>1, CallSets
    <3>4. QED
      BY <1>1, <2>6, <3>2, <3>3, CallSets
  <2>9. queue' \in Seq(Calls) /\ QueueHoldsWaiters'
    <3>1. Injective(queue)
      BY DEF QueueHoldsWaiters, Injective
    <3>2. /\ queue' \in Seq(Calls)
          /\ Elements(queue') = Elements(queue) \ shifted
          /\ Injective(queue')
      BY <1>3, <3>1, SuffixElements DEF shifted
    <3>3. QED
      BY <2>7, <3>2 DEF QueueHoldsWaiters, Injective, Elements
  <2>10. running' \in Nat /\ SlotsAccounted'
    BY <1>3, <2>8 DEF SlotsAccounted
  <2>11. WaitersImplySaturated'
    <3>1. queue # <<>>
      BY <1>2, EmptySeq
    <3>2. QED
      BY <1>3, <3>1 DEF WaitersImplySaturated
  <2>12. listeners' \in [Signals -> Seq(Calls)]
    BY <1>3, <2>1, UnlistenType DEF w
  <2>13. QED
    BY <2>4, <2>9, <2>10, <2>11, <2>12 DEF FieldsOK
<1>4. CASE /\ queue' = <<>>
           /\ pc' = [d \in Calls |-> CASE d = c -> "released"
                                       [] d \in Elements(queue) -> "skipped"
                                       [] OTHER -> pc[d]]
           /\ running' = running - 1
           /\ UNCHANGED listeners
  <2>1. pc' \in [Calls -> Phases]
    BY <1>4 DEF Phases
  <2>2. Elements(queue) = Waiters
    BY DEF QueueHoldsWaiters
  <2>3. Holders' = Holders \ {c} /\ Waiters' = {}
    BY <1>1, <1>4, <2>2 DEF Holders, Waiters
  <2>4. Cardinality(Holders') = Cardinality(Holders) - 1 /\ Cardinality(Holders') \in Nat
    <3>1. Holders \ {c} \in SUBSET Calls
      BY <1>1
    <3>2. QED
      BY <1>1, <2>3, <3>1, CallSets
  <2>5. running' \in Nat /\ SlotsAccounted'
    BY <1>4, <2>4, QueueAssumption DEF SlotsAccounted
  <2>6. queue' \in Seq(Calls) /\ DOMAIN queue' = {}
    BY <1>4, EmptySeq, LenProperties
  <2>7. QueueHoldsWaiters'
    BY <2>3, <2>6 DEF QueueHoldsWaiters, Elements
  <2>8. QED
    BY <1>4, <2>1, <2>5, <2>6, <2>7 DEF FieldsOK, WaitersImplySaturated
<1>5. QED
  BY <1>3, <1>4 DEF ReleaseSlot

\* A release closure, used for the first time or once more.
LEMMA CloseFields ==
    ASSUME IInv, NEW c \in Calls, CloseSlot(c)
    PROVE  FieldsOK' /\ listeners' \in [Signals -> Seq(Calls)]
<1>1. CASE pc[c] = "holding" /\ ReleaseSlot(c)
  BY <1>1, ReleaseFields
<1>2. CASE UNCHANGED <<running, queue, pc, listeners>>
  BY <1>2 DEF IInv, TypeOK, FieldsOK, QueueHoldsWaiters, SlotsAccounted,
              WaitersImplySaturated, Elements, Holders, Waiters
<1>3. QED
  BY <1>1, <1>2 DEF CloseSlot

\* The abort listener of a waiting call: it leaves the line and the pc with it.
LEMMA RejectFields ==
    ASSUME IInv, NEW c \in Calls, RejectWaiting(c)
    PROVE  FieldsOK' /\ UNCHANGED listeners /\ c \notin Waiters'
<1> USE DEF IInv, TypeOK
<1>1. PICK i \in DOMAIN queue : queue[i] = c /\ queue' = Without(queue, i)
  BY DEF RejectWaiting
<1>2. /\ pc' = [pc EXCEPT ![c] = "rejected"]
      /\ UNCHANGED <<running, listeners>>
  BY DEF RejectWaiting
<1>3. c \in Waiters
  BY <1>1 DEF QueueHoldsWaiters, Elements
<1>4. Holders' = Holders /\ Waiters' = Waiters \ {c} /\ pc' \in [Calls -> Phases]
  BY <1>2, <1>3 DEF Holders, Waiters, Phases
<1>5. queue' \in Seq(Calls)
  BY <1>1, WithoutProperties
<1>6. QueueHoldsWaiters'
  <2>1. Injective(queue)
    BY DEF QueueHoldsWaiters, Injective
  <2>2. Elements(queue') = Elements(queue) \ {c} /\ Injective(queue')
    BY <1>1, <2>1, WithoutElements
  <2>3. QED
    BY <1>4, <2>2 DEF QueueHoldsWaiters, Injective, Elements
<1>7. SlotsAccounted' /\ running' \in Nat
  BY <1>2, <1>4 DEF SlotsAccounted
<1>8. WaitersImplySaturated'
  <2>1. queue # <<>>
    BY <1>1, EmptySeq, LenProperties
  <2>2. QED
    BY <1>2, <2>1 DEF WaitersImplySaturated
<1>9. QED
  BY <1>2, <1>4, <1>5, <1>6, <1>7, <1>8 DEF FieldsOK

LEMMA UnchangedFields ==
    ASSUME IInv, UNCHANGED <<running, queue, pc>>
    PROVE  FieldsOK'
BY DEF IInv, TypeOK, FieldsOK, QueueHoldsWaiters, SlotsAccounted,
       WaitersImplySaturated, Elements, Holders, Waiters

\* The listener at the head of an abort's list does one of three things.
LEMMA RunListenerFields ==
    ASSUME IInv, RunListener
    PROVE  /\ FieldsOK'
           /\ listeners' \in [Signals -> Seq(Calls)]
           /\ dispatch' \in Seq(Calls)
<1>1. Head(dispatch) \in Calls /\ dispatch' \in Seq(Calls)
  BY HeadTailProperties DEF RunListener, IInv, TypeOK
<1>2. CASE RejectWaiting(Head(dispatch))
  BY <1>1, <1>2, RejectFields DEF IInv, TypeOK
<1>3. CASE IgnoreShifted(Head(dispatch))
  BY <1>1, <1>3, UnchangedFields DEF IgnoreShifted, IInv, TypeOK
<1>4. CASE CloseSlot(Head(dispatch))
  BY <1>1, <1>4, CloseFields
<1>5. QED
  BY <1>1, <1>2, <1>3, <1>4 DEF RunListener

\* Every step of the queue, a stuttering one included, preserves the invariant.
LEMMA StepFields == IInv /\ [Next]_vars => IInv'
<1> SUFFICES ASSUME IInv, [Next]_vars
             PROVE  IInv'
  OBVIOUS
<1>0. FieldsOK' /\ TypeOK' => IInv'
  BY DEF FieldsOK, IInv
<1> USE DEF IInv, TypeOK
<1>1. ASSUME NEW c \in Calls, NEW s \in Signals \cup {NoSignal}, Acquire(c, s)
      PROVE  IInv'
  <2>1. UNCHANGED <<aborted, dispatch>> /\ sig' = [sig EXCEPT ![c] = s]
    BY <1>1 DEF Acquire
  <2>2. QED
    BY <1>1, <2>1, AcquireFields DEF FieldsOK
<1>2. ASSUME NEW c \in Calls, Release(c)
      PROVE  IInv'
  <2>1. CloseSlot(c) /\ UNCHANGED <<sig, aborted, dispatch>>
    BY <1>2 DEF Release
  <2>2. QED
    BY <2>1, CloseFields DEF FieldsOK
<1>3. ASSUME NEW c \in Calls, RegisterRelease(c)
      PROVE  IInv'
  <2>1. /\ Listen(c, sig[c]) /\ sig[c] # NoSignal
        /\ UNCHANGED <<running, queue, pc, sig, aborted, dispatch>>
    BY <1>3 DEF RegisterRelease
  <2>2. listeners' \in [Signals -> Seq(Calls)]
    BY <2>1, AppendProperties DEF Listen
  <2>3. QED
    BY <2>1, <2>2, UnchangedFields DEF FieldsOK
<1>4. ASSUME NEW s \in Signals, Abort(s)
      PROVE  IInv'
  <2>1. /\ aborted' = aborted \cup {s}
        /\ dispatch' = listeners[s]
        /\ listeners' = [listeners EXCEPT ![s] = <<>>]
        /\ UNCHANGED <<running, queue, pc, sig>>
    BY <1>4 DEF Abort
  <2>2. listeners' \in [Signals -> Seq(Calls)] /\ dispatch' \in Seq(Calls)
    BY <2>1, EmptySeq
  <2>3. QED
    BY <2>1, <2>2, UnchangedFields DEF FieldsOK
<1>5. CASE RunListener
  <2>1. UNCHANGED <<sig, aborted>>
    BY <1>5 DEF RunListener
  <2>2. QED
    BY <1>5, <2>1, RunListenerFields DEF FieldsOK
<1>6. CASE UNCHANGED vars
  BY <1>6, UnchangedFields DEF vars, FieldsOK
<1>7. QED
  BY <1>1, <1>2, <1>3, <1>4, <1>5, <1>6 DEF Next

LEMMA InductiveInvariant == Spec => []IInv
BY InitFields, StepFields, PTL DEF Spec

-----------------------------------------------------------------------------
\* Every variable of the queue keeps its type.
THEOREM TypeCorrect == Spec => []TypeOK
BY InductiveInvariant, PTL DEF IInv

\* The counter is the number of release closures not yet used, and it never
\* exceeds maxConcurrency, for any limit and any number of callers.
THEOREM SlotsAreAccounted == Spec => []SlotsAccounted
BY InductiveInvariant, PTL DEF IInv

\* The array holds exactly the waiting calls, each of them once.
THEOREM QueueIsTheWaiters == Spec => []QueueHoldsWaiters
BY InductiveInvariant, PTL DEF IInv

\* No lost wakeup: nobody waits while a slot is free.
THEOREM NoIdleSlot == Spec => []WaitersImplySaturated
BY InductiveInvariant, PTL DEF IInv

-----------------------------------------------------------------------------
\* A call gains a slot in one of two ways: acquire finds one free, or a release
\* hands over to the first item of the array whose signal is not aborted.
LEMMA GainOfSlot ==
    ASSUME IInv, [Next]_vars, NEW d \in Calls, d \notin Holders, d \in Holders'
    PROVE  \/ /\ running < MaxConcurrency
              /\ sig'[d] \notin aborted
              /\ d \notin Waiters
           \/ \E i \in DOMAIN queue :
                 /\ queue[i] = d
                 /\ IsLive(d)
                 /\ \A j \in 1..(i - 1) : ~IsLive(queue[j])
                 /\ sig' = sig
<1> USE DEF IInv, TypeOK
<1>1. pc[d] # "holding" /\ pc'[d] = "holding"
  BY DEF Holders
<1>2. ASSUME NEW c \in Calls, CloseSlot(c), sig' = sig
      PROVE  \E i \in DOMAIN queue :
                /\ queue[i] = d
                /\ IsLive(d)
                /\ \A j \in 1..(i - 1) : ~IsLive(queue[j])
                /\ sig' = sig
  <2>1. PICK i \in DOMAIN queue :
           /\ IsLive(queue[i])
           /\ \A j \in 1..(i - 1) : ~IsLive(queue[j])
           /\ pc' = [e \in Calls |-> CASE e = c -> "released"
                                       [] e = queue[i] -> "holding"
                                       [] e \in SkippedBefore(i) -> "skipped"
                                       [] OTHER -> pc[e]]
    BY <1>1, <1>2 DEF CloseSlot, ReleaseSlot, IsNext
  <2>2. queue[i] = d
    BY <1>1, <2>1
  <2>3. QED
    BY <1>2, <2>1, <2>2
<1>3. ASSUME NEW c \in Calls, NEW s \in Signals \cup {NoSignal}, Acquire(c, s)
      PROVE  running < MaxConcurrency /\ sig'[d] \notin aborted /\ d \notin Waiters
  <2>1. c = d /\ pc[c] = "idle" /\ sig'[c] = s /\ s \notin aborted /\ running < MaxConcurrency
    BY <1>1, <1>3 DEF Acquire, AlreadyAborted
  <2>2. QED
    BY <2>1 DEF Waiters
<1>4. ASSUME NEW c \in Calls, Release(c)
      PROVE  CloseSlot(c) /\ sig' = sig
  BY <1>4 DEF Release
<1>5. CASE RunListener
  <2>1. Head(dispatch) \in Calls
    BY <1>5, HeadTailProperties DEF RunListener
  <2>2. CloseSlot(Head(dispatch)) /\ sig' = sig
    BY <1>1, <1>5, <2>1 DEF RunListener, RejectWaiting, IgnoreShifted
  <2>3. QED
    BY <1>2, <2>1, <2>2
<1>6. ASSUME UNCHANGED pc
      PROVE  FALSE
  BY <1>1, <1>6
<1>7. QED
  BY <1>2, <1>3, <1>4, <1>5, <1>6 DEF Next, RegisterRelease, Abort, vars

\* First in, first out, for any line: whoever gets a slot leaves nobody live
\* waiting who stood before, and a newcomer gets one only if nobody waits.
THEOREM NobodyOvertakes == Spec => NoOvertaking
<1>1. ASSUME IInv, [Next]_vars, NEW c \in Calls, NEW d \in Calls,
             d \notin Holders, d \in Holders', c \in Waiters, IsLive(c),
             d \notin Waiters \/ Ahead(c, d)
      PROVE  FALSE
  <2>1. Elements(queue) = Waiters /\ Injective(queue)
    BY <1>1 DEF IInv, QueueHoldsWaiters, Injective
  <2>2. queue # <<>> /\ running = MaxConcurrency
    <3>1. queue # <<>>
      BY <1>1, <2>1, EmptySeq, LenProperties DEF Elements, IInv, TypeOK
    <3>2. QED
      BY <1>1, <3>1 DEF IInv, WaitersImplySaturated
  <2>3. PICK i \in DOMAIN queue :
           queue[i] = d /\ \A j \in 1..(i - 1) : ~IsLive(queue[j])
    BY <1>1, <2>2, GainOfSlot, QueueAssumption
  <2>4. d \in Waiters
    BY <2>1, <2>3 DEF Elements
  <2>5. PICK k, l \in DOMAIN queue : k < l /\ queue[k] = c /\ queue[l] = d
    BY <1>1, <2>4 DEF Ahead
  <2>6. l = i
    BY <2>1, <2>3, <2>5 DEF Injective
  <2>7. k \in 1..(i - 1)
    <3>1. DOMAIN queue = 1..Len(queue) /\ Len(queue) \in Nat
      BY <1>1, LenProperties DEF IInv, TypeOK
    <3>2. QED
      BY <2>5, <2>6, <3>1
  <2>8. QED
    BY <1>1, <2>3, <2>5, <2>7
<1> DEFINE FirstComeStep ==
      \A c, d \in Calls :
          d \notin Holders /\ d \in Holders' /\ c \in Waiters /\ IsLive(c)
             => d \in Waiters /\ ~Ahead(c, d)
<1>2. IInv /\ [Next]_vars => FirstComeStep
  BY <1>1
<1>3. QED
  BY <1>2, InductiveInvariant, PTL DEF Spec, NoOvertaking

\* A cancelled call never receives a slot, whether it asks, waits or is shifted.
THEOREM CancelledGetsNoSlot == Spec => CancelledNeverGranted
<1> DEFINE NoGrantStep ==
      \A c \in Calls : sig'[c] \in aborted /\ c \notin Holders => c \notin Holders'
<1>1. IInv /\ [Next]_vars => NoGrantStep
  BY GainOfSlot DEF IsLive
<1>2. QED
  BY <1>1, InductiveInvariant, PTL DEF Spec, CancelledNeverGranted

-----------------------------------------------------------------------------
\* What makes AbortReachesWaiters inductive: a waiter whose signal is not yet
\* aborted has its listener registered on that signal, for abort() to find.
WaitersListen ==
    \A c \in Waiters : sig[c] \in Signals \ aborted => c \in Elements(listeners[sig[c]])

Reached == WaitersListen /\ AbortReachesWaiters

\* Splicing one item out leaves every different item in.
LEMMA WithoutKeeps ==
    ASSUME NEW S, NEW s \in Seq(S), NEW n \in DOMAIN s, NEW x \in Elements(s), x # s[n]
    PROVE  x \in Elements(Without(s, n))
<1>1. Len(s) \in Nat /\ DOMAIN s = 1..Len(s)
  BY LenProperties
<1>2. PICK i \in 1..Len(s) : s[i] = x /\ i # n
  BY <1>1 DEF Elements
<1>3. /\ DOMAIN Without(s, n) = 1..(Len(s) - 1)
      /\ \A k \in 1..(Len(s) - 1) : Without(s, n)[k] = IF k < n THEN s[k] ELSE s[k + 1]
  BY WithoutProperties, LenProperties
<1>4. CASE i < n
  <2>1. i \in 1..(Len(s) - 1)
    BY <1>1, <1>4
  <2>2. Without(s, n)[i] = x
    BY <1>2, <1>3, <1>4, <2>1
  <2>3. QED
    BY <1>3, <2>1, <2>2 DEF Elements
<1>5. CASE ~(i < n)
  <2>1. i - 1 \in 1..(Len(s) - 1) /\ ~(i - 1 < n) /\ (i - 1) + 1 = i
    BY <1>1, <1>2, <1>5
  <2>2. Without(s, n)[i - 1] = x
    BY <1>2, <1>3, <2>1
  <2>3. QED
    BY <1>3, <2>1, <2>2 DEF Elements
<1>6. QED
  BY <1>4, <1>5

\* The items behind the head are those of the tail.
LEMMA TailKeeps ==
    ASSUME NEW S, NEW s \in Seq(S), s # <<>>, NEW x \in Elements(s), x # Head(s)
    PROVE  x \in Elements(Tail(s))
<1>1. Len(s) \in Nat /\ DOMAIN s = 1..Len(s) /\ Head(s) = s[1]
  BY LenProperties
<1>2. PICK i \in 1..Len(s) : s[i] = x /\ i # 1
  BY <1>1 DEF Elements
<1>3. /\ Tail(s) \in Seq(S)
      /\ Len(Tail(s)) = Len(s) - 1
      /\ \A k \in 1..Len(Tail(s)) : Tail(s)[k] = s[k + 1]
  BY HeadTailProperties
<1>4. DOMAIN Tail(s) = 1..(Len(s) - 1)
  BY <1>3, LenProperties
<1>5. i - 1 \in 1..(Len(s) - 1) /\ (i - 1) + 1 = i
  BY <1>1, <1>2
<1>6. Tail(s)[i - 1] = x
  BY <1>2, <1>3, <1>5
<1>7. QED
  BY <1>4, <1>5, <1>6 DEF Elements

\* Registering a listener removes none.
LEMMA ListenKeeps ==
    ASSUME TypeOK, NEW c \in Calls, NEW s \in Signals \cup {NoSignal}, Listen(c, s)
    PROVE  /\ \A t \in Signals : Elements(listeners[t]) \subseteq Elements(listeners'[t])
           /\ s # NoSignal => c \in Elements(listeners'[s])
<1>1. CASE s = NoSignal
  BY <1>1 DEF Listen
<1>2. CASE s # NoSignal
  <2>1. s \in Signals /\ listeners[s] \in Seq(Calls)
    BY <1>2 DEF TypeOK
  <2>2. listeners' = [listeners EXCEPT ![s] = Append(@, c)]
    BY <1>2 DEF Listen
  <2>3. Elements(Append(listeners[s], c)) = Elements(listeners[s]) \cup {c}
    BY <2>1, AppendElements
  <2>4. QED
    BY <2>1, <2>2, <2>3 DEF TypeOK
<1>3. QED
  BY <1>1, <1>2

\* A release removes at most the listener of the call it hands the slot to, and
\* nobody starts to wait.
LEMMA CloseReached ==
    ASSUME IInv, NEW c \in Calls, CloseSlot(c)
    PROVE  /\ Waiters' \subseteq Waiters
           /\ c \notin Waiters'
           /\ \A d \in Waiters', t \in Signals :
                 d \in Elements(listeners[t]) => d \in Elements(listeners'[t])
<1> USE DEF IInv, TypeOK
<1>1. CASE UNCHANGED <<running, queue, pc, listeners>>
  BY <1>1 DEF CloseSlot, Waiters
<1>2. ASSUME NEW i \in DOMAIN queue,
             pc' = [d \in Calls |-> CASE d = c -> "released"
                                      [] d = queue[i] -> "holding"
                                      [] d \in SkippedBefore(i) -> "skipped"
                                      [] OTHER -> pc[d]],
             Unlisten(queue[i])
      PROVE  /\ Waiters' \subseteq Waiters
             /\ c \notin Waiters'
             /\ \A d \in Waiters', t \in Signals :
                   d \in Elements(listeners[t]) => d \in Elements(listeners'[t])
  <2>1. Waiters' \subseteq Waiters /\ c \notin Waiters' /\ queue[i] \notin Waiters'
    BY <1>2 DEF Waiters
  <2>2. CASE UNCHANGED listeners
    BY <2>1, <2>2
  <2>3. CASE sig[queue[i]] # NoSignal
    <3>1. queue[i] \in Calls
      BY ElementOfSeq, LenProperties
    <3>2. sig[queue[i]] \in Signals /\ listeners[sig[queue[i]]] \in Seq(Calls)
      BY <2>3, <3>1
    <3>3. PICK k \in DOMAIN listeners[sig[queue[i]]] :
             /\ listeners[sig[queue[i]]][k] = queue[i]
             /\ listeners' = [listeners EXCEPT ![sig[queue[i]]] = Without(@, k)]
      BY <1>2, <2>3 DEF Unlisten
    <3>4. ASSUME NEW d \in Waiters', NEW t \in Signals, d \in Elements(listeners[t])
          PROVE  d \in Elements(listeners'[t])
      <4>1. CASE t = sig[queue[i]]
        <5>1. d # listeners[t][k]
          BY <2>1, <3>3, <4>1
        <5>2. d \in Elements(Without(listeners[t], k))
          BY <3>2, <3>3, <3>4, <4>1, <5>1, WithoutKeeps
        <5>3. QED
          BY <3>2, <3>3, <4>1, <5>2
      <4>2. CASE t # sig[queue[i]]
        BY <3>2, <3>3, <3>4, <4>2
      <4>3. QED
        BY <4>1, <4>2
    <3>5. QED
      BY <2>1, <3>4
  <2>4. QED
    BY <1>2, <2>2, <2>3 DEF Unlisten
<1>3. CASE /\ pc' = [d \in Calls |-> CASE d = c -> "released"
                                       [] d \in Elements(queue) -> "skipped"
                                       [] OTHER -> pc[d]]
           /\ UNCHANGED listeners
  BY <1>3 DEF Waiters
<1>4. QED
  BY <1>1, <1>2, <1>3 DEF CloseSlot, ReleaseSlot

\* Every step keeps the listeners where abort() and its dispatch find them.
LEMMA StepReached == IInv /\ Reached /\ [Next]_vars => Reached'
<1> SUFFICES ASSUME IInv, Reached, [Next]_vars
             PROVE  Reached'
  OBVIOUS
<1> USE DEF IInv, TypeOK, Reached, WaitersListen, AbortReachesWaiters
<1>1. ASSUME NEW c \in Calls, NEW s \in Signals \cup {NoSignal}, Acquire(c, s)
      PROVE  Reached'
  <2>1. /\ UNCHANGED <<aborted, dispatch>> /\ dispatch = <<>>
        /\ sig' = [sig EXCEPT ![c] = s]
        /\ c \notin Waiters
    BY <1>1 DEF Acquire, Waiters
  <2>2. CASE Waiters' = Waiters /\ UNCHANGED listeners
    BY <2>1, <2>2 DEF Waiters
  <2>3. CASE /\ s \notin aborted
             /\ pc' = [pc EXCEPT ![c] = "waiting"]
             /\ Listen(c, s)
    <3>1. Waiters' = Waiters \cup {c}
      BY <2>3 DEF Waiters
    <3>2. sig'[c] = s /\ \A d \in Waiters : sig'[d] = sig[d]
      BY <2>1 DEF Waiters
    <3>3. QED
      BY <2>1, <2>3, <3>1, <3>2, ListenKeeps, QueueAssumption
  <2>4. QED
    BY <1>1, <2>1, <2>2, <2>3 DEF Acquire, AlreadyAborted, Waiters
<1>2. ASSUME NEW c \in Calls, Release(c)
      PROVE  Reached'
  <2>1. CloseSlot(c) /\ UNCHANGED <<sig, aborted, dispatch>>
    BY <1>2 DEF Release
  <2>2. QED
    BY <2>1, CloseReached DEF Waiters
<1>3. ASSUME NEW c \in Calls, RegisterRelease(c)
      PROVE  Reached'
  <2>1. /\ Listen(c, sig[c]) /\ sig[c] \in Signals
        /\ UNCHANGED <<running, queue, pc, sig, aborted, dispatch>>
    BY <1>3 DEF RegisterRelease
  <2>2. QED
    BY <2>1, ListenKeeps DEF Waiters
<1>4. ASSUME NEW s \in Signals, Abort(s)
      PROVE  Reached'
  <2>1. /\ dispatch = <<>>
        /\ aborted' = aborted \cup {s}
        /\ dispatch' = listeners[s]
        /\ listeners' = [listeners EXCEPT ![s] = <<>>]
        /\ UNCHANGED <<running, queue, pc, sig>>
        /\ s \notin aborted
    BY <1>4 DEF Abort
  <2>2. \A c \in Waiters : sig[c] \notin aborted
    BY <2>1, EmptySeq, LenProperties DEF Elements
  <2>3. QED
    BY <2>1, <2>2 DEF Waiters
<1>5. CASE RunListener
  <2>1. /\ dispatch # <<>> /\ dispatch' = Tail(dispatch)
        /\ UNCHANGED <<sig, aborted>>
        /\ Head(dispatch) \in Calls
    BY <1>5, HeadTailProperties DEF RunListener
  <2>2. /\ Waiters' \subseteq Waiters
        /\ Head(dispatch) \notin Waiters'
        /\ \A d \in Waiters', t \in Signals :
              d \in Elements(listeners[t]) => d \in Elements(listeners'[t])
    <3>1. CASE RejectWaiting(Head(dispatch))
      BY <2>1, <3>1, RejectFields DEF RejectWaiting, Waiters
    <3>2. CASE IgnoreShifted(Head(dispatch))
      BY <3>2 DEF IgnoreShifted, Waiters
    <3>3. CASE CloseSlot(Head(dispatch))
      BY <2>1, <3>3, CloseReached
    <3>4. QED
      BY <1>5, <3>1, <3>2, <3>3 DEF RunListener
  <2>3. \A d \in Waiters' : d \in Elements(dispatch) => d \in Elements(dispatch')
    BY <2>1, <2>2, TailKeeps
  <2>4. QED
    BY <2>1, <2>2, <2>3
<1>6. CASE UNCHANGED vars
  BY <1>6 DEF vars, Waiters
<1>7. QED
  BY <1>1, <1>2, <1>3, <1>4, <1>5, <1>6 DEF Next

\* No cancellation is lost: a waiter whose signal is aborted has its listener
\* still to be called, until it is.
THEOREM AbortReachesEveryWaiter == Spec => []AbortReachesWaiters
<1>1. Init => Reached
  BY DEF Init, Reached, WaitersListen, AbortReachesWaiters, Waiters
<1>2. IInv /\ Reached /\ [Next]_vars => Reached'
  BY StepReached
<1>3. Reached => AbortReachesWaiters
  BY DEF Reached
<1>4. QED
  BY <1>1, <1>2, <1>3, InductiveInvariant, PTL DEF Spec

-----------------------------------------------------------------------------
\* A listener is on the signal its call was made with; an abort calls those of a
\* signal that is aborted.
ListenersOwn ==
    /\ \A s \in Signals : \A c \in Elements(listeners[s]) : pc[c] # "idle" /\ sig[c] = s
    /\ \A c \in Elements(dispatch) : pc[c] # "idle" /\ sig[c] \in aborted

\* A release makes no call idle and registers no listener.
LEMMA CloseOwn ==
    ASSUME IInv, NEW c \in Calls, CloseSlot(c)
    PROVE  /\ \A d \in Calls : pc[d] # "idle" => pc'[d] # "idle"
           /\ \A s \in Signals : Elements(listeners'[s]) \subseteq Elements(listeners[s])
<1> USE DEF IInv, TypeOK
<1>1. \A d \in Calls : pc[d] # "idle" => pc'[d] # "idle"
  BY DEF CloseSlot, ReleaseSlot
<1>2. ASSUME NEW d \in Calls, Unlisten(d), NEW s \in Signals
      PROVE  Elements(listeners'[s]) \subseteq Elements(listeners[s])
  <2>1. CASE UNCHANGED listeners
    BY <2>1
  <2>2. CASE ~UNCHANGED listeners
    <3>1. PICK i \in DOMAIN listeners[sig[d]] :
              listeners' = [listeners EXCEPT ![sig[d]] = Without(@, i)]
      BY <1>2, <2>2 DEF Unlisten
    <3>2. CASE s = sig[d]
      <4> DEFINE l == listeners[s]
      <4>1. l \in Seq(Calls) /\ i \in DOMAIN l /\ listeners'[s] = Without(l, i)
        BY <3>1, <3>2
      <4> HIDE DEF l
      <4>2. /\ DOMAIN l = 1..Len(l) /\ Len(l) \in Nat
            /\ DOMAIN Without(l, i) = 1..(Len(l) - 1)
            /\ \A k \in 1..(Len(l) - 1) : Without(l, i)[k] = IF k < i THEN l[k] ELSE l[k + 1]
        BY <4>1, WithoutProperties, LenProperties
      <4>3. \A k \in 1..(Len(l) - 1) : k \in DOMAIN l /\ k + 1 \in DOMAIN l
        BY <4>2
      <4>4. Elements(Without(l, i)) \subseteq Elements(l)
        BY <4>2, <4>3 DEF Elements
      <4>5. QED
        BY <4>1, <4>4 DEF l
    <3>3. CASE s # sig[d]
      BY <3>1, <3>3
    <3>4. QED
      BY <3>2, <3>3
  <2>3. QED
    BY <2>1, <2>2
<1>3. \A i \in DOMAIN queue : queue[i] \in Calls
  BY ElementOfSeq, LenProperties
<1>4. QED
  BY <1>1, <1>2, <1>3 DEF CloseSlot, ReleaseSlot

\* One more listener on a signal.
LEMMA ListenOwn ==
    ASSUME TypeOK, NEW c \in Calls, NEW s \in Signals \cup {NoSignal}, Listen(c, s)
    PROVE  \A t \in Signals : \A d \in Elements(listeners'[t]) :
               d \in Elements(listeners[t]) \/ (t = s /\ d = c)
<1> USE DEF TypeOK
<1>1. CASE s = NoSignal
  BY <1>1 DEF Listen
<1>2. CASE s # NoSignal
  <2>1. listeners[s] \in Seq(Calls) /\ listeners' = [listeners EXCEPT ![s] = Append(@, c)]
    BY <1>2 DEF Listen
  <2>2. Elements(Append(listeners[s], c)) = Elements(listeners[s]) \cup {c}
    BY <2>1, AppendElements
  <2>3. QED
    BY <1>2, <2>1, <2>2
<1>3. QED
  BY <1>1, <1>2

LEMMA StepOwn == IInv /\ ListenersOwn /\ [Next]_vars => ListenersOwn'
<1> SUFFICES ASSUME IInv, ListenersOwn, [Next]_vars
             PROVE  ListenersOwn'
  OBVIOUS
<1> USE DEF IInv, TypeOK
<1>1. Elements(<<>>) = {}
  BY EmptySeq, LenProperties DEF Elements
<1>2. \A s \in Signals : \A c \in Elements(listeners[s]) : c \in Calls
  BY ElementOfSeq, LenProperties DEF Elements
<1>3. ASSUME NEW c \in Calls, NEW s \in Signals \cup {NoSignal}, Acquire(c, s)
      PROVE  ListenersOwn'
  <2>1. /\ dispatch' = <<>> /\ pc[c] = "idle" /\ sig' = [sig EXCEPT ![c] = s]
        /\ \A d \in Calls : d # c => pc'[d] = pc[d]
        /\ pc'[c] # "idle"
    BY <1>3 DEF Acquire
  <2>2. \A t \in Signals : \A d \in Elements(listeners'[t]) :
            d \in Elements(listeners[t]) \/ (t = s /\ d = c)
    BY <1>3, ListenOwn DEF Acquire
  <2>3. QED
    BY <1>1, <1>2, <2>1, <2>2 DEF ListenersOwn
<1>4. ASSUME NEW c \in Calls, Release(c)
      PROVE  ListenersOwn'
  BY <1>1, <1>2, <1>4, CloseOwn DEF Release, ListenersOwn
<1>5. ASSUME NEW c \in Calls, RegisterRelease(c)
      PROVE  ListenersOwn'
  <2>1. \A t \in Signals : \A d \in Elements(listeners'[t]) :
            d \in Elements(listeners[t]) \/ (t = sig[c] /\ d = c)
    BY <1>5, ListenOwn DEF RegisterRelease
  <2>2. QED
    BY <1>1, <1>5, <2>1 DEF RegisterRelease, ListenersOwn
<1>6. ASSUME NEW s \in Signals, Abort(s)
      PROVE  ListenersOwn'
  BY <1>1, <1>6 DEF Abort, ListenersOwn
<1>7. ASSUME RunListener
      PROVE  ListenersOwn'
  <2>1. /\ Head(dispatch) \in Calls /\ Head(dispatch) \in Elements(dispatch)
        /\ Elements(Tail(dispatch)) \subseteq Elements(dispatch)
        /\ \A c \in Elements(dispatch) : c \in Calls
    <3>1. dispatch # <<>> /\ dispatch \in Seq(Calls)
      BY <1>7 DEF RunListener
    <3>2. /\ Len(dispatch) \in Nat /\ DOMAIN dispatch = 1..Len(dispatch)
          /\ Head(dispatch) \in Calls /\ Head(dispatch) = dispatch[1] /\ Len(dispatch) # 0
          /\ Tail(dispatch) \in Seq(Calls) /\ Len(Tail(dispatch)) = Len(dispatch) - 1
          /\ \A i \in 1..(Len(dispatch) - 1) : Tail(dispatch)[i] = dispatch[i + 1]
      BY <3>1, LenProperties, HeadTailProperties, EmptySeq
    <3>3. DOMAIN Tail(dispatch) = 1..(Len(dispatch) - 1)
      BY <3>2, LenProperties
    <3>4. 1 \in DOMAIN dispatch /\ \A i \in DOMAIN Tail(dispatch) : i + 1 \in DOMAIN dispatch
      BY <3>2, <3>3
    <3>5. QED
      BY <3>1, <3>2, <3>3, <3>4, ElementOfSeq DEF Elements
  <2>2. /\ \A d \in Calls : pc[d] # "idle" => pc'[d] # "idle"
        /\ \A s \in Signals : Elements(listeners'[s]) \subseteq Elements(listeners[s])
    BY <1>7, <2>1, CloseOwn DEF RunListener, RejectWaiting, IgnoreShifted
  <2>3. QED
    BY <1>2, <1>7, <2>1, <2>2 DEF RunListener, ListenersOwn
<1>8. CASE UNCHANGED vars
  BY <1>8 DEF vars, ListenersOwn
<1>9. QED
  BY <1>3, <1>4, <1>5, <1>6, <1>7, <1>8 DEF Next

-----------------------------------------------------------------------------
\* The queue is a FIFO semaphore.  Its line is the array without the items whose
\* signal is aborted.
LEMMA LineOfQueue ==
    ASSUME IInv
    PROVE  /\ LiveLine \in Seq(Calls) /\ Elements(LiveLine) = Waiters \cap Live
           /\ Waiters \subseteq Calls /\ Holders \subseteq Calls
           /\ Len(queue) \in Nat /\ DOMAIN queue = 1..Len(queue)
           /\ \A i \in DOMAIN queue : queue[i] \in Waiters
<1> USE DEF IInv, TypeOK
<1>1. LiveLine \in Seq(Calls) /\ Elements(LiveLine) = Elements(queue) \cap Live
  BY OnlyElements DEF LiveLine
<1>2. Len(queue) \in Nat /\ DOMAIN queue = 1..Len(queue)
  BY LenProperties
<1>3. QED
  BY <1>1, <1>2 DEF QueueHoldsWaiters, Waiters, Holders, Elements

\* An instance has its own copy of what its module extends.
LEMMA SemaphoreCardinality ==
    \A S : Semaphore!Cardinality(S) = Cardinality(S)
BY DEF Semaphore!Cardinality, Cardinality

LEMMA SemaphoreArrays ==
    ASSUME NEW S, NEW s \in Seq(S), NEW T
    PROVE  Semaphore!Elements(s) = Elements(s) /\ Semaphore!Only(s, T) = Only(s, T)
<1> DEFINE K == Kept(s, T)
<1>1. Semaphore!Elements(s) = Elements(s) /\ Semaphore!Kept(s, T) = K
  BY DEF Semaphore!Elements, Elements, Semaphore!Kept, Kept
<1>2. \A n : Semaphore!Rank(K, n) = Rank(K, n)
  BY SemaphoreCardinality DEF Semaphore!Rank, Rank
<1>3. /\ \A i \in 1..Cardinality(K) : \E n \in K : Rank(K, n) = i
      /\ \A m, n \in K : Rank(K, m) = Rank(K, n) => m = n
  BY KeptPositions, RankProperties
<1> HIDE DEF K
<1>4. \A i \in 1..Cardinality(K) :
        (CHOOSE n \in K : Semaphore!Rank(K, n) = i) = (CHOOSE n \in K : Rank(K, n) = i)
  BY <1>2, <1>3
<1>5. /\ Semaphore!Only(s, T) =
           [i \in 1..Cardinality(K) |-> s[CHOOSE n \in K : Semaphore!Rank(K, n) = i]]
      /\ Only(s, T) = [i \in 1..Cardinality(K) |-> s[CHOOSE n \in K : Rank(K, n) = i]]
  BY <1>1, SemaphoreCardinality DEF Semaphore!Only, Only, K
<1>6. Semaphore!Only(s, T) = Only(s, T)
  BY <1>4, <1>5
<1>7. QED
  BY <1>1, <1>6

\* Who asks is new to the semaphore: refused, given a slot, or put last in line.
LEMMA AcquireRefines ==
    ASSUME IInv, NEW c \in Calls, NEW s \in Signals \cup {NoSignal}, Acquire(c, s)
    PROVE  Semaphore!Next
<1> USE DEF IInv, TypeOK
<1>1. pc[c] = "idle" /\ sig' = [sig EXCEPT ![c] = s] /\ UNCHANGED aborted
  BY DEF Acquire
<1>2. Semaphore!New(c)
  BY <1>1, LineOfQueue, SemaphoreArrays DEF Semaphore!New, Holders, Waiters, Gone
<1>3. Kept(queue, Live') = Kept(queue, Live)
  BY <1>1, LineOfQueue DEF Kept, Live, IsLive, Waiters
<1>4. Only(queue, Live') = LiveLine
  BY <1>3 DEF Only, LiveLine
<1>5. CASE /\ AlreadyAborted(s)
           /\ pc' = [pc EXCEPT ![c] = "rejected"]
           /\ UNCHANGED <<running, queue, listeners>>
  <2>1. Holders' = Holders /\ LiveLine' = LiveLine
    BY <1>1, <1>4, <1>5 DEF Holders, LiveLine
  <2>2. Gone' = Gone \cup {c}
    BY <1>1, <1>5 DEF Gone, Waiters, Live, IsLive
  <2>3. QED
    BY <1>2, <2>1, <2>2 DEF Semaphore!Next, Semaphore!Refuse
<1>6. CASE /\ running < MaxConcurrency
           /\ pc' = [pc EXCEPT ![c] = "holding"]
           /\ UNCHANGED <<queue, listeners>>
  <2>1. Holders' = Holders \cup {c} /\ LiveLine' = LiveLine /\ Gone' = Gone
    BY <1>1, <1>4, <1>6 DEF Holders, LiveLine, Gone, Waiters, Live, IsLive
  <2>2. LiveLine = <<>>
    <3>1. queue = <<>>
      BY <1>6, QueueAssumption DEF WaitersImplySaturated
    <3>2. QED
      BY <3>1, OnlyEmpty DEF LiveLine
  <2>3. Cardinality(Holders) < MaxConcurrency
    BY <1>6 DEF SlotsAccounted
  <2>4. Semaphore!Take(c)
    BY <1>2, <2>1, <2>2, <2>3, SemaphoreCardinality DEF Semaphore!Take
  <2>5. QED
    BY <2>4 DEF Semaphore!Next
<1>7. CASE /\ ~AlreadyAborted(s)
           /\ running >= MaxConcurrency
           /\ queue' = Append(queue, c)
           /\ pc' = [pc EXCEPT ![c] = "waiting"]
  <2>1. c \in Live'
    BY <1>1, <1>7 DEF AlreadyAborted, Live, IsLive
  <2>2. Holders' = Holders /\ Gone' = Gone
    BY <1>1, <1>7, <2>1 DEF Holders, Gone, Waiters, Live, IsLive
  <2>3. LiveLine' = Append(LiveLine, c)
    BY <1>4, <1>7, <2>1, OnlyAppend DEF LiveLine
  <2>4. Cardinality(Holders) = MaxConcurrency
    BY <1>7, QueueAssumption DEF SlotsAccounted
  <2>5. Semaphore!Join(c)
    BY <1>2, <2>2, <2>3, <2>4, SemaphoreCardinality DEF Semaphore!Join
  <2>6. QED
    BY <2>5 DEF Semaphore!Next
<1>8. QED
  BY <1>5, <1>6, <1>7 DEF Acquire

\* Who releases leaves, and the first in line takes the slot over.  What release()
\* drops on its way had left the line when its signal was aborted.
LEMMA ReleaseRefines ==
    ASSUME IInv, NEW c \in Calls, pc[c] = "holding", ReleaseSlot(c), UNCHANGED <<sig, aborted>>
    PROVE  Semaphore!Finish(c)
<1> USE DEF IInv, TypeOK
<1>1. c \in Holders /\ c \notin Waiters /\ Live' = Live
  BY DEF Holders, Waiters, Live, IsLive
<1>2. ASSUME NEW i \in DOMAIN queue, IsNext(i),
             queue' = SubSeq(queue, i + 1, Len(queue)),
             pc' = [d \in Calls |-> CASE d = c -> "released"
                                      [] d = queue[i] -> "holding"
                                      [] d \in SkippedBefore(i) -> "skipped"
                                      [] OTHER -> pc[d]]
      PROVE  Semaphore!Finish(c)
  <2> DEFINE n == queue[i]
             Skipped == SkippedBefore(i)
  <2>1. n \in Waiters \cap Live /\ n # c
    BY <1>1, <1>2, LineOfQueue DEF IsNext, Live
  <2>2. \A j \in 1..(i - 1) : j \in DOMAIN queue
    BY LineOfQueue
  <2>3. Skipped \subseteq Waiters \ Live
    BY <1>2, <2>2, LineOfQueue DEF IsNext, Live, SkippedBefore
  <2>4. /\ pc'[c] = "released" /\ pc'[n] = "holding"
        /\ \A d \in Skipped : pc'[d] = "skipped"
        /\ \A d \in Calls : d # c /\ d # n /\ d \notin Skipped => pc'[d] = pc[d]
    BY <1>1, <1>2, <2>1, <2>3, LineOfQueue
  <2> HIDE DEF n, Skipped
  <2>5. Holders' = (Holders \ {c}) \cup {n}
    BY <2>1, <2>3, <2>4 DEF Holders, Waiters
  <2>6. Gone' = Gone \cup {c}
    BY <1>1, <2>1, <2>3, <2>4 DEF Gone, Waiters, Live
  <2>7. LiveLine # <<>> /\ Head(LiveLine) = n /\ LiveLine' = Tail(LiveLine)
    <3>1. n \in Live /\ \A j \in 1..(i - 1) : queue[j] \notin Live
      BY <1>2, <2>1 DEF IsNext, Live
    <3>2. /\ Only(queue, Live) # <<>> /\ Head(Only(queue, Live)) = n
          /\ Only(queue', Live) = Tail(Only(queue, Live))
      BY <1>2, <3>1, OnlySuffix DEF n
    <3>3. QED
      BY <1>1, <3>2 DEF LiveLine
  <2>8. QED
    BY <1>1, <2>5, <2>6, <2>7 DEF Semaphore!Finish
<1>3. ASSUME \A i \in DOMAIN queue : ~IsLive(queue[i]),
             queue' = <<>>,
             pc' = [d \in Calls |-> CASE d = c -> "released"
                                      [] d \in Elements(queue) -> "skipped"
                                      [] OTHER -> pc[d]]
      PROVE  Semaphore!Finish(c)
  <2>1. \A i \in DOMAIN queue : queue[i] \notin Live
    BY <1>3 DEF Live
  <2>2. LiveLine = <<>>
    BY <2>1, OnlyNone DEF LiveLine
  <2>3. LiveLine' = <<>>
    BY <1>3, OnlyEmpty DEF LiveLine
  <2>4. Elements(queue) \subseteq Waiters \ Live
    BY <2>1, LineOfQueue DEF Elements
  <2>5. /\ pc'[c] = "released"
        /\ \A d \in Elements(queue) : pc'[d] = "skipped"
        /\ \A d \in Calls : d # c /\ d \notin Elements(queue) => pc'[d] = pc[d]
    BY <1>1, <1>3, <2>4, LineOfQueue
  <2>6. Holders' = Holders \ {c}
    BY <2>4, <2>5 DEF Holders, Waiters
  <2>7. Gone' = Gone \cup {c}
    BY <1>1, <2>4, <2>5 DEF Gone, Waiters
  <2>8. QED
    BY <1>1, <2>2, <2>3, <2>6, <2>7 DEF Semaphore!Finish
<1>4. QED
  BY <1>2, <1>3 DEF ReleaseSlot

LEMMA CloseRefines ==
    ASSUME IInv, NEW c \in Calls, CloseSlot(c), UNCHANGED <<sig, aborted>>
    PROVE  Semaphore!Next \/ UNCHANGED Semaphore!semVars
<1>1. CASE pc[c] = "holding" /\ ReleaseSlot(c)
  BY <1>1, ReleaseRefines DEF Semaphore!Next
<1>2. CASE UNCHANGED <<running, queue, pc, listeners>>
  BY <1>2 DEF Semaphore!semVars, Holders, LiveLine, Gone, Waiters, Live, IsLive
<1>3. QED
  BY <1>1, <1>2 DEF CloseSlot

\* An abort takes all waiters of its signal out of the line at once.
LEMMA AbortRefines ==
    ASSUME IInv, NEW s \in Signals, Abort(s)
    PROVE  Semaphore!Next \/ UNCHANGED Semaphore!semVars
<1> USE DEF IInv, TypeOK
<1> DEFINE Left == {c \in Waiters : sig[c] = s}
<1>1. UNCHANGED <<queue, pc, sig>> /\ aborted' = aborted \cup {s} /\ s \notin aborted
  BY DEF Abort
<1>2. Holders' = Holders /\ Waiters' = Waiters
  BY <1>1 DEF Holders, Waiters
<1>3. Left \subseteq Waiters \cap Live /\ Left \subseteq Calls
  BY <1>1, LineOfQueue DEF Live, IsLive
<1>4. Waiters \ Live' = (Waiters \ Live) \cup Left
  BY <1>1, LineOfQueue DEF Live, IsLive
<1>5. Gone' = Gone \cup Left
  BY <1>1, <1>2, <1>3, <1>4 DEF Gone
<1>6. Kept(queue, Live') = Kept(queue, Live \cap (Calls \ Left))
  BY <1>3, <1>4, LineOfQueue DEF Kept
<1>7. Only(queue, Live') = Only(LiveLine, Calls \ Left)
  <2>1. Only(queue, Live') = Only(queue, Live \cap (Calls \ Left))
    BY <1>6 DEF Only
  <2>2. QED
    BY <2>1, OnlyOnly DEF LiveLine
<1>8. LiveLine' = Only(LiveLine, Calls \ Left)
  BY <1>1, <1>7 DEF LiveLine
<1>9. CASE Left = {}
  <2>1. Kept(queue, Live') = Kept(queue, Live)
    BY <1>4, <1>9, LineOfQueue DEF Kept
  <2>2. LiveLine' = LiveLine
    BY <1>1, <2>1 DEF LiveLine, Only
  <2>3. QED
    BY <1>2, <1>5, <1>9, <2>2 DEF Semaphore!semVars
<1>10. CASE Left # {}
  <2> HIDE DEF Left
  <2>1. Left \subseteq Elements(LiveLine)
    BY <1>3, LineOfQueue
  <2>2. /\ Semaphore!Elements(LiveLine) = Elements(LiveLine)
        /\ Semaphore!Only(LiveLine, Calls \ Left) = Only(LiveLine, Calls \ Left)
    BY LineOfQueue, SemaphoreArrays
  <2>3. Semaphore!GiveUp(Left)
    BY <1>2, <1>5, <1>8, <1>10, <2>1, <2>2 DEF Semaphore!GiveUp
  <2>4. QED
    BY <1>3, <2>3 DEF Semaphore!Next
<1>11. QED
  BY <1>9, <1>10

\* The listener of a waiter finds it out of the line already.
LEMMA RejectRefines ==
    ASSUME IInv, ListenersOwn, NEW c \in Elements(dispatch), RejectWaiting(c),
           UNCHANGED <<sig, aborted>>
    PROVE  UNCHANGED Semaphore!semVars
<1> USE DEF IInv, TypeOK
<1>1. PICK i \in DOMAIN queue : queue[i] = c /\ queue' = Without(queue, i)
  BY DEF RejectWaiting
<1>2. c \in Waiters /\ c \in Calls /\ c \notin Live /\ Live' = Live
  BY <1>1, LineOfQueue DEF ListenersOwn, Live, IsLive
<1>3. LiveLine' = LiveLine
  BY <1>1, <1>2, OnlyWithout DEF LiveLine
<1>4. pc' = [pc EXCEPT ![c] = "rejected"]
  BY DEF RejectWaiting
<1>5. Holders' = Holders /\ Gone' = Gone
  BY <1>2, <1>4 DEF Holders, Gone, Waiters
<1>6. QED
  BY <1>3, <1>5 DEF Semaphore!semVars

LEMMA InitRefines == Init => Semaphore!Init
<1> SUFFICES ASSUME Init PROVE Semaphore!Init
  OBVIOUS
<1>1. LiveLine = <<>>
  BY OnlyEmpty DEF Init, LiveLine
<1>2. QED
  BY <1>1 DEF Init, Semaphore!Init, Holders, Gone, Waiters

LEMMA StepRefines ==
    IInv /\ ListenersOwn /\ [Next]_vars => [Semaphore!Next]_(Semaphore!semVars)
<1> SUFFICES ASSUME IInv, ListenersOwn, [Next]_vars
             PROVE  Semaphore!Next \/ UNCHANGED Semaphore!semVars
  OBVIOUS
<1>1. ASSUME NEW c \in Calls, Release(c)
      PROVE  Semaphore!Next \/ UNCHANGED Semaphore!semVars
  BY <1>1, CloseRefines DEF Release
<1>2. ASSUME UNCHANGED <<queue, pc, sig, aborted>>
      PROVE  UNCHANGED Semaphore!semVars
  BY <1>2 DEF Semaphore!semVars, Holders, LiveLine, Gone, Waiters, Live, IsLive
<1>3. CASE RunListener
  <2> DEFINE c == Head(dispatch)
  <2>1. c \in Elements(dispatch) /\ c \in Calls
    <3>1. dispatch # <<>> /\ dispatch \in Seq(Calls)
      BY <1>3 DEF RunListener, IInv, TypeOK
    <3>2. c = dispatch[1] /\ c \in Calls /\ 1 \in DOMAIN dispatch
      BY <3>1, HeadTailProperties, LenProperties, EmptySeq
    <3>3. QED
      BY <3>2 DEF Elements
  <2>2. CASE RejectWaiting(c)
    BY <1>3, <2>1, <2>2, RejectRefines DEF RunListener
  <2>3. CASE IgnoreShifted(c)
    BY <1>2, <1>3, <2>3 DEF RunListener, IgnoreShifted
  <2>4. CASE CloseSlot(c)
    BY <1>3, <2>1, <2>4, CloseRefines DEF RunListener
  <2>5. QED
    BY <1>3, <2>2, <2>3, <2>4 DEF RunListener
<1>4. QED
  BY <1>1, <1>2, <1>3, AcquireRefines, AbortRefines DEF Next, RegisterRelease, vars

\* The queue implements the semaphore, but for its liveness: initial states are
\* initial states, and every step, those of the listeners included, is a step of
\* the semaphore or leaves it alone.
THEOREM QueueIsSemaphore ==
    Spec => Semaphore!Init /\ [][Semaphore!Next]_(Semaphore!semVars)
<1>1. Init => ListenersOwn
  BY EmptySeq, LenProperties DEF Init, ListenersOwn, Elements
<1>2. Spec => []ListenersOwn
  BY <1>1, StepOwn, InductiveInvariant, PTL DEF Spec
<1>3. QED
  BY <1>2, InitRefines, StepRefines, InductiveInvariant, PTL DEF Spec
=============================================================================

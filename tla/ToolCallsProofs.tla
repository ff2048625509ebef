--------------------------- MODULE ToolCallsProofs ---------------------------
(***************************************************************************)
(* The slots, the aborts and the answers of tool calls, for any tools,     *)
(* queues and limits, and any number of calls that call each other.        *)
(*                                                                         *)
(* The invariant has a part for each: QueuesOK, the slots and lines of the *)
(* queues; FamilyOK, who was called by whom, by which an abort goes down   *)
(* to every descendant at once; and AnswersOK, which says in which phases  *)
(* a call has its answer, its attempts and its retries.                    *)
(***************************************************************************)
EXTENDS ToolCalls, ArrayProofs

Signals == {"live", "timeout", "cancelled"}

\* The types of what decides about queues, aborts and answers.
Typed ==
    /\ call \in [Calls -> CallRecord \cup {NoCall}]
    /\ phase \in [Calls -> Phases]
    /\ result \in [Calls -> Failures \cup {"none", "success"}]
    /\ signal \in [Calls -> Signals]
    /\ ahead \in [Calls -> SUBSET Nat] /\ handlers \in [Calls -> SUBSET Nat]
    /\ tries \in [Calls -> Nat]
    /\ cap \in [Queues -> Nat]
    /\ slots \in [Queues -> SUBSET Calls]
    /\ line \in [Queues -> Seq(Calls)]

\* A call is made by one that was made before, and heeds what that one heeds.
Descends(c) ==
    LET p == call[c].parent
    IN  p # NoCall => /\ p \in Made
                      /\ ~call[p].mcp => call[p].heeds \subseteq call[c].heeds

FamilyOK ==
    /\ \A c \in Calls : Begun(c) # {} => c \in Made
    /\ \A c \in Made : call[c] \in CallRecord /\ Descends(c)
    /\ AbortCascades

\* Each queue has its own calls, waiting ones once.
QueueOK(q) ==
    /\ slots[q] = {c \in Calls : UsesQueue(c, q) /\ Admitted(c)}
    /\ Elements(line[q]) = {c \in Calls : UsesQueue(c, q) /\ phase[c] = "queued"}
    /\ Injective(line[q])
    /\ IsFiniteSet(slots[q]) /\ Cardinality(slots[q]) <= cap[q]

QueuesOK == \A q \in Queues : QueueOK(q)

\* A call has its answer from the moment it unwinds.
AnswerOK(c) == result[c] # "none" <=> phase[c] \in {"unwinding", "done"}

\* The attempts of a call that nothing aborted: only loose middlewares leave one
\* behind, and without middlewares none is on its way to a handler.
AttemptsOK(c) ==
    c \in Made =>
        /\ call[c].tool \notin Loose /\ signal[c] = "live" =>
               /\ phase[c] = "running" => Begun(c) \subseteq {tries[c]}
               /\ phase[c] # "running" => Begun(c) = {}
        /\ call[c].tool \notin Wrapped => ahead[c] = {}

\* Retries are counted by the loop only, and an abort ends it.
LoopOK(c) ==
    /\ phase[c] \in {"new", "queued", "admitted", "context"} => tries[c] = 0
    /\ phase[c] \in {"running", "backoff"} => signal[c] = "live"

AnswersOK == \A c \in Calls : AnswerOK(c) /\ AttemptsOK(c) /\ LoopOK(c)

IInv == Typed /\ FamilyOK /\ QueuesOK /\ AnswersOK

-----------------------------------------------------------------------------
\* resolveQueueConfig gives no queue, or one with a limit of at least one.
LEMMA Configured ==
    ASSUME NEW t \in Tools, NEW asked, NEW isChild
    PROVE  LET config == QueueConfig(t, asked, isChild)
           IN  \/ config.key = NoQueue
               \/ config.key \in Queues /\ config.max \in Nat \ {0}
<1> DEFINE seq == IF asked # "off" THEN asked ELSE Sequential[t]
           config == QueueConfig(t, asked, isChild)
<1>1. CASE seq = "tool"
  <2>1. config = [key |-> <<"tool", t>>, max |-> 1]
    BY <1>1, CallsAssumption DEF QueueConfig
  <2>2. QED
    BY <2>1 DEF Queues
<1>2. CASE seq # "tool" /\ seq \in Mutexes /\ seq # "off"
  <2>1. config = [key |-> <<"mutex", seq>>, max |-> 1]
    BY <1>2, CallsAssumption DEF QueueConfig
  <2>2. QED
    BY <1>2, <2>1 DEF Queues
<1>3. QED
  BY <1>1, <1>2, CallsAssumption DEF QueueConfig, Queues, UsesServerQueue

\* The queues of a step that moves calls neither into nor out of them.
LEMMA QueuesUntouched ==
    ASSUME QueuesOK, UNCHANGED <<cap, slots, line>>,
           \A q \in Queues, c \in Calls :
               /\ UsesQueue(c, q)' /\ Admitted(c)' <=> UsesQueue(c, q) /\ Admitted(c)
               /\ UsesQueue(c, q)' /\ phase'[c] = "queued" <=> UsesQueue(c, q) /\ phase[c] = "queued"
    PROVE  QueuesOK'
<1> SUFFICES ASSUME NEW q \in Queues
             PROVE  QueueOK(q)'
  BY DEF QueuesOK
<1>1. /\ slots[q] = {c \in Calls : UsesQueue(c, q)' /\ Admitted(c)'}
      /\ Elements(line[q]) = {c \in Calls : UsesQueue(c, q)' /\ phase'[c] = "queued"}
  BY DEF QueuesOK, QueueOK
<1>2. QED
  BY <1>1 DEF QueuesOK, QueueOK

\* The family of a step that makes no call and aborts none.
LEMMA FamilyUntouched ==
    ASSUME FamilyOK, UNCHANGED <<call, signal>>, Made' = Made,
           \A c \in Calls : Begun(c)' # {} => c \in Made
    PROVE  FamilyOK'
BY DEF FamilyOK, Descends, AbortCascades, AbortReaches

-----------------------------------------------------------------------------
\* The part of a new call that has to do with queues.
LEMMA AcquireQueues ==
    ASSUME Typed, QueuesOK, NEW c \in Calls, phase[c] = "new",
           NEW config, config.key \in Queues => config.max \in Nat \ {0},
           config.key \in Queues \cup {NoQueue},
           NEW record, call' = [call EXCEPT ![c] = record], record.queue = config.key,
           NEW s \in Signals, AcquireSlot(c, config, s)
    PROVE  /\ QueuesOK'
           /\ \E p \in {"admitted", "queued", "done"} :
                 /\ phase' = [phase EXCEPT ![c] = p]
                 /\ result' = IF p = "done" THEN [result EXCEPT ![c] = s] ELSE result
                 /\ p = "done" => s # "live"
           /\ cap' \in [Queues -> Nat]
           /\ slots' \in [Queues -> SUBSET Calls]
           /\ line' \in [Queues -> Seq(Calls)]
<1> DEFINE k == config.key
<1>1. \A q \in Queues : slots[q] \subseteq Calls /\ Elements(line[q]) \subseteq Calls
  BY DEF QueuesOK, QueueOK
<1>2. \A q \in Queues : c \notin slots[q] /\ c \notin Elements(line[q])
  BY DEF QueuesOK, QueueOK, UsesQueue, Made
<1>3. ASSUME NEW p \in Phases \ {"new"}, phase' = [phase EXCEPT ![c] = p]
      PROVE  /\ \A q \in Queues : \A d \in Calls \ {c} :
                    /\ d \in slots[q] <=> UsesQueue(d, q)' /\ Admitted(d)'
                    /\ d \in Elements(line[q]) <=> UsesQueue(d, q)' /\ phase'[d] = "queued"
             /\ \A q \in Queues : UsesQueue(c, q)' <=> q = k
             /\ phase'[c] = p /\ (Admitted(c)' <=> p \in {"admitted", "context", "running", "backoff", "unwinding"})
  <2>1. /\ call'[c] = record /\ phase'[c] = p
        /\ \A d \in Calls \ {c} : call'[d] = call[d] /\ phase'[d] = phase[d]
    BY <1>3 DEF Typed
  <2>2. \A d \in Calls \ {c} : /\ Admitted(d)' <=> Admitted(d)
                               /\ \A q \in Queues : UsesQueue(d, q)' <=> UsesQueue(d, q)
    BY <2>1 DEF Admitted, UsesQueue, Made
  <2>3. \A q \in Queues : UsesQueue(c, q)' <=> q = k
    BY <2>1 DEF UsesQueue, Made
  <2>4. QED
    BY <2>1, <2>2, <2>3 DEF QueuesOK, QueueOK, Admitted
<1>4. CASE k = NoQueue
  <2>1. /\ phase' = [phase EXCEPT ![c] = "admitted"] /\ UNCHANGED <<result, cap, slots, line>>
        /\ k \notin Queues
    BY <1>4, CallsAssumption DEF AcquireSlot
  <2>2. ASSUME NEW q \in Queues
        PROVE  QueueOK(q)'
    <3>1. ~UsesQueue(c, q)'
      BY <1>3, <2>1 DEF Phases
    <3>2. \A d \in Calls \ {c} :
            /\ d \in slots[q] <=> UsesQueue(d, q)' /\ Admitted(d)'
            /\ d \in Elements(line[q]) <=> UsesQueue(d, q)' /\ phase'[d] = "queued"
      BY <1>3, <2>1 DEF Phases
    <3>3. /\ slots[q] = {d \in Calls : UsesQueue(d, q)' /\ Admitted(d)'}
          /\ Elements(line[q]) = {d \in Calls : UsesQueue(d, q)' /\ phase'[d] = "queued"}
      BY <1>1, <1>2, <3>1, <3>2
    <3>4. QED
      BY <2>1, <3>3 DEF QueuesOK, QueueOK
  <2>3. QED
    BY <2>1, <2>2 DEF Typed, QueuesOK
<1>5. CASE k # NoQueue
  <2>1. k \in Queues /\ cap' = [cap EXCEPT ![k] = Limit(config)]
    BY <1>5 DEF AcquireSlot
  <2>2. cap[k] \in Nat /\ config.max \in Nat
    BY <2>1 DEF Typed
  <2>3. Limit(config) \in Nat /\ Limit(config) >= cap[k]
    BY <2>2 DEF Limit
  <2>4. cap' \in [Queues -> Nat]
    BY <2>1, <2>3 DEF Typed
  <2>5. \A q \in Queues : /\ cap'[q] \in Nat /\ cap[q] \in Nat /\ cap'[q] >= cap[q]
                          /\ Cardinality(slots[q]) \in Nat
    BY <2>1, <2>3, FS_CardinalityType DEF Typed, QueuesOK, QueueOK
  <2>6. CASE /\ s # "live"
             /\ phase' = [phase EXCEPT ![c] = "done"]
             /\ result' = [result EXCEPT ![c] = s]
             /\ UNCHANGED <<slots, line>>
    <3>1. ~Admitted(c)' /\ phase'[c] = "done"
      BY <1>3, <2>6 DEF Phases
    <3>2. ASSUME NEW q \in Queues
          PROVE  QueueOK(q)'
      <4>1. /\ slots[q] = {d \in Calls : UsesQueue(d, q)' /\ Admitted(d)'}
            /\ Elements(line[q]) = {d \in Calls : UsesQueue(d, q)' /\ phase'[d] = "queued"}
        BY <1>1, <1>2, <1>3, <2>6, <3>1 DEF Phases
      <4>2. Cardinality(slots[q]) <= cap'[q]
        BY <2>5 DEF QueuesOK, QueueOK
      <4>3. QED
        BY <2>6, <4>1, <4>2 DEF QueuesOK, QueueOK
    <3>3. QED
      BY <2>4, <2>6, <3>2 DEF Typed, QueuesOK
  <2>7. CASE /\ HasRoom(config)
             /\ phase' = [phase EXCEPT ![c] = "admitted"]
             /\ slots' = [slots EXCEPT ![k] = @ \cup {c}]
             /\ UNCHANGED <<result, line>>
    <3>1. Admitted(c)' /\ phase'[c] = "admitted"
      BY <1>3, <2>7 DEF Phases
    <3>2. ASSUME NEW q \in Queues
          PROVE  QueueOK(q)'
      <4>1. slots'[q] = (IF q = k THEN slots[q] \cup {c} ELSE slots[q])
        BY <2>7 DEF Typed
      <4>2. UsesQueue(c, q)' <=> q = k
        BY <1>3, <2>7 DEF Phases
      <4>3. /\ slots'[q] = {d \in Calls : UsesQueue(d, q)' /\ Admitted(d)'}
            /\ Elements(line[q]) = {d \in Calls : UsesQueue(d, q)' /\ phase'[d] = "queued"}
        <5>1. \A d \in Calls \ {c} :
            /\ d \in slots[q] <=> UsesQueue(d, q)' /\ Admitted(d)'
            /\ d \in Elements(line[q]) <=> UsesQueue(d, q)' /\ phase'[d] = "queued"
          BY <1>3, <2>7 DEF Phases
        <5>2. QED
          BY <1>1, <1>2, <3>1, <4>1, <4>2, <5>1
      <4>4. IsFiniteSet(slots[q]) /\ Cardinality(slots[q]) <= cap[q] /\ c \notin slots[q]
        BY <1>2 DEF QueuesOK, QueueOK
      <4>5. /\ IsFiniteSet(slots[q] \cup {c})
            /\ Cardinality(slots[q] \cup {c}) = Cardinality(slots[q]) + 1
        BY <4>4, FS_AddElement
      <4>6. q = k => cap'[q] = Limit(config) /\ Cardinality(slots[q]) < Limit(config)
        BY <2>1, <2>7 DEF HasRoom, Typed
      <4>7. IsFiniteSet(slots'[q]) /\ Cardinality(slots'[q]) <= cap'[q]
        BY <2>3, <2>5, <4>1, <4>4, <4>5, <4>6
      <4>8. QED
        BY <2>7, <4>3, <4>7 DEF QueuesOK, QueueOK
    <3>3. slots' \in [Queues -> SUBSET Calls]
      BY <2>7 DEF Typed
    <3>4. QED
      BY <2>4, <2>7, <3>2, <3>3 DEF Typed, QueuesOK
  <2>8. CASE /\ phase' = [phase EXCEPT ![c] = "queued"]
             /\ line' = [line EXCEPT ![k] = Append(@, c)]
             /\ UNCHANGED <<result, slots>>
    <3>1. ~Admitted(c)' /\ phase'[c] = "queued"
      BY <1>3, <2>8 DEF Phases
    <3>2. line[k] \in Seq(Calls) /\ Injective(line[k]) /\ c \notin Elements(line[k])
      BY <1>2, <2>1 DEF Typed, QueuesOK, QueueOK
    <3>3. /\ Append(line[k], c) \in Seq(Calls)
          /\ Elements(Append(line[k], c)) = Elements(line[k]) \cup {c}
          /\ Injective(Append(line[k], c))
      BY <3>2, AppendProperties, AppendElements
    <3>4. line' \in [Queues -> Seq(Calls)]
      BY <2>8, <3>3 DEF Typed
    <3>5. ASSUME NEW q \in Queues
          PROVE  QueueOK(q)'
      <4>1. line'[q] = (IF q = k THEN Append(line[k], c) ELSE line[q])
        BY <2>8 DEF Typed
      <4>2. UsesQueue(c, q)' <=> q = k
        BY <1>3, <2>8 DEF Phases
      <4>3. Elements(line'[q]) = (IF q = k THEN Elements(line[q]) \cup {c} ELSE Elements(line[q]))
        BY <3>3, <4>1
      <4>4. /\ slots[q] = {d \in Calls : UsesQueue(d, q)' /\ Admitted(d)'}
            /\ Elements(line'[q]) = {d \in Calls : UsesQueue(d, q)' /\ phase'[d] = "queued"}
        <5>1. \A d \in Calls \ {c} :
            /\ d \in slots[q] <=> UsesQueue(d, q)' /\ Admitted(d)'
            /\ d \in Elements(line[q]) <=> UsesQueue(d, q)' /\ phase'[d] = "queued"
          BY <1>3, <2>8 DEF Phases
        <5>2. QED
          BY <1>1, <1>2, <3>1, <4>2, <4>3, <5>1
      <4>5. Cardinality(slots[q]) <= cap'[q]
        BY <2>5 DEF QueuesOK, QueueOK
      <4>6. Injective(line'[q])
        BY <3>3, <4>1 DEF QueuesOK, QueueOK
      <4>7. QED
        BY <2>8, <4>4, <4>5, <4>6 DEF QueuesOK, QueueOK
    <3>6. QED
      BY <2>4, <2>8, <3>4, <3>5 DEF Typed, QueuesOK
  <2>9. QED
    BY <1>5, <2>6, <2>7, <2>8 DEF AcquireSlot
<1>6. QED
  BY <1>4, <1>5

LEMMA InvokeStep ==
    ASSUME IInv, NEW c \in Calls, NEW t \in Tools, NEW p \in Calls \cup {NoCall},
           NEW mcp \in BOOLEAN, NEW asked,
           p # NoCall => handlers[p] # {}, Invoke(c, t, p, mcp, asked)
    PROVE  IInv'
<1> DEFINE stack == IF p = NoCall THEN <<>> ELSE Append(call[p].stack, call[p].tool)
           s == IF Inherits(p) THEN signal[p] ELSE "live"
           config == QueueConfig(t, asked, p # NoCall)
           record == [tool |-> t, parent |-> p, mcp |-> mcp, stack |-> stack,
                      heeds |-> {c} \cup IF Inherits(p) THEN call[p].heeds ELSE {},
                      queue |-> config.key]
<1>1. /\ phase[c] = "new"
      /\ call' = [call EXCEPT ![c] = record]
      /\ signal' = [signal EXCEPT ![c] = s]
      /\ UNCHANGED <<ahead, handlers, tries, context>>
  BY DEF Invoke
<1>2. \/ phase' = [phase EXCEPT ![c] = "done"] /\ result' = [result EXCEPT ![c] = "error"]
            /\ UNCHANGED <<cap, slots, line>>
      \/ AcquireSlot(c, config, s)
  BY DEF Invoke
<1>3. p # NoCall => p \in Made /\ p # c /\ call[p] \in CallRecord
  BY <1>1 DEF IInv, FamilyOK, Made, Begun
<1>4. config.key \in Queues \cup {NoQueue} /\ (config.key \in Queues => config.max \in Nat \ {0})
  BY Configured, CallsAssumption
<1>5. stack \in Seq(Tools)
  <2>1. CASE p = NoCall
    BY <2>1, EmptySeq
  <2>2. CASE p # NoCall
    <3>1. call[p].stack \in Seq(Tools) /\ call[p].tool \in Tools
      BY <1>3, <2>2 DEF CallRecord
    <3>2. QED
      BY <2>2, <3>1, AppendProperties
  <2>3. QED
    BY <2>1, <2>2
<1>6. s \in Signals
  BY <1>3 DEF Inherits, IInv, Typed, Signals
<1>7. record \in CallRecord /\ record.queue = config.key
  <2>1. {c} \cup (IF Inherits(p) THEN call[p].heeds ELSE {}) \in SUBSET Calls
    BY <1>3 DEF Inherits, CallRecord
  <2>2. QED
    BY <1>4, <1>5, <2>1 DEF CallRecord
<1>8. /\ call' \in [Calls -> CallRecord \cup {NoCall}]
      /\ signal' \in [Calls -> Signals]
      /\ ahead' \in [Calls -> SUBSET Nat] /\ handlers' \in [Calls -> SUBSET Nat]
      /\ tries' \in [Calls -> Nat]
  BY <1>1, <1>6, <1>7 DEF IInv, Typed
<1> HIDE DEF stack, s, config
<1>9. ASSUME NEW q \in Phases \ {"new"}, phase' = [phase EXCEPT ![c] = q]
      PROVE  FamilyOK'
  <2>1. /\ phase'[c] = q /\ call'[c] = record /\ signal'[c] = s
        /\ \A d \in Calls \ {c} : phase'[d] = phase[d] /\ call'[d] = call[d] /\ signal'[d] = signal[d]
    BY <1>1, <1>9 DEF IInv, Typed
  <2>2. Made' = Made \cup {c} /\ c \notin Made
    BY <1>1, <1>9, <2>1 DEF Made
  <2>3. \A d \in Calls : Begun(d)' # {} => d \in Made'
    BY <1>1, <2>2 DEF IInv, FamilyOK, Begun
  <2>4. ASSUME NEW d \in Made
        PROVE  /\ call'[d] \in CallRecord /\ Descends(d)'
               /\ call'[d].parent # NoCall /\ ~call'[call'[d].parent].mcp => AbortReaches(d)'
    <3>1. d \in Calls /\ d # c /\ call[d] \in CallRecord /\ Descends(d)
      BY <2>2 DEF IInv, FamilyOK, Made
    <3>2. call'[d] = call[d] /\ signal'[d] = signal[d]
      BY <2>1, <3>1
    <3>3. CASE call[d].parent = NoCall
      BY <3>1, <3>2, <3>3 DEF Descends
    <3>4. CASE call[d].parent # NoCall
      <4>1. call[d].parent \in Made
        BY <3>1, <3>4 DEF Descends
      <4>2. /\ call'[call[d].parent] = call[call[d].parent]
            /\ signal'[call[d].parent] = signal[call[d].parent]
        BY <2>1, <2>2, <4>1 DEF Made
      <4>3. QED
        BY <2>2, <3>1, <3>2, <3>4, <4>1, <4>2 DEF Descends, IInv, FamilyOK, AbortCascades, AbortReaches
    <3>5. QED
      BY <3>3, <3>4
  <2>5. /\ call'[c] \in CallRecord /\ Descends(c)'
        /\ call'[c].parent # NoCall /\ ~call'[call'[c].parent].mcp => AbortReaches(c)'
    <3>1. call'[c].parent = p
      BY <2>1
    <3>2. CASE p = NoCall
      BY <1>7, <2>1, <3>1, <3>2 DEF Descends
    <3>3. CASE p # NoCall
      <4>1. p \in Made' /\ call'[p] = call[p] /\ signal'[p] = signal[p]
        BY <1>3, <2>1, <2>2, <3>3 DEF Made
      <4>2. Inherits(p) => call[p].heeds \subseteq call'[c].heeds /\ signal'[c] = signal[p]
        BY <2>1 DEF s
      <4>3. QED
        BY <1>7, <2>1, <3>1, <3>3, <4>1, <4>2 DEF Descends, AbortReaches, Inherits
    <3>4. QED
      BY <3>2, <3>3
  <2>6. QED
    BY <2>2, <2>3, <2>4, <2>5 DEF FamilyOK, AbortCascades
<1>10. ASSUME NEW q \in Phases \ {"new"}, phase' = [phase EXCEPT ![c] = q],
              NEW r \in Failures \cup {"none", "success"}, result' = [result EXCEPT ![c] = r],
              r # "none" <=> q \in {"unwinding", "done"}, q \notin {"running", "backoff"}
       PROVE  AnswersOK' /\ phase' \in [Calls -> Phases]
              /\ result' \in [Calls -> Failures \cup {"none", "success"}]
  <2>1. /\ phase'[c] = q /\ result'[c] = r
        /\ \A d \in Calls \ {c} : /\ phase'[d] = phase[d] /\ call'[d] = call[d]
                                   /\ result'[d] = result[d] /\ signal'[d] = signal[d]
    BY <1>1, <1>10 DEF IInv, Typed
  <2>2. Begun(c)' = {} /\ tries'[c] = 0 /\ ahead'[c] = {}
    BY <1>1 DEF IInv, FamilyOK, AnswersOK, LoopOK, Made, Begun
  <2>3. AnswerOK(c)' /\ AttemptsOK(c)' /\ LoopOK(c)'
    BY <1>10, <2>1, <2>2 DEF AnswerOK, AttemptsOK, LoopOK
  <2>4. ASSUME NEW d \in Calls \ {c}
        PROVE  AnswerOK(d)' /\ AttemptsOK(d)' /\ LoopOK(d)'
    BY <1>1, <2>1 DEF IInv, AnswersOK, AnswerOK, AttemptsOK, LoopOK, Begun, Made
  <2>5. QED
    BY <1>10, <2>3, <2>4 DEF IInv, AnswersOK, Typed
<1>11. CASE /\ phase' = [phase EXCEPT ![c] = "done"] /\ result' = [result EXCEPT ![c] = "error"]
            /\ UNCHANGED <<cap, slots, line>>
  <2>1. QueuesOK'
    <3>1. \A d \in Calls \ {c} : phase'[d] = phase[d] /\ call'[d] = call[d]
      BY <1>1, <1>11 DEF IInv, Typed
    <3>2. phase'[c] = "done" /\ phase[c] = "new"
      BY <1>1, <1>11 DEF IInv, Typed
    <3>3. QED
      BY <1>11, <3>1, <3>2, QueuesUntouched DEF IInv, UsesQueue, Admitted, Made
  <2>2. FamilyOK'
    BY <1>9, <1>11 DEF Phases
  <2>3. AnswersOK' /\ phase' \in [Calls -> Phases]
        /\ result' \in [Calls -> Failures \cup {"none", "success"}]
    <3>1. /\ "done" \in Phases \ {"new"} /\ "error" \in Failures \cup {"none", "success"}
          /\ "error" # "none" <=> "done" \in {"unwinding", "done"}
          /\ "done" \notin {"running", "backoff"}
      BY DEF Phases, Failures
    <3>2. QED
      BY <1>10, <1>11, <3>1
  <2>4. QED
    BY <1>8, <1>11, <2>1, <2>2, <2>3 DEF IInv, Typed
<1>12. CASE AcquireSlot(c, config, s)
  <2>1. /\ QueuesOK'
        /\ \E q \in {"admitted", "queued", "done"} :
              /\ phase' = [phase EXCEPT ![c] = q]
              /\ result' = IF q = "done" THEN [result EXCEPT ![c] = s] ELSE result
              /\ q = "done" => s # "live"
        /\ cap' \in [Queues -> Nat]
        /\ slots' \in [Queues -> SUBSET Calls]
        /\ line' \in [Queues -> Seq(Calls)]
    BY <1>1, <1>4, <1>6, <1>7, <1>12, AcquireQueues DEF IInv
  <2>2. PICK q \in {"admitted", "queued", "done"} :
              /\ phase' = [phase EXCEPT ![c] = q]
              /\ result' = IF q = "done" THEN [result EXCEPT ![c] = s] ELSE result
              /\ q = "done" => s # "live"
    BY <2>1
  <2>3. result[c] = "none" /\ result \in [Calls -> Failures \cup {"none", "success"}]
    BY <1>1 DEF IInv, AnswersOK, AnswerOK, Typed
  <2>4. result' = [result EXCEPT ![c] = IF q = "done" THEN s ELSE "none"]
    BY <2>2, <2>3
  <2>5. q \in Phases \ {"new"} /\ (IF q = "done" THEN s ELSE "none") \in Failures \cup {"none", "success"}
    BY <1>6, <2>2 DEF Phases, Failures, Signals
  <2>6. (IF q = "done" THEN s ELSE "none") # "none" <=> q \in {"unwinding", "done"}
    BY <1>6 DEF Signals
  <2>7. AnswersOK' /\ phase' \in [Calls -> Phases]
        /\ result' \in [Calls -> Failures \cup {"none", "success"}]
    BY <1>10, <2>2, <2>4, <2>5, <2>6
  <2>8. FamilyOK'
    BY <1>9, <2>2, <2>5
  <2>9. QED
    BY <1>8, <2>1, <2>7, <2>8 DEF IInv, Typed
<1>13. QED
  BY <1>2, <1>11, <1>12

-----------------------------------------------------------------------------
\* A step of calls that hold their slots, or use none.
LEMMA MoveStep ==
    ASSUME IInv, UNCHANGED <<call, signal, cap, slots, line>>,
           phase' \in [Calls -> Phases], result' \in [Calls -> Failures \cup {"none", "success"}],
           ahead' \in [Calls -> SUBSET Nat], handlers' \in [Calls -> SUBSET Nat],
           tries' \in [Calls -> Nat],
           \A c \in Calls : /\ phase'[c] # phase[c] => Admitted(c) /\ Admitted(c)'
                            /\ Begun(c)' # {} => c \in Made,
           AnswersOK'
    PROVE  IInv'
<1>1. ASSUME NEW c \in Calls
      PROVE  /\ Admitted(c)' <=> Admitted(c)
             /\ phase'[c] = "queued" <=> phase[c] = "queued"
             /\ c \in Made' <=> c \in Made
  BY DEF Admitted, Made
<1>2. QueuesOK'
  BY <1>1, QueuesUntouched DEF IInv, UsesQueue
<1>3. Made' = Made
  BY <1>1 DEF Made
<1>4. FamilyOK'
  BY <1>3, FamilyUntouched DEF IInv
<1>5. QED
  BY <1>2, <1>4 DEF IInv, Typed

\* A step of one call between acquire and finally: its phase, result and tries, its
\* attempts ahead and its handlers become these.
Becomes(c, p, r, n, A, H) ==
    /\ phase' = [phase EXCEPT ![c] = p] /\ result' = [result EXCEPT ![c] = r]
    /\ tries' = [tries EXCEPT ![c] = n]
    /\ ahead' = [ahead EXCEPT ![c] = A] /\ handlers' = [handlers EXCEPT ![c] = H]
    /\ UNCHANGED <<call, signal, cap, slots, line>>

\* What that has to be for the invariant to hold afterwards.
Allowed(c, p, r, n, A, H) ==
    /\ p \in {"admitted", "context", "running", "backoff", "unwinding"}
    /\ r \in Failures \cup {"none", "success"} /\ (r # "none" <=> p = "unwinding")
    /\ n \in Nat /\ (p \in {"admitted", "context"} => n = 0)
    /\ A \in SUBSET Nat /\ H \in SUBSET Nat
    /\ call[c].tool \notin Loose /\ signal[c] = "live" =>
           /\ p = "running" => A \cup H \subseteq {n}
           /\ p # "running" => A \cup H = {}
    /\ call[c].tool \notin Wrapped => A = {}
    /\ p \in {"running", "backoff"} => signal[c] = "live"

LEMMA OwnStep ==
    ASSUME IInv, NEW c \in Calls, Admitted(c), NEW p, NEW r, NEW n, NEW A, NEW H,
           Becomes(c, p, r, n, A, H), Allowed(c, p, r, n, A, H)
    PROVE  IInv'
<1>1. /\ phase'[c] = p /\ result'[c] = r /\ tries'[c] = n /\ Begun(c)' = A \cup H /\ ahead'[c] = A
      /\ \A d \in Calls \ {c} : /\ phase'[d] = phase[d] /\ result'[d] = result[d]
                                 /\ tries'[d] = tries[d] /\ Begun(d)' = Begun(d)
                                 /\ ahead'[d] = ahead[d]
      /\ UNCHANGED <<call, signal, cap, slots, line>>
  BY DEF Becomes, IInv, Typed, Begun
<1>2. c \in Made /\ Admitted(c)'
  BY <1>1 DEF Made, Admitted, Allowed
<1>3. AnswerOK(c)' /\ AttemptsOK(c)' /\ LoopOK(c)'
  BY <1>1 DEF AnswerOK, AttemptsOK, LoopOK, Allowed
<1>4. ASSUME NEW d \in Calls \ {c}
      PROVE  AnswerOK(d)' /\ AttemptsOK(d)' /\ LoopOK(d)'
  BY <1>1 DEF IInv, AnswersOK, AnswerOK, AttemptsOK, LoopOK, Made
<1>5. AnswersOK'
  BY <1>3, <1>4 DEF AnswersOK
<1>6. \A d \in Calls : /\ phase'[d] # phase[d] => Admitted(d) /\ Admitted(d)'
                       /\ Begun(d)' # {} => d \in Made
  BY <1>1, <1>2 DEF IInv, FamilyOK
<1>7. /\ phase' \in [Calls -> Phases] /\ result' \in [Calls -> Failures \cup {"none", "success"}]
      /\ ahead' \in [Calls -> SUBSET Nat] /\ handlers' \in [Calls -> SUBSET Nat]
      /\ tries' \in [Calls -> Nat]
  BY DEF Becomes, Allowed, IInv, Typed, Phases
<1>8. QED
  BY <1>1, <1>5, <1>6, <1>7, MoveStep

\* What the invariant says of one call between acquire and finally.
LEMMA OwnState ==
    ASSUME IInv, NEW c \in Calls, Admitted(c)
    PROVE  /\ c \in Made /\ AnswerOK(c) /\ AttemptsOK(c) /\ LoopOK(c)
           /\ phase = [phase EXCEPT ![c] = phase[c]] /\ phase[c] \in Phases \ {"new", "queued", "done"}
           /\ result = [result EXCEPT ![c] = result[c]]
           /\ result[c] \in Failures \cup {"none", "success"}
           /\ tries = [tries EXCEPT ![c] = tries[c]] /\ tries[c] \in Nat
           /\ ahead = [ahead EXCEPT ![c] = ahead[c]] /\ ahead[c] \in SUBSET Nat
           /\ handlers = [handlers EXCEPT ![c] = handlers[c]] /\ handlers[c] \in SUBSET Nat
           /\ signal[c] \in Signals
BY DEF IInv, Typed, AnswersOK, Made, Admitted, Phases

LEMMA StartStep ==
    ASSUME IInv, NEW c \in Calls, phase[c] \in {"admitted", "backoff"}, BeginAttempt(c),
           UNCHANGED <<call, signal, tries, cap, slots, line>>
    PROVE  IInv'
<1>1. Admitted(c)
  BY DEF Admitted
<1> DEFINE n == tries[c]
           A == IF call[c].tool \in Wrapped THEN ahead[c] \cup {n} ELSE ahead[c]
           H == IF call[c].tool \in Wrapped THEN handlers[c] ELSE handlers[c] \cup {n}
<1>2. /\ ahead' = [ahead EXCEPT ![c] = A] /\ handlers' = [handlers EXCEPT ![c] = H]
      /\ A \in SUBSET Nat /\ H \in SUBSET Nat
      /\ tries' = [tries EXCEPT ![c] = n] /\ n \in Nat
  BY <1>1, OwnState DEF BeginAttempt
<1>3. /\ A \cup H = Begun(c) \cup {n}
      /\ call[c].tool \notin Wrapped => A = {}
      /\ call[c].tool \notin Loose /\ signal[c] = "live" => A \cup H \subseteq {n}
      /\ result[c] = "none"
  BY <1>1, OwnState DEF AttemptsOK, AnswerOK, Begun
<1> HIDE DEF A, H, n
<1>4. CASE signal[c] = "live" /\ phase' = [phase EXCEPT ![c] = "running"] /\ UNCHANGED result
  <2>1. Becomes(c, "running", "none", n, A, H)
    BY <1>1, <1>2, <1>3, <1>4, OwnState DEF Becomes
  <2>2. Allowed(c, "running", "none", n, A, H)
    BY <1>2, <1>3, <1>4 DEF Allowed
  <2>3. QED
    BY <1>1, <2>1, <2>2, OwnStep
<1>5. CASE signal[c] # "live" /\ phase' = [phase EXCEPT ![c] = "unwinding"]
           /\ result' = [result EXCEPT ![c] = signal[c]]
  <2>1. Becomes(c, "unwinding", signal[c], n, A, H)
    BY <1>2, <1>5 DEF Becomes
  <2>2. signal[c] \in Failures \cup {"none", "success"} /\ signal[c] # "none"
    BY <1>1, <1>5, OwnState DEF Signals, Failures
  <2>3. Allowed(c, "unwinding", signal[c], n, A, H)
    BY <1>2, <1>3, <1>5, <2>2 DEF Allowed
  <2>4. QED
    BY <1>1, <2>1, <2>3, OwnStep
<1>6. QED
  BY <1>4, <1>5 DEF BeginAttempt

LEMMA ProceedStep ==
    ASSUME IInv, NEW c \in Calls, Proceed(c)
    PROVE  IInv'
<1>1. CASE BeginAttempt(c)
  BY <1>1, StartStep DEF Proceed
<1>2. CASE phase' = [phase EXCEPT ![c] = "context"] /\ UNCHANGED <<result, ahead, handlers>>
  <2>1. Admitted(c) /\ phase[c] = "admitted" /\ UNCHANGED <<call, signal, tries, cap, slots, line>>
    BY DEF Proceed, Admitted
  <2>2. /\ result[c] = "none" /\ tries[c] = 0
        /\ call[c].tool \notin Loose /\ signal[c] = "live" => ahead[c] \cup handlers[c] = {}
        /\ call[c].tool \notin Wrapped => ahead[c] = {}
    BY <2>1, OwnState DEF AnswerOK, AttemptsOK, LoopOK, Begun
  <2>3. Becomes(c, "context", "none", 0, ahead[c], handlers[c])
    BY <1>2, <2>1, <2>2, OwnState DEF Becomes
  <2>4. Allowed(c, "context", "none", 0, ahead[c], handlers[c])
    BY <2>1, <2>2, OwnState DEF Allowed
  <2>5. QED
    BY <2>1, <2>3, <2>4, OwnStep
<1>3. QED
  BY <1>1, <1>2 DEF Proceed

\* The status of a failure is one of three.
LEMMA StatusIsFailure ==
    ASSUME Typed, NEW c \in Calls, NEW message
    PROVE  Status(c, message) \in Failures /\ Status(c, message) # "none"
BY DEF Typed, Signals, Status, Failures

LEMMA ContextStep ==
    ASSUME IInv, ContextReady \/ ContextFails
    PROVE  IInv'
<1> USE DEF IInv, Typed, FamilyOK, AnswersOK, AnswerOK, AttemptsOK, LoopOK, Begun, Admitted, Made, Phases
<1>1. CASE ContextReady
  BY <1>1, MoveStep DEF ContextReady
<1>2. CASE ContextFails
  <2>1. \A c \in Calls : Status(c, "error") \in Failures /\ Status(c, "error") # "none"
    BY StatusIsFailure
  <2>2. QED
    BY <1>2, <2>1, MoveStep DEF ContextFails
<1>3. QED
  BY <1>1, <1>2

-----------------------------------------------------------------------------
\* The attempt in the race has its outcome, and leaves nothing behind but what
\* loose middlewares do.
LEMMA OutcomeStep ==
    ASSUME IInv, NEW c \in Calls, RaceOpen(c), Resolve(c) \/ Reject(c),
           UNCHANGED <<call, signal, cap, slots, line>>,
           NEW A \in SUBSET ahead[c], ahead' = [ahead EXCEPT ![c] = A],
           NEW H \in SUBSET handlers[c], handlers' = [handlers EXCEPT ![c] = H],
           call[c].tool \notin Loose => A = {} /\ H = {}
    PROVE  IInv'
<1>1. Admitted(c) /\ phase[c] = "running"
  BY DEF RaceOpen, Admitted
<1>2. /\ A \in SUBSET Nat /\ H \in SUBSET Nat
      /\ call[c].tool \notin Wrapped => A = {}
      /\ signal[c] = "live" /\ result[c] = "none"
      /\ A \in SUBSET Nat /\ H \in SUBSET Nat
  BY <1>1, OwnState DEF AttemptsOK, AnswerOK, LoopOK
<1>3. ASSUME NEW r \in Failures \cup {"success"}, phase' = [phase EXCEPT ![c] = "unwinding"],
             result' = [result EXCEPT ![c] = r], UNCHANGED tries
      PROVE  IInv'
  <2>1. Becomes(c, "unwinding", r, tries[c], A, H)
    BY <1>1, <1>3, OwnState DEF Becomes
  <2>2. Allowed(c, "unwinding", r, tries[c], A, H)
    BY <1>1, <1>2, OwnState DEF Allowed, Failures
  <2>3. QED
    BY <1>1, <2>1, <2>2, OwnStep
<1>4. CASE /\ tries' = [tries EXCEPT ![c] = @ + 1]
           /\ phase' = [phase EXCEPT ![c] = "backoff"] /\ UNCHANGED result
  <2>1. Becomes(c, "backoff", "none", tries[c] + 1, A, H)
    BY <1>1, <1>2, <1>4, OwnState DEF Becomes
  <2>2. Allowed(c, "backoff", "none", tries[c] + 1, A, H)
    BY <1>1, <1>2, OwnState DEF Allowed
  <2>3. QED
    BY <1>1, <2>1, <2>2, OwnStep
<1>5. \A r : Status(c, r) \in Failures \cup {"success"}
  BY StatusIsFailure DEF IInv
<1>6. QED
  BY <1>3, <1>4, <1>5 DEF Resolve, Reject

LEMMA HandlerStep ==
    ASSUME IInv, NEW c \in Calls, NEW n \in handlers[c], HandlerReturns(c, n) \/ HandlerThrows(c, n)
    PROVE  IInv'
<1> DEFINE H == handlers[c] \ {n}
<1>1. /\ handlers' = [handlers EXCEPT ![c] = H]
      /\ UNCHANGED <<call, signal, ahead, cap, slots, line>>
  BY DEF HandlerReturns, HandlerThrows, HandlerEnds
<1>2. c \in Made
  BY DEF IInv, FamilyOK, Begun
<1>3. CASE IsOutcome(c) /\ (Resolve(c) \/ Reject(c))
  <2>1. RaceOpen(c) /\ Admitted(c) /\ call[c].tool \notin Wrapped /\ phase[c] = "running"
    BY <1>3 DEF IsOutcome, RaceOpen, Admitted
  <2>2. /\ ahead[c] = {} /\ signal[c] = "live"
        /\ call[c].tool \notin Loose => handlers[c] \subseteq {tries[c]}
    BY <2>1, OwnState DEF AttemptsOK, LoopOK, Begun
  <2>3. call[c].tool \notin Loose => ahead[c] = {} /\ H = {}
    BY <2>2
  <2>4. ahead' = [ahead EXCEPT ![c] = ahead[c]]
    BY <1>1, <2>1, OwnState
  <2>5. QED
    BY <1>1, <1>3, <2>1, <2>3, <2>4, OutcomeStep
<1>4. CASE UNCHANGED <<phase, result, tries>> /\ ~IsOutcome(c)
  <2>1. ASSUME NEW d \in Calls
        PROVE  Begun(d)' \subseteq Begun(d)
    BY <1>1 DEF Begun, IInv, Typed
  <2>2. AnswersOK'
    <3>1. ASSUME NEW d \in Calls
          PROVE  AnswerOK(d)' /\ AttemptsOK(d)' /\ LoopOK(d)'
      BY <1>1, <1>4, <2>1 DEF IInv, AnswersOK, AnswerOK, AttemptsOK, LoopOK, Made
    <3>2. QED
      BY <3>1 DEF AnswersOK
  <2>3. handlers' \in [Calls -> SUBSET Nat]
    BY <1>1 DEF IInv, Typed
  <2>4. \A d \in Calls : Begun(d)' # {} => d \in Made
    BY <2>1 DEF IInv, FamilyOK
  <2>5. QED
    BY <1>1, <1>4, <2>2, <2>3, <2>4, MoveStep DEF IInv, Typed
<1>5. QED
  BY <1>3, <1>4 DEF HandlerReturns, HandlerThrows

\* next() turns an attempt that may start a handler into one that has.
LEMMA NextStep ==
    ASSUME IInv, NEW c \in Calls, NEW n \in ahead[c], CallNext(c, n)
    PROVE  IInv'
<1>1. /\ ahead' = [ahead EXCEPT ![c] = @ \ {n}] /\ handlers' = [handlers EXCEPT ![c] = @ \cup {n}]
      /\ UNCHANGED <<call, phase, result, signal, tries, cap, slots, line>>
  BY DEF CallNext
<1>2. ASSUME NEW d \in Calls
      PROVE  Begun(d)' = Begun(d) /\ ahead'[d] \subseteq ahead[d]
  BY <1>1 DEF Begun, IInv, Typed
<1>3. AnswersOK'
  <2>1. ASSUME NEW d \in Calls
        PROVE  AnswerOK(d)' /\ AttemptsOK(d)' /\ LoopOK(d)'
    BY <1>1, <1>2 DEF IInv, AnswersOK, AnswerOK, AttemptsOK, LoopOK, Made
  <2>2. QED
    BY <2>1 DEF AnswersOK
<1>4. ahead' \in [Calls -> SUBSET Nat] /\ handlers' \in [Calls -> SUBSET Nat]
  BY <1>1 DEF IInv, Typed
<1>5. \A d \in Calls : Begun(d)' # {} => d \in Made
  BY <1>2 DEF IInv, FamilyOK
<1>6. QED
  BY <1>1, <1>3, <1>4, <1>5, MoveStep DEF IInv, Typed

LEMMA MiddlewareStep ==
    ASSUME IInv, NEW c \in Calls, MiddlewareReturns(c) \/ MiddlewareThrows(c)
    PROVE  IInv'
<1>1. /\ RaceOpen(c) /\ (Resolve(c) \/ Reject(c)) /\ MiddlewaresEnd(c)
      /\ UNCHANGED <<call, signal, handlers, cap, slots, line>>
  BY DEF MiddlewareReturns, MiddlewareThrows, MiddlewaresEnd
<1>2. Admitted(c) /\ phase[c] = "running"
  BY <1>1 DEF RaceOpen, Admitted
<1>3. handlers' = [handlers EXCEPT ![c] = handlers[c]]
  BY <1>1, <1>2, OwnState
<1>4. CASE call[c].tool \in Loose /\ UNCHANGED ahead
  <2>1. ahead' = [ahead EXCEPT ![c] = ahead[c]]
    BY <1>2, <1>4, OwnState
  <2>2. QED
    BY <1>1, <1>3, <1>4, <2>1, OutcomeStep
<1>5. CASE /\ call[c].tool \notin Loose /\ handlers[c] = {}
           /\ ahead' = [ahead EXCEPT ![c] = @ \ {tries[c]}]
  <2>1. ahead[c] \subseteq {tries[c]}
    BY <1>2, <1>5, OwnState DEF AttemptsOK, LoopOK, Begun
  <2>2. ahead' = [ahead EXCEPT ![c] = {}] /\ {} \in SUBSET ahead[c]
    BY <1>5, <2>1
  <2>3. handlers' = [handlers EXCEPT ![c] = {}] /\ {} \in SUBSET handlers[c]
    BY <1>3, <1>5
  <2>4. QED
    BY <1>1, <2>2, <2>3, OutcomeStep
<1>6. QED
  BY <1>1, <1>4, <1>5 DEF MiddlewaresEnd

-----------------------------------------------------------------------------
\* The slot of a call that ends goes to the head of the line, if there is one.
LEMMA UnwindStep ==
    ASSUME IInv, NEW c \in Calls, Unwind(c)
    PROVE  IInv'
<1> DEFINE k == call[c].queue
<1>1. /\ phase[c] = "unwinding"
      /\ UNCHANGED <<call, result, signal, ahead, handlers, tries, cap, context>>
  BY DEF Unwind
<1>2. c \in Made /\ k \in Queues \cup {NoQueue}
  BY <1>1 DEF IInv, FamilyOK, Made, CallRecord
<1>3. ASSUME phase' \in [Calls -> Phases],
             slots' \in [Queues -> SUBSET Calls], line' \in [Queues -> Seq(Calls)],
             phase'[c] = "done",
             \A d \in Calls \ {c} : \/ phase'[d] = phase[d]
                                    \/ phase[d] = "queued" /\ phase'[d] = "admitted",
             QueuesOK'
      PROVE  IInv'
  <2>1. Made' = Made
    BY <1>1, <1>3 DEF Made
  <2>2. FamilyOK'
    BY <1>1, <2>1, FamilyUntouched DEF IInv, FamilyOK, Begun
  <2>3. AnswersOK'
    <3>1. ASSUME NEW d \in Calls
          PROVE  AnswerOK(d)' /\ AttemptsOK(d)' /\ LoopOK(d)'
      BY <1>1, <1>3 DEF IInv, AnswersOK, AnswerOK, AttemptsOK, LoopOK, Begun, Made
    <3>2. QED
      BY <3>1 DEF AnswersOK
  <2>4. QED
    BY <1>1, <1>3, <2>2, <2>3 DEF IInv, Typed
<1>4. CASE k = NoQueue /\ phase' = [phase EXCEPT ![c] = "done"] /\ UNCHANGED <<slots, line>>
  <2>1. \A q \in Queues : ~UsesQueue(c, q) /\ ~UsesQueue(c, q)'
    BY <1>1, <1>4, CallsAssumption DEF UsesQueue
  <2>2. phase'[c] = "done" /\ \A d \in Calls \ {c} : phase'[d] = phase[d]
    BY <1>4 DEF IInv, Typed
  <2>3. QueuesOK'
    BY <1>1, <1>4, <2>1, <2>2, QueuesUntouched DEF IInv, UsesQueue, Admitted, Made
  <2>4. QED
    BY <1>3, <1>4, <2>2, <2>3 DEF IInv, Typed, Phases
<1>5. ASSUME k \in Queues
      PROVE  /\ c \in slots[k] /\ IsFiniteSet(slots[k] \ {c})
             /\ Cardinality(slots[k]) \in Nat
             /\ Cardinality(slots[k] \ {c}) = Cardinality(slots[k]) - 1
             /\ Cardinality(slots[k]) <= cap[k] /\ cap[k] \in Nat
  <2>1. c \in slots[k] /\ IsFiniteSet(slots[k]) /\ Cardinality(slots[k]) <= cap[k]
    BY <1>1, <1>2, <1>5 DEF IInv, QueuesOK, QueueOK, UsesQueue, Admitted
  <2>2. Cardinality(slots[k]) \in Nat /\ cap[k] \in Nat
    BY <1>5, <2>1, FS_CardinalityType DEF IInv, Typed
  <2>3. QED
    BY <2>1, <2>2, FS_RemoveElement
<1>6. CASE /\ k # NoQueue /\ phase' = [phase EXCEPT ![c] = "done"]
           /\ slots' = [slots EXCEPT ![k] = @ \ {c}] /\ UNCHANGED line
  <2>1. k \in Queues
    BY <1>2, <1>6
  <2>2. phase'[c] = "done" /\ \A d \in Calls \ {c} : phase'[d] = phase[d]
    BY <1>6 DEF IInv, Typed
  <2>3. ASSUME NEW q \in Queues
        PROVE  QueueOK(q)'
    <3>1. slots'[q] = (IF q = k THEN slots[q] \ {c} ELSE slots[q])
      BY <1>6 DEF IInv, Typed
    <3>2. UsesQueue(c, q) <=> q = k
      BY <1>2 DEF UsesQueue
    <3>3. ~Admitted(c)' /\ phase'[c] # "queued" /\ phase[c] # "queued"
      BY <1>1, <2>2 DEF Admitted
    <3>4. \A d \in Calls \ {c} : /\ UsesQueue(d, q)' <=> UsesQueue(d, q)
                                 /\ Admitted(d)' <=> Admitted(d)
      BY <1>1, <2>2 DEF UsesQueue, Made, Admitted
    <3>5. /\ slots'[q] = {d \in Calls : UsesQueue(d, q)' /\ Admitted(d)'}
          /\ Elements(line[q]) = {d \in Calls : UsesQueue(d, q)' /\ phase'[d] = "queued"}
      BY <2>2, <3>1, <3>2, <3>3, <3>4 DEF IInv, QueuesOK, QueueOK
    <3>6. IsFiniteSet(slots'[q]) /\ Cardinality(slots'[q]) <= cap[q]
      <4>1. CASE q # k
        BY <3>1, <4>1 DEF IInv, QueuesOK, QueueOK
      <4>2. CASE q = k
        BY <1>5, <3>1, <4>2
      <4>3. QED
        BY <4>1, <4>2
    <3>7. QED
      BY <1>1, <1>6, <3>5, <3>6 DEF IInv, QueuesOK, QueueOK
  <2>4. QED
    BY <1>3, <1>6, <2>2, <2>3 DEF IInv, Typed, Phases, QueuesOK
<1>7. CASE /\ k # NoQueue /\ line[k] # <<>>
           /\ phase' = [phase EXCEPT ![c] = "done", ![Head(line[k])] = "admitted"]
           /\ slots' = [slots EXCEPT ![k] = (@ \ {c}) \cup {Head(line[k])}]
           /\ line' = [line EXCEPT ![k] = Tail(@)]
  <2> PICK h : h = Head(line[k])
    OBVIOUS
  <2>1. k \in Queues
    BY <1>2, <1>7
  <2>2. line[k] \in Seq(Calls) /\ Injective(line[k])
    BY <2>1 DEF IInv, Typed, QueuesOK, QueueOK
  <2>3. /\ h \in Elements(line[k]) /\ Tail(line[k]) \in Seq(Calls)
        /\ Elements(Tail(line[k])) = Elements(line[k]) \ {h} /\ Injective(Tail(line[k]))
    BY <1>7, <2>2, TailElements
  <2>4. h \in Calls /\ UsesQueue(h, k) /\ phase[h] = "queued" /\ h # c
    BY <1>1, <2>1, <2>3 DEF IInv, QueuesOK, QueueOK
  <2>5. phase' = [phase EXCEPT ![c] = "done", ![h] = "admitted"]
    BY <1>7
  <2>6. /\ phase'[c] = "done" /\ phase'[h] = "admitted"
        /\ \A d \in Calls \ {c, h} : phase'[d] = phase[d]
    BY <2>4, <2>5 DEF IInv, Typed
  <2>7. ASSUME NEW q \in Queues
        PROVE  QueueOK(q)'
    <3>1. slots'[q] = (IF q = k THEN (slots[q] \ {c}) \cup {h} ELSE slots[q])
      BY <1>7 DEF IInv, Typed
    <3>2. line'[q] = (IF q = k THEN Tail(line[q]) ELSE line[q])
      BY <1>7 DEF IInv, Typed
    <3>3. (UsesQueue(c, q) <=> q = k) /\ (UsesQueue(h, q) <=> q = k)
      BY <1>2, <2>4 DEF UsesQueue
    <3>4. /\ ~Admitted(c)' /\ phase'[c] # "queued" /\ phase[c] # "queued"
          /\ Admitted(h)' /\ phase'[h] # "queued" /\ ~Admitted(h)
      BY <1>1, <2>4, <2>6 DEF Admitted
    <3>5. /\ \A d \in Calls : UsesQueue(d, q)' <=> UsesQueue(d, q)
          /\ \A d \in Calls \ {c, h} : Admitted(d)' <=> Admitted(d)
      BY <1>1, <2>4, <2>6 DEF UsesQueue, Made, Admitted
    <3>6. slots'[q] = {d \in Calls : UsesQueue(d, q)' /\ Admitted(d)'}
      BY <2>4, <2>6, <3>1, <3>3, <3>4, <3>5 DEF IInv, QueuesOK, QueueOK
    <3>7. Elements(line'[q]) = {d \in Calls : UsesQueue(d, q)' /\ phase'[d] = "queued"}
      BY <2>3, <2>4, <2>6, <3>2, <3>3, <3>4, <3>5 DEF IInv, QueuesOK, QueueOK
    <3>8. IsFiniteSet(slots'[q]) /\ Cardinality(slots'[q]) <= cap[q]
      <4>1. CASE q # k
        BY <3>1, <4>1 DEF IInv, QueuesOK, QueueOK
      <4>2. CASE q = k
        <5>1. h \notin slots[k]
          BY <2>1, <3>4 DEF IInv, QueuesOK, QueueOK
        <5>2. /\ IsFiniteSet((slots[k] \ {c}) \cup {h})
              /\ Cardinality((slots[k] \ {c}) \cup {h}) = Cardinality(slots[k] \ {c}) + 1
          BY <1>5, <2>1, <5>1, FS_AddElement
        <5>3. QED
          BY <1>5, <2>1, <3>1, <4>2, <5>2
      <4>3. QED
        BY <4>1, <4>2
    <3>9. Injective(line'[q])
      BY <2>3, <3>2 DEF IInv, QueuesOK, QueueOK
    <3>10. QED
      BY <1>1, <3>6, <3>7, <3>8, <3>9 DEF QueueOK
  <2>8. /\ phase' \in [Calls -> Phases]
        /\ slots' \in [Queues -> SUBSET Calls] /\ line' \in [Queues -> Seq(Calls)]
    <3>1. phase' \in [Calls -> Phases]
      BY <2>4, <2>5 DEF IInv, Typed, Phases
    <3>2. (slots[k] \ {c}) \cup {h} \in SUBSET Calls
      BY <2>1, <2>4 DEF IInv, Typed
    <3>3. slots' \in [Queues -> SUBSET Calls]
      BY <1>7, <3>2 DEF IInv, Typed
    <3>4. line' \in [Queues -> Seq(Calls)]
      BY <1>7, <2>3 DEF IInv, Typed
    <3>5. QED
      BY <3>1, <3>3, <3>4
  <2>9. QED
    BY <1>3, <2>4, <2>6, <2>7, <2>8 DEF QueuesOK
<1>8. QED
  BY <1>4, <1>6, <1>7 DEF Unwind

\* An abort hits the live calls that heed it, wherever they are.
LEMMA AbortStep ==
    ASSUME IInv, NEW c \in Calls, NEW reason \in {"timeout", "cancelled"}, AbortSignals(c, reason)
    PROVE  IInv'
<1> PICK hit : hit = {d \in Made : c \in call[d].heeds /\ signal[d] = "live"}
  OBVIOUS
<1>1. /\ signal' = [d \in Calls |-> IF d \in hit THEN reason ELSE signal[d]]
      /\ line' = [q \in Queues |-> Only(line[q], Calls \ hit)]
      /\ phase' = [d \in Calls |->
             IF d \notin hit THEN phase[d]
             ELSE CASE phase[d] = "queued" -> "done"
                    [] phase[d] \in {"running", "backoff"} -> "unwinding"
                    [] OTHER -> phase[d]]
      /\ result' = [d \in Calls |->
             IF d \in hit /\ phase[d] \in {"queued", "running", "backoff"}
             THEN reason ELSE result[d]]
      /\ UNCHANGED <<call, ahead, handlers, tries, cap, slots, context>>
  BY DEF AbortSignals, LeaveLines, Listens
<1>2. ASSUME NEW d \in Calls
      PROVE  /\ phase'[d] \in Phases
             /\ Admitted(d)' <=> Admitted(d)
             /\ phase'[d] = "queued" <=> phase[d] = "queued" /\ d \notin hit
             /\ d \in Made' <=> d \in Made
             /\ phase'[d] \in {"unwinding", "done"} <=>
                    phase[d] \in {"unwinding", "done"} \/ (d \in hit /\ phase[d] \in {"queued", "running", "backoff"})
             /\ d \notin hit => phase'[d] = phase[d]
  <2>1. phase[d] \in Phases
    BY DEF IInv, Typed
  <2>2. CASE d \notin hit
    BY <1>1, <2>1, <2>2 DEF Admitted, Made
  <2>3. CASE d \in hit /\ phase[d] = "queued"
    BY <1>1, <2>3 DEF Admitted, Made, Phases
  <2>4. CASE d \in hit /\ phase[d] \in {"running", "backoff"}
    BY <1>1, <2>4 DEF Admitted, Made, Phases
  <2>5. CASE d \in hit /\ phase[d] \in {"new", "admitted", "context", "unwinding", "done"}
    BY <1>1, <2>5 DEF Admitted, Made, Phases
  <2>6. QED
    BY <2>1, <2>2, <2>3, <2>4, <2>5 DEF Phases
<1>3. ASSUME NEW q \in Queues
      PROVE  line'[q] \in Seq(Calls) /\ QueueOK(q)'
  <2>1. line[q] \in Seq(Calls) /\ Injective(line[q]) /\ line'[q] = Only(line[q], Calls \ hit)
    BY <1>1 DEF IInv, Typed, QueuesOK, QueueOK
  <2>2. /\ line'[q] \in Seq(Calls) /\ Injective(line'[q])
        /\ Elements(line'[q]) = Elements(line[q]) \cap (Calls \ hit)
    BY <2>1, OnlyElements
  <2>3. \A d \in Calls : UsesQueue(d, q)' <=> UsesQueue(d, q)
    BY <1>1, <1>2 DEF UsesQueue
  <2>4. /\ slots[q] = {d \in Calls : UsesQueue(d, q)' /\ Admitted(d)'}
        /\ Elements(line'[q]) = {d \in Calls : UsesQueue(d, q)' /\ phase'[d] = "queued"}
    BY <1>2, <2>2, <2>3 DEF IInv, QueuesOK, QueueOK
  <2>5. QED
    BY <1>1, <2>2, <2>4 DEF IInv, QueuesOK, QueueOK
<1>4. Typed'
  <2>1. signal' \in [Calls -> Signals]
    BY <1>1 DEF IInv, Typed, Signals
  <2>2. result' \in [Calls -> Failures \cup {"none", "success"}]
    BY <1>1 DEF IInv, Typed, Failures
  <2>3. phase' \in [Calls -> Phases]
    BY <1>1, <1>2
  <2>4. line' \in [Queues -> Seq(Calls)]
    BY <1>1, <1>3
  <2>5. QED
    BY <1>1, <2>1, <2>2, <2>3, <2>4 DEF IInv, Typed
<1>5. AnswersOK'
  <2> SUFFICES ASSUME NEW d \in Calls
               PROVE  AnswerOK(d)' /\ AttemptsOK(d)' /\ LoopOK(d)'
    BY DEF AnswersOK
  <2>1. AnswerOK(d)'
    BY <1>1, <1>2 DEF IInv, AnswersOK, AnswerOK
  <2>2. Begun(d)' = Begun(d) /\ tries'[d] = tries[d] /\ call'[d] = call[d] /\ ahead'[d] = ahead[d]
    BY <1>1 DEF Begun
  <2>3. AttemptsOK(d) /\ LoopOK(d) /\ (d \in Made' <=> d \in Made)
    BY <1>2 DEF IInv, AnswersOK
  <2>4. CASE d \in hit
    <3>1. signal'[d] # "live" /\ d \in Made /\ phase'[d] \notin {"running", "backoff"}
      BY <1>1, <2>4
    <3>2. phase'[d] \in {"new", "queued", "admitted", "context"} => phase[d] = phase'[d]
      BY <1>1, <2>4
    <3>3. QED
      BY <2>1, <2>2, <2>3, <3>1, <3>2 DEF AttemptsOK, LoopOK
  <2>5. CASE d \notin hit
    <3>1. phase'[d] = phase[d] /\ signal'[d] = signal[d]
      BY <1>1, <2>5
    <3>2. QED
      BY <2>1, <2>2, <2>3, <3>1 DEF AttemptsOK, LoopOK
  <2>6. QED
    BY <2>4, <2>5
<1>6. FamilyOK'
  <2>1. Made' = Made
    BY <1>2 DEF Made
  <2>2. ASSUME NEW d \in Made, call[d].parent # NoCall, ~call[call[d].parent].mcp,
               signal'[call[d].parent] # "live"
        PROVE  signal'[d] # "live"
    <3>1. d \in Calls /\ call[d].parent \in Calls
      BY <2>2 DEF IInv, FamilyOK, Made, Descends
    <3>2. CASE signal[call[d].parent] # "live"
      BY <1>1, <2>2, <3>1, <3>2 DEF IInv, FamilyOK, AbortCascades, AbortReaches
    <3>3. CASE signal[call[d].parent] = "live"
      <4>1. call[d].parent \in hit
        BY <1>1, <2>2, <3>1, <3>3
      <4>2. c \in call[d].heeds
        BY <2>2, <4>1 DEF IInv, FamilyOK, Descends
      <4>3. QED
        BY <1>1, <2>2, <3>1, <4>2
    <3>4. QED
      BY <3>2, <3>3
  <2>3. AbortCascades'
    BY <1>1, <2>1, <2>2 DEF AbortCascades, AbortReaches
  <2>4. QED
    BY <1>1, <2>1, <2>3 DEF IInv, FamilyOK, Descends, Begun
<1>7. QED
  BY <1>3, <1>4, <1>5, <1>6 DEF IInv, QueuesOK

-----------------------------------------------------------------------------
LEMMA InitIInv == Init => IInv
<1> SUFFICES ASSUME Init PROVE IInv
  OBVIOUS
<1>1. Made = {} /\ \A c \in Calls : ~Admitted(c) /\ phase[c] = "new"
  BY DEF Init, Made, Admitted
<1>2. Elements(<<>>) = {} /\ Injective(<<>>) /\ <<>> \in Seq(Calls)
  BY EmptySeq DEF Elements, Injective
<1>3. Typed
  BY <1>2 DEF Init, Typed, Phases, Failures, Signals
<1>4. QueuesOK
  BY <1>1, <1>2, FS_EmptySet DEF Init, QueuesOK, QueueOK, UsesQueue
<1>5. QED
  BY <1>1, <1>3, <1>4 DEF Init, IInv, FamilyOK, AbortCascades, AnswersOK, AnswerOK, AttemptsOK, LoopOK, Begun

LEMMA StepIInv ==
    ASSUME IInv, [Next]_vars
    PROVE  IInv'
<1>1. ASSUME NEW c \in Calls, NEW t \in Tools, NEW o \in Overrides, CallFromProgram(c, t, o)
      PROVE  IInv'
  BY <1>1, InvokeStep DEF CallFromProgram
<1>2. ASSUME NEW c \in Calls, NEW t \in Tools, CallFromClient(c, t)
      PROVE  IInv'
  BY <1>2, InvokeStep DEF CallFromClient
<1>3. ASSUME NEW p \in Calls, NEW c \in Calls, NEW t \in Tools, NEW o \in Overrides,
             CallFromHandler(p, c, t, o)
      PROVE  IInv'
  BY <1>3, InvokeStep DEF CallFromHandler
<1>4. ASSUME NEW c \in Calls, Proceed(c)
      PROVE  IInv'
  BY <1>4, ProceedStep
<1>5. ASSUME NEW c \in Calls, ProceedInSession(c) \/ Retry(c)
      PROVE  IInv'
  BY <1>5, StartStep DEF ProceedInSession, Retry
<1>6. ASSUME NEW c \in Calls, NEW n \in handlers[c], HandlerReturns(c, n) \/ HandlerThrows(c, n)
      PROVE  IInv'
  BY <1>6, HandlerStep
<1>7. ASSUME NEW c \in Calls, Unwind(c)
      PROVE  IInv'
  BY <1>7, UnwindStep
<1>8. ASSUME NEW c \in Calls, TimeOut(c) \/ Cancel(c)
      PROVE  IInv'
  BY <1>8, AbortStep DEF TimeOut, Cancel
<1>9. CASE ContextReady \/ ContextFails
  BY <1>9, ContextStep
<1>10. ASSUME NEW c \in Calls, NEW n \in ahead[c], CallNext(c, n)
       PROVE  IInv'
  BY <1>10, NextStep
<1>11. ASSUME NEW c \in Calls, MiddlewareReturns(c) \/ MiddlewareThrows(c)
       PROVE  IInv'
  BY <1>11, MiddlewareStep
<1>12. CASE UNCHANGED vars
  <2>1. UNCHANGED <<call, signal, cap, slots, line, phase, ahead, handlers, result, tries>>
    BY <1>12 DEF vars
  <2>2. AnswersOK' /\ \A c \in Calls : Begun(c)' # {} => c \in Made
    BY <2>1 DEF IInv, FamilyOK, AnswersOK, AnswerOK, AttemptsOK, LoopOK, Begun, Made
  <2>3. QED
    BY <2>1, <2>2, MoveStep DEF IInv, Typed
<1>13. QED
  BY <1>1, <1>2, <1>3, <1>4, <1>5, <1>6, <1>7, <1>8, <1>9, <1>10, <1>11, <1>12 DEF Next

LEMMA AlwaysIInv == Spec => []IInv
BY InitIInv, StepIInv, PTL DEF Spec

\* No slot leaks and none is used twice, whatever ends a call: for any tools,
\* queues, limits and calls the slots of a queue belong to the calls between
\* acquire and finally.
THEOREM SlotsAlwaysMatch == Spec => []SlotsMatchCalls
<1>1. IInv => SlotsMatchCalls
  BY DEF IInv, QueuesOK, QueueOK, SlotsMatchCalls
<1>2. QED
  BY <1>1, AlwaysIInv, PTL

\* The calls that nothing aborted and that wait for their handlers keep to the limit
\* of their queue, whatever late handlers of other calls still run.
THEOREM UnabortedKeepLimit == Spec => []UnabortedWithinLimit
<1>1. IInv => UnabortedWithinLimit
  <2> SUFFICES ASSUME IInv, NEW q \in Queues
               PROVE  Cardinality(Undisturbed(q)) <= cap[q]
    BY DEF UnabortedWithinLimit
  <2>1. Undisturbed(q) \in SUBSET slots[q]
    <3>1. ASSUME NEW c \in Undisturbed(q)
          PROVE  c \in Calls /\ UsesQueue(c, q) /\ phase[c] = "running"
      BY DEF Undisturbed, IInv, AnswersOK, AttemptsOK, Begun, UsesQueue
    <3>2. QED
      BY <3>1 DEF IInv, QueuesOK, QueueOK, Admitted
  <2>2. /\ IsFiniteSet(slots[q]) /\ Cardinality(slots[q]) <= cap[q] /\ cap[q] \in Nat
    BY DEF IInv, Typed, QueuesOK, QueueOK
  <2>3. /\ IsFiniteSet(Undisturbed(q)) /\ Cardinality(Undisturbed(q)) <= Cardinality(slots[q])
        /\ Cardinality(slots[q]) \in Nat
    BY <2>1, <2>2, FS_Subset, FS_CardinalityType
  <2>4. Cardinality(Undisturbed(q)) \in Nat
    BY <2>3, FS_CardinalityType
  <2>5. QED
    BY <2>2, <2>3, <2>4
<1>2. QED
  BY <1>1, AlwaysIInv, PTL

\* An abort reaches every call made below a callTool, however deep the calls go.
THEOREM AbortsAlwaysCascade == Spec => []AbortCascades
<1>1. IInv => AbortCascades
  BY DEF IInv, FamilyOK
<1>2. QED
  BY <1>1, AlwaysIInv, PTL

-----------------------------------------------------------------------------
\* The call's answer is given, or an abort has come after its first attempt.
Ended(c) == result[c] # "none" \/ (signal[c] # "live" /\ tries[c] > 0)

\* An answer does not change, and an ended call begins no attempt.
LEMMA AnswerStep ==
    ASSUME IInv, [Next]_vars, NEW c \in Calls, Ended(c)
    PROVE  /\ result[c] # "none" => result'[c] = result[c]
           /\ Begun(c)' \subseteq Begun(c)
<1>1. /\ phase[c] \notin {"new", "queued", "admitted", "context", "running", "backoff"}
      /\ result[c] # "none"
  <2>1. phase[c] \in Phases /\ AnswerOK(c) /\ LoopOK(c) /\ tries[c] \in Nat
    BY DEF IInv, Typed, AnswersOK
  <2>2. QED
    BY <2>1 DEF Ended, AnswerOK, LoopOK, Phases
<1>2. ASSUME NEW d \in Calls, NEW t \in Tools, NEW p, NEW mcp, NEW asked, Invoke(d, t, p, mcp, asked)
      PROVE  result'[c] = result[c] /\ Begun(c)' = Begun(c)
  <2>1. d # c /\ UNCHANGED <<ahead, handlers>>
    BY <1>1, <1>2 DEF Invoke
  <2>2. \/ result' = result \/ \E r : result' = [result EXCEPT ![d] = r]
    BY <1>2 DEF Invoke, AcquireSlot
  <2>3. QED
    BY <2>1, <2>2 DEF IInv, Typed, Begun
<1>3. ASSUME NEW d \in Calls, BeginAttempt(d), d # c
      PROVE  result'[c] = result[c] /\ Begun(c)' = Begun(c)
  BY <1>3 DEF BeginAttempt, IInv, Typed, Begun
<1>4. ASSUME NEW d \in Calls, Proceed(d) \/ ProceedInSession(d) \/ Retry(d)
      PROVE  result'[c] = result[c] /\ Begun(c)' = Begun(c)
  <2>1. d # c
    BY <1>1, <1>4 DEF Proceed, ProceedInSession, Retry
  <2>2. QED
    BY <1>3, <1>4, <2>1 DEF Proceed, ProceedInSession, Retry, Begun
<1>5. ASSUME NEW d \in Calls, RaceOpen(d), Resolve(d) \/ Reject(d)
      PROVE  result'[c] = result[c]
  BY <1>1, <1>5 DEF RaceOpen, Resolve, Reject, IInv, Typed
<1>6. ASSUME NEW d \in Calls, NEW n \in handlers[d], HandlerReturns(d, n) \/ HandlerThrows(d, n)
      PROVE  result'[c] = result[c] /\ Begun(c)' \subseteq Begun(c)
  <2>1. handlers' = [handlers EXCEPT ![d] = @ \ {n}] /\ ahead' = ahead
    BY <1>6 DEF HandlerReturns, HandlerThrows, HandlerEnds
  <2>2. UNCHANGED result \/ (RaceOpen(d) /\ (Resolve(d) \/ Reject(d)))
    BY <1>6 DEF HandlerReturns, HandlerThrows, IsOutcome
  <2>3. Begun(c)' \subseteq Begun(c)
    BY <2>1 DEF Begun, IInv, Typed
  <2>4. QED
    BY <1>5, <2>2, <2>3
<1>7. ASSUME NEW d \in Calls, NEW n \in ahead[d], CallNext(d, n)
      PROVE  result'[c] = result[c] /\ Begun(c)' \subseteq Begun(c)
  BY <1>7 DEF CallNext, Begun, IInv, Typed
<1>8. ASSUME NEW d \in Calls, MiddlewareReturns(d) \/ MiddlewareThrows(d)
      PROVE  result'[c] = result[c] /\ Begun(c)' \subseteq Begun(c)
  <2>1. RaceOpen(d) /\ (Resolve(d) \/ Reject(d)) /\ MiddlewaresEnd(d)
    BY <1>8 DEF MiddlewareReturns, MiddlewareThrows, MiddlewaresEnd
  <2>2. handlers' = handlers /\ (ahead' = ahead \/ ahead' = [ahead EXCEPT ![d] = @ \ {tries[d]}])
    BY <2>1 DEF MiddlewaresEnd
  <2>3. Begun(c)' \subseteq Begun(c)
    BY <2>2 DEF Begun, IInv, Typed
  <2>4. QED
    BY <1>5, <2>1, <2>3
<1>9. ASSUME NEW d \in Calls, Unwind(d)
      PROVE  result'[c] = result[c] /\ Begun(c)' = Begun(c)
  BY <1>9 DEF Unwind, Begun
<1>10. ASSUME NEW d \in Calls, TimeOut(d) \/ Cancel(d)
       PROVE  result'[c] = result[c] /\ Begun(c)' = Begun(c)
  BY <1>1, <1>10 DEF TimeOut, Cancel, AbortSignals, Listens, Begun
<1>11. CASE ContextReady \/ ContextFails
  BY <1>1, <1>11 DEF ContextReady, ContextFails, Begun
<1>12. CASE UNCHANGED vars
  BY <1>12 DEF vars, Begun
<1>13. QED
  BY <1>2, <1>4, <1>6, <1>7, <1>8, <1>9, <1>10, <1>11, <1>12
     DEF Next, CallFromProgram, CallFromClient, CallFromHandler

\* The answer of a call is given once.
THEOREM AnswersAreFinal == Spec => AnswerIsFinal
<1>1. IInv /\ [Next]_vars => [\A c \in Calls : result[c] # "none" => result'[c] = result[c]]_vars
  BY AnswerStep DEF Ended
<1>2. QED
  BY <1>1, AlwaysIInv, PTL DEF Spec, AnswerIsFinal

\* An abort, and an answer of any kind, ends the retry loop: whatever the middlewares
\* of earlier attempts still do, no new attempt begins.
THEOREM AbortsEndRetries == Spec => AbortEndsRetries
<1>1. IInv /\ [Next]_vars =>
          [\A c \in Calls : Ended(c) => Begun(c)' \subseteq Begun(c)]_vars
  BY AnswerStep
<1>2. IInv /\ [Next]_vars =>
          [\A c \in Calls :
              result[c] # "none" \/ (signal[c] # "live" /\ tries[c] > 0)
                  => Begun(c)' \subseteq Begun(c)]_vars
  BY <1>1 DEF Ended
<1>3. QED
  BY <1>2, AlwaysIInv, PTL DEF Spec, AbortEndsRetries

-----------------------------------------------------------------------------
\* The state of the context.
RestTyped == context \in {"none", "pending", "ready"}

LEMMA StepRest ==
    ASSUME RestTyped, [Next]_vars
    PROVE  RestTyped'
<1> USE DEF RestTyped
<1>1. ASSUME NEW c \in Calls, Proceed(c)
      PROVE  RestTyped'
  BY <1>1 DEF Proceed
<1>2. CASE ContextReady \/ ContextFails
  BY <1>2 DEF ContextReady, ContextFails
<1>3. ASSUME NEW c, NEW t, NEW p, NEW mcp, NEW asked, Invoke(c, t, p, mcp, asked)
      PROVE  UNCHANGED context
  BY <1>3 DEF Invoke
<1>4. ASSUME NEW p, NEW c, NEW t, NEW o,
             CallFromProgram(c, t, o) \/ CallFromClient(c, t) \/ CallFromHandler(p, c, t, o)
      PROVE  UNCHANGED context
  BY <1>3, <1>4 DEF CallFromProgram, CallFromClient, CallFromHandler
<1>5. ASSUME NEW c, NEW n, CallNext(c, n) \/ HandlerReturns(c, n) \/ HandlerThrows(c, n)
      PROVE  UNCHANGED context
  BY <1>5 DEF CallNext, HandlerReturns, HandlerThrows, HandlerEnds
<1>6. ASSUME NEW c, \/ ProceedInSession(c) \/ MiddlewareReturns(c) \/ MiddlewareThrows(c)
                    \/ Retry(c) \/ Unwind(c)
      PROVE  UNCHANGED context
  BY <1>6 DEF ProceedInSession, MiddlewareReturns, MiddlewareThrows, MiddlewaresEnd, Retry, Unwind
<1>7. ASSUME NEW c, TimeOut(c) \/ Cancel(c)
      PROVE  UNCHANGED context
  BY <1>7 DEF TimeOut, Cancel, AbortSignals
<1>8. CASE UNCHANGED vars
  BY <1>8 DEF vars
<1>9. QED
  BY <1>1, <1>2, <1>4, <1>5, <1>6, <1>7, <1>8 DEF Next

\* The variables of ToolCalls keep their types: a line holds calls only, a queue's
\* limit is a number, and no call is in a phase the code has not.
THEOREM TypeCorrect == Spec => []TypeOK
<1>1. Init => RestTyped
  BY DEF Init, RestTyped
<1>2. IInv /\ RestTyped => TypeOK
  BY DEF IInv, Typed, RestTyped, TypeOK, Signals
<1>3. QED
  BY <1>1, <1>2, StepRest, AlwaysIInv, PTL DEF Spec
=============================================================================

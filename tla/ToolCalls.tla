------------------------------ MODULE ToolCalls ------------------------------
(***************************************************************************)
(* The life of a tool invocation: callTool of src/server/app.ts and the    *)
(* callback createToolCallback of src/server/mcp.ts that MCP clients reach *)
(* tools through, with the queues of the QueueManager, the abort signals,  *)
(* the retry loop, the middlewares around a handler, the lazily            *)
(* initialised context, and handlers that call other tools.                *)
(*                                                                         *)
(* A step is the code between two awaits.  Each queue is a FIFO semaphore, *)
(* which is what module ConcurrencyQueue is shown to implement.  Losing    *)
(* the race against its signal stops neither the handler nor the           *)
(* middlewares of an attempt: they go on, and a handler may even start,    *)
(* whatever became of the call.  The order of the middlewares and what     *)
(* becomes of their errors is in ToolPipeline; here they are one chain     *)
(* that calls next() or does not, and calls no tool of its own.            *)
(***************************************************************************)
EXTENDS Naturals, Arrays, FiniteSets

CONSTANTS Calls,           \* the invocations, each made at most once
          Tools, Mutexes,  \* tool names; names given as `sequential: "<name>"'
          NoCall, NoQueue,
          Sequential,      \* a tool's `sequential': "off", "tool" (true) or a mutex
          MaxConcurrency,  \* a tool's `maxConcurrency', 0 if undefined
          ServerLimit,     \* the server's `maxConcurrency' (1 for `sequential'), or 0
          Timed,           \* the tools that run under a timeout
          Wrapped,         \* the tools with middlewares
          Loose,           \* those whose middlewares may settle before next() has
          Retries,         \* a tool's number of retry attempts
          MaxDepth,        \* 20 in the code
          Overrides,       \* values of the `sequential' option of a call in use
          McpRoute         \* whether clients also call through createToolCallback

Queues == ({"tool"} \X Tools) \cup ({"mutex"} \X Mutexes) \cup {<<"server">>}

ASSUME CallsAssumption ==
    /\ Sequential \in [Tools -> {"off", "tool"} \cup Mutexes]
    /\ MaxConcurrency \in [Tools -> Nat]
    /\ ServerLimit \in Nat
    /\ Timed \subseteq Tools
    /\ Loose \subseteq Wrapped /\ Wrapped \subseteq Tools
    /\ Retries \in [Tools -> Nat]
    /\ MaxDepth \in Nat
    /\ Overrides \subseteq {"off", "tool"} \cup Mutexes
    /\ McpRoute \in BOOLEAN
    /\ {"off", "tool"} \cap Mutexes = {}
    /\ NoQueue \notin Queues

VARIABLES call,     \* what each invocation was made with, or NoCall
          phase,    \* how far it has come
          result,   \* its status as analytics records it
          signal,   \* its merged signal: live, or the reason it was aborted
          ahead,    \* its attempts whose middlewares may still call next()
          handlers, \* its attempts whose handler is running
          tries,    \* attempts retried so far, the number of the next one
          cap,      \* the concurrency limit of each queue, 0 if not yet created
          slots,    \* the calls that have not released their slot, per queue
          line,     \* the calls that wait, per queue
          context   \* the state of the ContextManager

vars == <<call, phase, result, signal, ahead, handlers, tries, cap, slots, line, context>>

Phases == {"new", "queued", "admitted", "context", "running", "backoff", "unwinding", "done"}
Failures == {"timeout", "cancelled", "error"}

CallRecord ==
    [tool : Tools, parent : Calls \cup {NoCall}, mcp : BOOLEAN, stack : Seq(Tools),
     heeds : SUBSET Calls, queue : Queues \cup {NoQueue}]

TypeOK ==
    /\ call \in [Calls -> CallRecord \cup {NoCall}]
    /\ phase \in [Calls -> Phases]
    /\ result \in [Calls -> Failures \cup {"none", "success"}]
    /\ signal \in [Calls -> {"live", "timeout", "cancelled"}]
    /\ ahead \in [Calls -> SUBSET Nat] /\ handlers \in [Calls -> SUBSET Nat]
    /\ tries \in [Calls -> Nat]
    /\ cap \in [Queues -> Nat]
    /\ slots \in [Queues -> SUBSET Calls]
    /\ line \in [Queues -> Seq(Calls)]
    /\ context \in {"none", "pending", "ready"}

Init ==
    /\ call = [c \in Calls |-> NoCall]
    /\ phase = [c \in Calls |-> "new"]
    /\ result = [c \in Calls |-> "none"]
    /\ signal = [c \in Calls |-> "live"]
    /\ ahead = [c \in Calls |-> {}] /\ handlers = [c \in Calls |-> {}]
    /\ tries = [c \in Calls |-> 0]
    /\ cap = [q \in Queues |-> 0]
    /\ slots = [q \in Queues |-> {}]
    /\ line = [q \in Queues |-> <<>>]
    /\ context = "none"

Made == {c \in Calls : phase[c] # "new"}
Children(p) == {c \in Made : call[c].parent = p}

\* Mutant: a handler's call goes through the server's queue again.
BugChildQueues(t, isChild) == MaxConcurrency[t] = 0 /\ ServerLimit > 0

\* Only calls from outside go through the queue of the server.
UsesServerQueue(t, isChild) == MaxConcurrency[t] = 0 /\ ServerLimit > 0 /\ ~isChild

\* resolveQueueConfig: the key of the queue a call goes through and the limit
\* it asks for.
QueueConfig(t, asked, isChild) ==
    LET seq == IF asked # "off" THEN asked ELSE Sequential[t]
    IN  CASE seq = "tool" -> [key |-> <<"tool", t>>, max |-> 1]
          [] seq \in Mutexes -> [key |-> <<"mutex", seq>>, max |-> 1]
          [] seq = "off" /\ MaxConcurrency[t] > 0 ->
                 [key |-> <<"tool", t>>, max |-> MaxConcurrency[t]]
          [] seq = "off" /\ UsesServerQueue(t, isChild) ->
                 [key |-> <<"server">>, max |-> ServerLimit]
          [] OTHER -> [key |-> NoQueue, max |-> 0]

\* QueueManager.getQueue: the first caller's limit stays.
Limit(config) == IF cap[config.key] = 0 THEN config.max ELSE cap[config.key]

\* Mutant: off by one.
BugOneMore(config) == Cardinality(slots[config.key]) <= Limit(config)

HasRoom(config) == Cardinality(slots[config.key]) < Limit(config)

\* acquire on the queue of `config' for a call c whose signal starts as s.
AcquireSlot(c, config, s) ==
    LET q == config.key
    IN  \/ /\ q = NoQueue
           /\ phase' = [phase EXCEPT ![c] = "admitted"]
           /\ UNCHANGED <<result, cap, slots, line>>
        \/ /\ q # NoQueue
           /\ cap' = [cap EXCEPT ![q] = Limit(config)]
           /\ \/ /\ s # "live"
                 /\ phase' = [phase EXCEPT ![c] = "done"]
                 /\ result' = [result EXCEPT ![c] = s]
                 /\ UNCHANGED <<slots, line>>
              \/ /\ s = "live"
                 /\ HasRoom(config)
                 /\ phase' = [phase EXCEPT ![c] = "admitted"]
                 /\ slots' = [slots EXCEPT ![q] = @ \cup {c}]
                 /\ UNCHANGED <<result, line>>
              \/ /\ s = "live"
                 /\ ~HasRoom(config)
                 /\ phase' = [phase EXCEPT ![c] = "queued"]
                 /\ line' = [line EXCEPT ![q] = Append(@, c)]
                 /\ UNCHANGED <<result, slots>>

\* Mutant: the helper of callTool does not pass the merged signal on either.
BugNoSignal(p) == FALSE

\* Whether a call's signal derives from its parent's: callTool's helper passes
\* the merged signal to the call, the helper of the MCP callback does not.
Inherits(p) == p # NoCall /\ ~call[p].mcp

\* The code of callTool and of the callback up to the first await; `asked' is the
\* `sequential' option it sees.
Invoke(c, t, p, mcp, asked) ==
    LET stack == IF p = NoCall THEN <<>> ELSE Append(call[p].stack, call[p].tool)
        s == IF Inherits(p) THEN signal[p] ELSE "live"
        config == QueueConfig(t, asked, p # NoCall)
    IN  /\ phase[c] = "new"
        /\ call' = [call EXCEPT ![c] =
               [tool |-> t, parent |-> p, mcp |-> mcp, stack |-> stack,
                heeds |-> {c} \cup IF Inherits(p) THEN call[p].heeds ELSE {},
                queue |-> config.key]]
        /\ signal' = [signal EXCEPT ![c] = s]
        /\ \/ /\ t \in Elements(stack) \/ Len(stack) >= MaxDepth
              /\ phase' = [phase EXCEPT ![c] = "done"]
              /\ result' = [result EXCEPT ![c] = "error"]
              /\ UNCHANGED <<cap, slots, line>>
           \/ /\ t \notin Elements(stack) /\ Len(stack) < MaxDepth
              /\ AcquireSlot(c, config, s)
        /\ UNCHANGED <<ahead, handlers, tries, context>>

\* A client or the program calls app.callTool.
CallFromProgram(c, t, asked) == Invoke(c, t, NoCall, FALSE, asked)

\* A tools/call request of an MCP client; it has no such option.
CallFromClient(c, t) ==
    /\ McpRoute
    /\ Invoke(c, t, NoCall, TRUE, "off")

\* A handler calls another tool.  The helper of callTool rebuilds the options
\* and leaves `sequential' out; the helper of the MCP callback passes it on.
CallFromHandler(p, c, t, asked) ==
    /\ handlers[p] # {}
    /\ Invoke(c, t, p, FALSE, IF call[p].mcp THEN asked ELSE "off")

-----------------------------------------------------------------------------
\* runAttempt starts the middlewares, or the handler if there are none, before it
\* looks at the signal; one that is aborted already decides the race at once.
BeginAttempt(c) ==
    /\ \/ /\ call[c].tool \in Wrapped
          /\ ahead' = [ahead EXCEPT ![c] = @ \cup {tries[c]}]
          /\ UNCHANGED handlers
       \/ /\ call[c].tool \notin Wrapped
          /\ handlers' = [handlers EXCEPT ![c] = @ \cup {tries[c]}]
          /\ UNCHANGED ahead
    /\ \/ /\ signal[c] = "live"
          /\ phase' = [phase EXCEPT ![c] = "running"]
          /\ UNCHANGED result
       \/ /\ signal[c] # "live"
          /\ phase' = [phase EXCEPT ![c] = "unwinding"]
          /\ result' = [result EXCEPT ![c] = signal[c]]

\* callTool after acquire: the context is initialised on first use and waited
\* for, whatever has become of the signal.
Proceed(c) ==
    /\ phase[c] = "admitted"
    /\ ~call[c].mcp
    /\ \/ /\ context = "ready"
          /\ BeginAttempt(c)
          /\ UNCHANGED context
       \/ /\ context # "ready"
          /\ context' = "pending"
          /\ phase' = [phase EXCEPT ![c] = "context"]
          /\ UNCHANGED <<result, ahead, handlers>>
    /\ UNCHANGED <<call, signal, tries, cap, slots, line>>

\* The MCP callback after acquire: its context came with the session.
ProceedInSession(c) ==
    /\ phase[c] = "admitted"
    /\ call[c].mcp
    /\ BeginAttempt(c)
    /\ UNCHANGED <<call, signal, tries, cap, slots, line, context>>

ContextReady ==
    /\ context = "pending"
    /\ context' = "ready"
    /\ phase' = [c \in Calls |-> IF phase[c] = "context" THEN "admitted" ELSE phase[c]]
    /\ UNCHANGED <<call, result, signal, ahead, handlers, tries, cap, slots, line>>

\* The status the catch block records: the message decides before the signal.
Status(c, message) ==
    CASE message = "timeout" -> "timeout"
      [] message # "timeout" /\ signal[c] # "live" -> "cancelled"
      [] OTHER -> "error"

\* The factory rejects: the next call tries again, and the calls that waited for
\* it end in the catch block, which looks at their signal.
ContextFails ==
    /\ context = "pending"
    /\ context' = "none"
    /\ phase' = [c \in Calls |-> IF phase[c] = "context" THEN "unwinding" ELSE phase[c]]
    /\ result' = [c \in Calls |->
           IF phase[c] = "context" THEN Status(c, "error") ELSE result[c]]
    /\ UNCHANGED <<call, signal, ahead, handlers, tries, cap, slots, line>>

\* Mutant: a handler that ends late decides as well.
BugLateAnswer(c) == phase[c] \in {"running", "unwinding"}

\* The race of an attempt against its signal is open.
RaceOpen(c) == phase[c] = "running"

\* The attempt's promise resolves.
Resolve(c) ==
    /\ phase' = [phase EXCEPT ![c] = "unwinding"]
    /\ result' = [result EXCEPT ![c] = "success"]
    /\ UNCHANGED tries

\* It rejects, with an error of its own or with that of a call it made: a message
\* with `timed out' in it makes the status timeout.  executeWithRetry tries again
\* while attempts are left and retryIf agrees.
Reject(c) ==
    \/ /\ tries[c] < Retries[call[c].tool]
       /\ tries' = [tries EXCEPT ![c] = @ + 1]
       /\ phase' = [phase EXCEPT ![c] = "backoff"]
       /\ UNCHANGED result
    \/ /\ phase' = [phase EXCEPT ![c] = "unwinding"]
       /\ \E r \in {"error"} \cup ({"timeout"} \cap {result[d] : d \in Children(c)}) :
             result' = [result EXCEPT ![c] = Status(c, r)]
       /\ UNCHANGED tries

\* A middleware calls next() and the handler of attempt n starts, whatever has
\* become of the race; composeMiddleware lets it start once.
CallNext(c, n) ==
    /\ n \in ahead[c]
    /\ ahead' = [ahead EXCEPT ![c] = @ \ {n}]
    /\ handlers' = [handlers EXCEPT ![c] = @ \cup {n}]
    /\ UNCHANGED <<call, phase, result, signal, tries, cap, slots, line, context>>

\* The handler of attempt n ends.  Handlers await the calls they make; only when it
\* is the last one that runs are those known to be its own.
HandlerEnds(c, n) ==
    /\ n \in handlers[c]
    /\ handlers[c] = {n} => \A d \in Children(c) : phase[d] = "done"
    /\ handlers' = [handlers EXCEPT ![c] = @ \ {n}]
    /\ UNCHANGED <<call, signal, ahead, cap, slots, line, context>>

\* What a handler returns or throws is the attempt's outcome if nothing wraps it.
IsOutcome(c) == RaceOpen(c) /\ call[c].tool \notin Wrapped

\* A handler that is not the outcome may as well have thrown.
HandlerReturns(c, n) ==
    /\ HandlerEnds(c, n)
    /\ \/ IsOutcome(c) /\ Resolve(c)
       \/ ~IsOutcome(c) /\ UNCHANGED <<phase, result, tries>>

HandlerThrows(c, n) ==
    /\ HandlerEnds(c, n)
    /\ IsOutcome(c)
    /\ Reject(c)

\* The middlewares of the attempt in the race settle: after the handler, or without
\* having called next(); loose ones at any time, and next() may still be called.
MiddlewaresEnd(c) ==
    /\ RaceOpen(c)
    /\ call[c].tool \in Wrapped
    /\ \/ /\ call[c].tool \in Loose
          /\ UNCHANGED ahead
       \/ /\ call[c].tool \notin Loose
          /\ handlers[c] = {}
          /\ ahead' = [ahead EXCEPT ![c] = @ \ {tries[c]}]
    /\ UNCHANGED <<call, signal, handlers, cap, slots, line, context>>

MiddlewareReturns(c) == MiddlewaresEnd(c) /\ Resolve(c)
MiddlewareThrows(c) == MiddlewaresEnd(c) /\ Reject(c)

\* sleepWithSignal is over and the loop calls runAttempt again.
Retry(c) ==
    /\ phase[c] = "backoff"
    /\ BeginAttempt(c)
    /\ UNCHANGED <<call, signal, tries, cap, slots, line, context>>

\* The end of callTool: the finally block stops the timer and calls the release
\* closure, which hands the slot to the head of the line.
Unwind(c) ==
    LET q == call[c].queue
    IN  /\ phase[c] = "unwinding"
        /\ \/ /\ q = NoQueue
              /\ phase' = [phase EXCEPT ![c] = "done"]
              /\ UNCHANGED <<slots, line>>
           \/ /\ q # NoQueue
              /\ line[q] = <<>>
              /\ phase' = [phase EXCEPT ![c] = "done"]
              /\ slots' = [slots EXCEPT ![q] = @ \ {c}]
              /\ UNCHANGED line
           \/ /\ q # NoQueue
              /\ line[q] # <<>>
              /\ phase' = [phase EXCEPT ![c] = "done", ![Head(line[q])] = "admitted"]
              /\ slots' = [slots EXCEPT ![q] = (@ \ {c}) \cup {Head(line[q])}]
              /\ line' = [line EXCEPT ![q] = Tail(@)]
        /\ UNCHANGED <<call, result, signal, ahead, handlers, tries, cap, context>>

\* Mutant: cancelled calls stay in line.
BugStayInLine(hit) == UNCHANGED line

\* The abort listeners of queued calls splice them out.
LeaveLines(hit) ==
    line' = [q \in Queues |-> Only(line[q], Calls \ hit)]

\* Mutant: the sleep between two attempts does not listen to the signal.
BugDeafSleep(d) == phase[d] = "running"

\* Where a call listens to its signal: raceWithSignal, sleepWithSignal.
Listens(d) == phase[d] \in {"running", "backoff"}

\* The signal of c is aborted, and with it the signals AbortSignal.any derived
\* from it.  Whoever waits in a queue leaves it, a race or a backoff ends; a
\* call that is being admitted or waits for the context is not disturbed.
AbortSignals(c, reason) ==
    LET hit == {d \in Made : c \in call[d].heeds /\ signal[d] = "live"}
    IN  /\ signal' = [d \in Calls |-> IF d \in hit THEN reason ELSE signal[d]]
        /\ LeaveLines(hit)
        /\ phase' = [d \in Calls |->
               IF d \notin hit THEN phase[d]
               ELSE CASE phase[d] = "queued" -> "done"
                      [] Listens(d) -> "unwinding"
                      [] OTHER -> phase[d]]
        /\ result' = [d \in Calls |->
               IF d \in hit /\ (phase[d] = "queued" \/ Listens(d))
               THEN reason ELSE result[d]]
        /\ UNCHANGED <<call, ahead, handlers, tries, cap, slots, context>>

\* Mutant: the timer is cleared as soon as the handler starts.
BugTimerCleared(c) == phase[c] \in {"queued", "admitted", "context"} /\ call[c].tool \in Timed

HasTimer(c) == phase[c] \notin {"new", "done"} /\ call[c].tool \in Timed

\* The timer of the call fires; its finally block would have cleared it.
TimeOut(c) ==
    /\ HasTimer(c)
    /\ signal[c] = "live"
    /\ AbortSignals(c, "timeout")

\* The client of a call aborts the signal it passed, or disconnects; once the
\* call is done that changes nothing any more.
Cancel(c) ==
    /\ phase[c] \notin {"new", "done"}
    /\ call[c].parent = NoCall
    /\ signal[c] = "live"
    /\ AbortSignals(c, "cancelled")

Next ==
    \/ \E c \in Calls, t \in Tools, o \in Overrides : CallFromProgram(c, t, o)
    \/ \E c \in Calls, t \in Tools : CallFromClient(c, t)
    \/ \E p, c \in Calls, t \in Tools, o \in Overrides : CallFromHandler(p, c, t, o)
    \/ \E c \in Calls : Proceed(c)
    \/ \E c \in Calls : ProceedInSession(c)
    \/ ContextReady
    \/ ContextFails
    \/ \E c \in Calls : \E n \in ahead[c] : CallNext(c, n)
    \/ \E c \in Calls : \E n \in handlers[c] : HandlerReturns(c, n)
    \/ \E c \in Calls : \E n \in handlers[c] : HandlerThrows(c, n)
    \/ \E c \in Calls : MiddlewareReturns(c)
    \/ \E c \in Calls : MiddlewareThrows(c)
    \/ \E c \in Calls : Retry(c)
    \/ \E c \in Calls : Unwind(c)
    \/ \E c \in Calls : TimeOut(c)
    \/ \E c \in Calls : Cancel(c)

\* What the event loop guarantees: promise reactions run, timers fire.
EventLoop ==
    /\ \A c \in Calls : WF_vars(Proceed(c)) /\ WF_vars(ProceedInSession(c))
    /\ \A c \in Calls : WF_vars(Unwind(c))
    /\ \A c \in Calls : WF_vars(TimeOut(c)) /\ WF_vars(Retry(c))
    /\ WF_vars(ContextReady \/ ContextFails)

\* What only the handlers and middlewares can guarantee: a handler ends once its
\* calls have, and middlewares go on or settle.
Cooperation ==
    \A c \in Calls :
        /\ WF_vars(\E n \in handlers[c] : HandlerReturns(c, n) \/ HandlerThrows(c, n))
        /\ WF_vars(\/ \E n \in ahead[c] : CallNext(c, n)
                   \/ MiddlewareReturns(c)
                   \/ MiddlewareThrows(c))

Spec == Init /\ [][Next]_vars /\ EventLoop
CooperativeSpec == Spec /\ Cooperation

-----------------------------------------------------------------------------
UsesQueue(c, q) == c \in Made /\ call[c].queue = q

\* A call that was admitted and has not come to the end of its finally block.
Admitted(c) == phase[c] \in {"admitted", "context", "running", "backoff", "unwinding"}

\* No slot leaks and none is used twice: a queue's slots belong to exactly the
\* calls between acquire and finally, its line to those that wait, and the
\* limit holds, through timeouts, failed contexts, retries and cancellations.
SlotsMatchCalls ==
    \A q \in Queues :
        /\ slots[q] = {c \in Calls : UsesQueue(c, q) /\ Admitted(c)}
        /\ Elements(line[q]) = {c \in Calls : UsesQueue(c, q) /\ phase[c] = "queued"}
        /\ Cardinality(slots[q]) <= cap[q]

\* The calls of a queue that run handlers although nothing aborted them, but for
\* those whose middlewares do not wait for the handler.
Undisturbed(q) ==
    {c \in Calls : /\ UsesQueue(c, q)
                   /\ handlers[c] # {}
                   /\ signal[c] = "live"
                   /\ call[c].tool \notin Loose}

\* The exclusion the queues do give: of the calls behind one queue whose handlers
\* run, no more than its limit were not aborted and wait for their handlers.
UnabortedWithinLimit == \A q \in Queues : Cardinality(Undisturbed(q)) <= cap[q]

AbortReaches(c) == signal[call[c].parent] # "live" => signal[c] # "live"

\* An abort reaches every call made below a callTool, those made after it included.
AbortCascades ==
    \A c \in Made : call[c].parent # NoCall /\ ~call[call[c].parent].mcp => AbortReaches(c)

\* The answer of a call is given once: a handler that ends after the deadline,
\* or a deadline after the end, does not change it.
AnswerIsFinal == [][\A c \in Calls : result[c] # "none" => result'[c] = result[c]]_vars

\* The attempts of a call that have a handler running or may still start one.
Begun(c) == ahead[c] \cup handlers[c]

\* An abort ends the retry loop wherever it is, in an attempt or in the sleep
\* between two: no attempt begins for an answered call, and after an abort no
\* second one.  What may still start is the handler of an attempt begun before.
AbortEndsRetries ==
    [][\A c \in Calls :
           result[c] # "none" \/ (signal[c] # "live" /\ tries[c] > 0)
               => Begun(c)' \subseteq Begun(c)]_vars

\* Every call is answered.  With deadlines this asks nothing of the handlers;
\* without them the handlers have to end, and the queues not to wait in a ring.
EveryCallAnswered == \A c \in Calls : phase[c] # "new" ~> phase[c] = "done"
=============================================================================

---------------------------- MODULE ToolPipeline ----------------------------
(***************************************************************************)
(* What a tool call goes through once it is accepted: the result cache of  *)
(* src/utils/cache.ts, the middlewares of src/utils/middleware.ts around   *)
(* the handler, the attempts of executeWithRetry, and the records of       *)
(* src/server/analytics.ts, on both routes (callTool of src/server/app.ts  *)
(* and createToolCallback of src/server/mcp.ts).                           *)
(*                                                                         *)
(* A middleware and a handler are any asynchronous code: they settle at    *)
(* any time, call next() any number of times, with or without waiting for  *)
(* it, and go on after the call they belong to has been answered.  Queues, *)
(* timers and contexts are those of ToolCalls; here a call under way may   *)
(* be aborted at any time.                                                 *)
(***************************************************************************)
EXTENDS Integers, FiniteSets, Arrays

CONSTANTS Calls,           \* invocations
          Tools, None,     \* registered tools; no tool, the caller of a call from outside
          Keys, ToolOf,    \* a tool with its arguments: the key of a result
          Load,            \* bound of an instance: the requests each call may be
          Ttl, MaxSize,    \* the cache settings of each tool
          Attempts,        \* how often a tool's handler may be tried
          Middlewares,     \* middlewares that app.use may register
          Filter,          \* the tools a middleware's filter matches
          Own,             \* the middlewares of a tool's own definition
          MaxTime          \* bound of an instance: when the clock stops

Requests == [key : Keys, caller : Tools \cup {None}, bypass : BOOLEAN]

ASSUME PipelineAssumption ==
    /\ ToolOf \in [Keys -> Tools]
    /\ Ttl \in [Tools -> Nat] /\ MaxSize \in [Tools -> Nat]
    /\ Attempts \in [Tools -> Nat \ {0}]
    /\ Filter \in [Middlewares -> SUBSET Tools]
    /\ Own \in [Tools -> Seq(Middlewares)]
    /\ None \notin Tools \cup Keys
    /\ MaxTime \in Nat
    /\ Load \in [Calls -> SUBSET Requests]

VARIABLES now,        \* the clock
          entries,    \* the cache, the least recently used entry first
          registered, \* the middlewares registered so far, in order
          stage,      \* how far each call has come
          call,       \* its key, its caller and whether it bypasses the cache
          pipeline,   \* the middlewares composed for it
          attempt,    \* the attempt it is in
          index,      \* how deep dispatch has come in each attempt; 0: not begun
          analytics,  \* the collector's counters
          handled,    \* how often the handler was started in each attempt
          outcome,    \* what became of a call, for the properties
          servedBy,   \* the call whose result it was answered with
          madeAt,     \* when that result was put together
          cleared,    \* finished calls whose result a clear of the cache covers
          used        \* all keys, the least recently used first

flight == <<pipeline, attempt, index, handled>>
ghosts == <<outcome, servedBy, madeAt>>
pipelineVars == <<now, entries, registered, stage, call, pipeline, attempt, index,
                  analytics, handled, outcome, servedBy, madeAt, cleared, used>>

Tool(c) == IF call[c].key = None THEN None ELSE ToolOf[call[c].key]
Tries == UNION {1 .. Attempts[t] : t \in Tools}
Statuses == {"success", "timeout", "cancelled", "error"}

-----------------------------------------------------------------------------
\* The cache, a Map in insertion order.
EntriesOf(cache, k) == {e \in Elements(cache) : e.key = k}
Others(cache, k) == Only(cache, Elements(cache) \ EntriesOf(cache, k))

Expired(e) == now > e.expires

\* Mutant: a hit leaves the order alone.
BugGetOnly(cache, k) == Only(cache, {e \in Elements(cache) : e.key = k => ~Expired(e)})

\* get: a hit moves the entry to the end, an expired one is dropped.
Get(cache, k) ==
    Others(cache, k) \o Only(cache, {e \in EntriesOf(cache, k) : ~Expired(e)})

\* The first entries go until the tool's limit leaves room for one more.
Evict(cache, max) ==
    LET surplus == Len(cache) - max + 1
    IN  IF surplus <= 0 THEN cache
        ELSE IF surplus >= Len(cache) THEN <<>>
        ELSE SubSeq(cache, surplus + 1, Len(cache))

\* set
Put(cache, k, c) ==
    Append(Evict(Others(cache, k), MaxSize[ToolOf[k]]),
           [key |-> k, by |-> c, expires |-> now + Ttl[ToolOf[k]]])

\* Mutant: the prefix of a clear matches no key.
BugClearNone(cache, tools) == IF tools = Tools THEN <<>> ELSE cache

\* clear, of one tool or of all
Clear(cache, tools) == Only(cache, {e \in Elements(cache) : ToolOf[e.key] \notin tools})

-----------------------------------------------------------------------------
\* matchesFilter, and the tool's own middlewares innermost.
MiddlewaresForTool(t) == Only(registered, {m \in Middlewares : t \in Filter[m]}) \o Own[t]

-----------------------------------------------------------------------------
\* The analytics.
NoAnalytics ==
    [total |-> 0, success |-> 0, failed |-> 0, timeouts |-> 0, cancelled |-> 0, cached |-> 0,
     tools |-> [t \in Tools |-> [calls |-> 0, success |-> 0, errors |-> 0, hits |-> 0]],
     edges |-> [e \in Tools \X Tools |-> 0]]

One(condition) == IF condition THEN 1 ELSE 0

\* recordInvocation.  The callers of a tool, the tools it invoked and the edges of
\* the summary are three views of one count.
RecordInvocation(a, tool, caller, status, hit) ==
    [total |-> a.total + 1,
     success |-> a.success + One(status = "success"),
     failed |-> a.failed + One(status # "success"),
     timeouts |-> a.timeouts + One(status = "timeout"),
     cancelled |-> a.cancelled + One(status = "cancelled"),
     cached |-> a.cached + One(hit),
     tools |-> [t \in Tools |->
         [calls |-> a.tools[t].calls + One(t = tool),
          success |-> a.tools[t].success + One(t = tool /\ status = "success"),
          errors |-> a.tools[t].errors + One(t = tool /\ status # "success"),
          hits |-> a.tools[t].hits + One(t = tool /\ hit)]],
     edges |-> [e \in Tools \X Tools |-> a.edges[e] + One(e = <<caller, tool>>)]]

Record(c, status) == RecordInvocation(analytics, Tool(c), call[c].caller, status, FALSE)

-----------------------------------------------------------------------------
NoCall == [key |-> None, caller |-> None, bypass |-> FALSE]

PipelineTypeOK ==
    /\ now \in 0 .. MaxTime
    /\ entries \in Seq([key : Keys, by : Calls, expires : Nat])
    /\ registered \in Seq(Middlewares)
    /\ stage \in [Calls -> {"idle", "queued", "running", "waiting", "answered"}]
    /\ call \in [Calls -> Requests \cup {NoCall}]
    /\ pipeline \in [Calls -> Seq(Middlewares)]
    /\ attempt \in [Calls -> Nat]
    /\ index \in [Calls -> [Tries -> Nat]]
    /\ handled \in [Calls -> [Tries -> Nat]]
    /\ outcome \in [Calls -> {"none", "hit", "good", "faulty", "spoiled", "failed"}]
    /\ servedBy \in [Calls -> Calls]
    /\ madeAt \in [Calls -> 0 .. MaxTime]
    /\ cleared \subseteq Calls

PipelineInit ==
    /\ now = 0
    /\ entries = <<>>
    /\ registered = <<>>
    /\ stage = [c \in Calls |-> "idle"]
    /\ call = [c \in Calls |-> NoCall]
    /\ pipeline = [c \in Calls |-> <<>>]
    /\ attempt = [c \in Calls |-> 0]
    /\ index = [c \in Calls |-> [n \in Tries |-> 0]]
    /\ analytics = NoAnalytics
    /\ handled = [c \in Calls |-> [n \in Tries |-> 0]]
    /\ outcome = [c \in Calls |-> "none"]
    /\ servedBy = [c \in Calls |-> c]
    /\ madeAt = [c \in Calls |-> 0]
    /\ cleared = {}
    /\ used = <<>>

\* A tool calls another from its handler, which may outlive the call it serves;
\* none calls itself.
CanCall(t, k) ==
    /\ t # ToolOf[k]
    /\ \E c \in Calls : Tool(c) = t /\ \E n \in Tries : handled[c][n] > 0

\* A key is the one used last.
MovedToEnd(k) == Append(Only(used, Keys \ {k}), k)

\* A call passes the checks; the cache is looked up before anything else.  The
\* request of a client has no caller and no option to bypass the cache.
Invoke(c, r) ==
    /\ stage[c] = "idle"
    /\ r.caller # None => CanCall(r.caller, r.key)
    /\ call' = [call EXCEPT ![c] = r]
    /\ UNCHANGED <<now, registered, cleared, flight>>
    /\ LET k == r.key
           found == IF r.bypass THEN {} ELSE {e \in EntriesOf(entries, k) : ~Expired(e)}
       IN  /\ entries' = IF r.bypass THEN entries ELSE Get(entries, k)
           /\ \/ /\ found = {}
                 /\ stage' = [stage EXCEPT ![c] = "queued"]
                 /\ UNCHANGED <<analytics, used, ghosts>>
              \/ \E e \in found :
                   /\ stage' = [stage EXCEPT ![c] = "answered"]
                   /\ analytics' = RecordInvocation(analytics, ToolOf[k], r.caller, "success", TRUE)
                   /\ outcome' = [outcome EXCEPT ![c] = "hit"]
                   /\ servedBy' = [servedBy EXCEPT ![c] = e.by]
                   /\ used' = MovedToEnd(k)
                   /\ UNCHANGED madeAt

\* dispatch(i) of attempt n: the i-th function starts, unless it, or one further
\* in, has been started already; the last is the handler.
Dispatch(c, n, i, functions) ==
    /\ index' = [index EXCEPT ![c][n] = i]
    /\ handled' = [handled EXCEPT ![c][n] = @ + One(i = Len(functions) + 1)]

\* The call has a slot and a context; the pipeline is composed and first run.
Begin(c) ==
    /\ stage[c] = "queued"
    /\ stage' = [stage EXCEPT ![c] = "running"]
    /\ pipeline' = [pipeline EXCEPT ![c] = MiddlewaresForTool(Tool(c))]
    /\ attempt' = [attempt EXCEPT ![c] = 1]
    /\ Dispatch(c, 1, 1, pipeline'[c])
    /\ UNCHANGED <<now, entries, registered, call, analytics, ghosts, cleared, used>>

\* Mutant: next() does not look whether it has been called before.
BugAlways(c, n, i) == TRUE

\* The guard of dispatch; the promise of a second next() is rejected.
NotYet(c, n, i) == i > index[c][n]

\* A middleware that was started calls next(): whatever became of the attempt, as
\* the function stays its own even after it has returned.
CallNext(c, n, i) ==
    /\ i \in (1 .. index[c][n]) \cap DOMAIN pipeline[c]
    /\ NotYet(c, n, i + 1)
    /\ Dispatch(c, n, i + 1, pipeline[c])
    /\ UNCHANGED <<now, entries, registered, stage, call, pipeline, attempt, analytics, ghosts,
                   cleared, used>>

\* Mutant: a result is looked at even when the signal has won the race.
BugNoRace(c) == stage[c] \in {"running", "answered"} /\ attempt[c] > 0

\* raceWithSignal still waits for the attempt.
Unsettled(c) == stage[c] = "running"

\* The outermost function of the current attempt settles.
SettleOuter(c) ==
    /\ Unsettled(c)
    /\ UNCHANGED <<now, registered, call, cleared, flight>>

Answer(c, what) ==
    /\ stage' = [stage EXCEPT ![c] = "answered"]
    /\ outcome' = [outcome EXCEPT ![c] = what]
    /\ madeAt' = [madeAt EXCEPT ![c] = now]
    /\ UNCHANGED servedBy

\* With a result that is kept, unless the call bypasses the cache.
Succeed(c) ==
    /\ SettleOuter(c)
    /\ Answer(c, "good")
    /\ analytics' = Record(c, "success")
    /\ IF call[c].bypass
       THEN UNCHANGED <<entries, used>>
       ELSE /\ entries' = Put(entries, call[c].key, c)
            /\ used' = MovedToEnd(call[c].key)

\* With a result that says isError.
ReturnFault(c) ==
    /\ SettleOuter(c)
    /\ Answer(c, "faulty")
    /\ analytics' = Record(c, "success")
    /\ UNCHANGED <<entries, used>>

\* With a result normalizeToolResult cannot serialize: the call is recorded as a
\* success, and then as an error.
ReturnSpoiled(c) ==
    /\ SettleOuter(c)
    /\ Answer(c, "spoiled")
    /\ analytics' = RecordInvocation(Record(c, "success"), Tool(c), call[c].caller, "error", FALSE)
    /\ UNCHANGED <<entries, used>>

\* With an error, when no attempt is left or the error is not one to retry.
Fail(c) ==
    /\ SettleOuter(c)
    /\ Answer(c, "failed")
    /\ analytics' = Record(c, "error")
    /\ UNCHANGED <<entries, used>>

\* With an error that is retried after a delay.
FailAttempt(c) ==
    /\ SettleOuter(c)
    /\ attempt[c] < Attempts[Tool(c)]
    /\ stage' = [stage EXCEPT ![c] = "waiting"]
    /\ UNCHANGED <<entries, analytics, used, ghosts>>

TryAgain(c) ==
    /\ stage[c] = "waiting"
    /\ stage' = [stage EXCEPT ![c] = "running"]
    /\ attempt' = [attempt EXCEPT ![c] = @ + 1]
    /\ Dispatch(c, attempt'[c], 1, pipeline[c])
    /\ UNCHANGED <<now, entries, registered, call, pipeline, analytics, ghosts, cleared, used>>

\* The call's signal aborts it: its own timer, or whoever cancels it.
Abort(c, status) ==
    /\ stage[c] \in {"queued", "running", "waiting"}
    /\ Answer(c, "failed")
    /\ analytics' = Record(c, status)
    /\ UNCHANGED <<now, entries, registered, call, cleared, used, flight>>

TimeOut(c) == Abort(c, "timeout")
Cancel(c) == Abort(c, "cancelled")

\* clearCache, from a handler or the program.
ClearCache(tools) ==
    /\ entries' = Clear(entries, tools)
    /\ cleared' = cleared \cup {c \in Calls : stage[c] = "answered" /\ Tool(c) \in tools}
    /\ UNCHANGED <<now, registered, stage, call, analytics, used, flight, ghosts>>

\* app.use
Use(m) ==
    /\ m \notin Elements(registered)
    /\ registered' = Append(registered, m)
    /\ UNCHANGED <<now, entries, stage, call, analytics, cleared, used, flight, ghosts>>

Tick ==
    /\ now < MaxTime
    /\ now' = now + 1
    /\ UNCHANGED <<entries, registered, stage, call, analytics, cleared, used, flight, ghosts>>

Step(c) ==
    \/ \E r \in Load[c] : Invoke(c, r)
    \/ Begin(c) \/ TryAgain(c) \/ TimeOut(c) \/ Cancel(c)
    \/ \E n \in Tries : \E i \in 1 .. index[c][n] : CallNext(c, n, i)
    \/ Succeed(c) \/ ReturnFault(c) \/ ReturnSpoiled(c) \/ Fail(c) \/ FailAttempt(c)

PipelineNext ==
    \/ \E c \in Calls : Step(c)
    \/ \E t \in Tools : ClearCache({t})
    \/ ClearCache(Tools)
    \/ \E m \in Middlewares : Use(m)
    \/ Tick

PipelineSpec == PipelineInit /\ [][PipelineNext]_pipelineVars

-----------------------------------------------------------------------------
\* However often and however late middlewares call next(), in this attempt and
\* in those that failed before it, an attempt starts the handler once.
HandlerOncePerAttempt ==
    \A c \in Calls, n \in Tries : handled[c][n] <= 1

\* A call answered from the cache gets the result of a call of the same tool and
\* arguments that succeeded, was put together within the time to live, and was not
\* covered by a clear, unless that call was under way when the cache was cleared.
HitsAreFresh ==
    [][\A c \in Calls : stage[c] = "idle" /\ stage'[c] = "answered" =>
           LET d == servedBy'[c]
           IN  /\ d # c /\ outcome[d] = "good" /\ call[d].key = call'[c].key
               /\ now - madeAt[d] <= Ttl[Tool(d)]
               /\ d \notin cleared]_pipelineVars

\* The cache keeps its entries in the order of their last use, so that what goes
\* first was used least recently; and it never outgrows the largest limit.
LeastRecentFirst ==
    /\ [i \in DOMAIN entries |-> entries[i].key] = Only(used, {e.key : e \in Elements(entries)})
    /\ Len(entries) <= 1 \/ \E t \in Tools : Len(entries) <= MaxSize[t]

\* The records add up, over the tools and over the edges between them, and to the
\* calls answered: a call counts once, whatever goes on after its answer, and twice
\* if its result could not be normalized.
RecordsAddUp ==
    LET answered == {c \in Calls : stage[c] = "answered"}
        spoiled == {c \in answered : outcome[c] = "spoiled"}
        failed == {c \in answered : outcome[c] = "failed"}
        hits == {c \in answered : outcome[c] = "hit"}
        number(S, t) == Cardinality({c \in S : Tool(c) = t})
    IN  /\ analytics.success = Cardinality(answered \ failed)
        /\ analytics.failed = Cardinality(failed \cup spoiled)
        /\ analytics.cached = Cardinality(hits)
        /\ analytics.total = analytics.success + analytics.failed
        /\ \A t \in Tools :
              /\ analytics.tools[t].success = number(answered \ failed, t)
              /\ analytics.tools[t].errors = number(failed \cup spoiled, t)
              /\ analytics.tools[t].hits = number(hits, t)
              /\ analytics.tools[t].calls = number(answered, t) + number(spoiled, t)
              /\ \A u \in Tools :
                    LET called == {c \in answered : call[c].caller = u}
                    IN  analytics.edges[<<u, t>>] = number(called, t) + number(called \cap spoiled, t)
=============================================================================

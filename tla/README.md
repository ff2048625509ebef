# mcponce in TLA+

mcponce is a TypeScript library for MCP servers. A program describes a server
(`createMCP`, tools, resources, prompts) and runs it; every process started for
the same server finds the one that is already serving, or becomes it, and the
process's own stdio is bridged to the HTTP server of the owner. Tool calls go
through a cache, concurrency queues, deadlines, retries, middlewares and abort
signals, and may call other tools. A registry shared by all processes of a user
lets a command line list and stop the servers.

This directory models the parts of it in which several things happen at once, and
those pure parts on which callers with different views have to agree. Paths are
relative to the repository; line numbers are those of the commit the modules were
written against, and `PROJECT.json` ("map") gives them for every definition.

## 1. The system

### Components, state and operations

| Component | State | Operations | What makes it correct |
|---|---|---|---|
| Concurrency queue, `utils/queue.ts` | `running`, `queue`; an abort listener per waiting item; a `released` flag per closure | `acquire`, the release closures, `run`, abort handlers | the limit holds, slots are neither lost nor doubled, no waiter sleeps beside a free slot, first in first out among the live, every acquire settles |
| Tool invocation, `server/app.ts` `callTool`, `server/mcp.ts` `createToolCallback`, `utils/retry.ts` | per call: merged signal, timer, stack of tools, release closure; the `QueueManager`'s queues | call (by program, client or handler), attempt, retry, deadline, cancellation, unwinding | every admitted call gives back its slot, one answer per call, aborts reach the calls below, every call is answered |
| Shared context, `server/context.ts` | the context, the promise of an initialisation under way | `initialize`, `getContext` | one initialisation at a time, a failed one can be tried again |
| Tool cache, `utils/cache.ts` | entries with expiry, in the order of their use | `get`, `set`, `clear` | a hit is a fresh result of the same call, what goes first was used least recently |
| Middleware, `utils/middleware.ts` | an index per composed chain | `use`, `next` | each layer, and the handler, starts at most once per attempt |
| Analytics, `server/analytics.ts` | counters in all, by tool and by caller; a ring of records | `recordInvocation`, `reset`, rendering | the counters add up to the calls answered |
| Security, `utils/security.ts`, and its use in `server/hono.ts` | an entry per client key; a session's identity | `check`, `cleanup`, `verifyToolScopes`, authentication | the rate holds, who waits as told is let through, more scopes take no tool away |
| Retry delays, `utils/retry.ts` | none | `computeBackoffDelay`, `parseRetryAfterValue` | a client that keeps to Retry-After is let through |
| Instance coordination, `runtime/lock.ts`, `state.ts`, `health.ts`, `instance.ts` | the lock file, `runtime.json` | `ensureInstance`, `tryAcquire`, `release`, `forceRelease`, `write`, `clean`, `forceClean`, `checkHealth` | one owner, others find it, a crash never blocks the next start, and no single late answer costs an owner its files |
| Background launcher, `server/app.ts` `start`, `run`, `runtime/unitup.ts` | the installed service; takes the instance's lock while it installs | install, start, wait | one service per server, no lock left behind |
| Sessions and HTTP routes, `server/hono.ts`, `transport/http.ts` | the `sessions` map, a transport and a stream per session, the metrics | POST, GET and DELETE of `/mcp`, stream aborts, `close` | an owner that nobody uses exits, and no other |
| Resource subscriptions, `registry/subscriptions.ts` | `sessionSubscriptions`, `uriSubscribers` | `subscribe`, `unsubscribe`, `removeSession`, `notifyResourceUpdated` | both maps tell the same, nobody loses what another ended, every subscriber is told |
| Stdio proxy, `transport/proxy.ts` | its two transports, `done` | forward, close | when one side ends both are closed |
| Central registry, `registry/central.ts` | `servers.json`, shared by all processes | `register`, `updateStatus`, `getAll`, `get`, `clean`, `stop` | no live server disappears from it, answers are current, nobody else is signalled |
| Registries of tools, resources, prompts | maps, changed at run time too; a copy of each in every session's server | `tool`, `prompt`, `resourceTemplate`, the `notify*ListChanged` | what is registered reaches the sessions and their clients |
| Coercion and validation, `utils/coercion.ts`, `registry/tools.ts`, `cli/tool-caller.ts` | none | coercions, schemas, parsing of the command line | the same argument means the same to every caller |
| Command line, `cli/bin.ts` | none of its own | `list`, `status`, `stop`, `logs`, `clean`, `call` | see the registry and the coercions |
| Progress, sampling, roots, completion, media, OpenAPI, configuration, paths, logging, inspector | little or none | conversions, rendering, single requests to a client | left to unit tests |

### How they interact

- `run()` calls `ensureInstance`; an owner then initialises the context, starts
  the HTTP server, publishes `runtime.json`, registers in `servers.json` and
  connects its own stdio to its own HTTP server; every other process bridges its
  stdio to the owner's.
- An HTTP request passes the rate limiter, then the authentication, and reaches a
  session's `McpServer` through the session's transport; `tools/call` ends in
  `createToolCallback`, while the program itself and handlers use `callTool`. Both
  coerce the arguments, ask the one cache and take slots from the same
  `QueueManager`.
- A handler's `callTool` hands the call stack down and, on one of the two routes,
  the merged signal.
- The end of a session is noticed by up to three handlers (stream abort, the
  transport's `onsessionclosed`, the DELETE route); the last session to end and
  the end of the owner's stdio decide together when the owner shuts down.
- A registration at run time is put into the servers of the open sessions, and a
  loop that awaits each notification tells their clients to fetch the list anew.
- Processes share only files. No file has a lock over a read and a write of it.

### What is hard

JavaScript interleaves only at an `await` and at the listeners of an abort, but
there are many of both: a deadline or a disconnect may fall into any await of
`callTool`; handlers and middlewares outlive their calls; an abort sets flags
before it runs listeners. Between processes every system call is a point of
interleaving, a process may be killed at each, and its pid given to another
program. `PROJECT.json` ("hazards") lists these places line by line with the
properties that watch over them, and, where none does, why.

## 2. Modules

| Module | Models | One step is |
|---|---|---|
| `Arrays` | `splice` and what several of them leave | |
| `FifoSemaphore` | what a queue promises, without how | an operation |
| `ConcurrencyQueue` | `utils/queue.ts` | a method body, or one abort listener |
| `ToolCalls` | `callTool`, `createToolCallback`, `executeWithRetry`, queue choice, context | the code between two awaits |
| `ToolPipeline` | cache, middleware, attempts and records of the same two routes | the code between two awaits |
| `RequestPath` | rate limiter, authentication, scopes; a client with retries | the same, or a unit of time |
| `InputCoercion` | coercions, schemas, defaults and the guess at typed texts, as operators | |
| `Registration` | registries, the copies in sessions, list notifications | the code between two awaits |
| `Sessions` | `/mcp` routes, subscriptions, updates, the owner's exit | the code between two awaits |
| `InstanceCoordinator` | lock and state files, `ensureInstance`, an owner's start and shutdown | one system call or health request |
| `BackgroundLauncher` (extends `InstanceCoordinator`) | `start` and `run` in the background, and the workers they install | one system call, health request or installation |
| `CentralRegistry` | `servers.json`, its servers and commands | one read, write, health request or signal |
| `MC...` | instances of each for TLC | |
| `...Proofs` | theorems about the module of that name; `ToolProofs` about `InputCoercion`, `Registration` and `ToolPipeline`, `CoordinationProofs` about `InstanceCoordinator` and `BackgroundLauncher` | |

**ConcurrencyQueue.** `running`, `queue` are the fields. `pc` says what became of
each acquire, `sig` its signal. `abort()` sets the flag and copies the listeners
to `dispatch`; `RunListener` calls them one at a time and nothing else runs in
between, so that a listener which releases a slot (`RegisterRelease`: the class is
exported, and a caller may well do that) meets items whose flag is set and whose
listener has not run; line 119 of the code is about these, and without such a
caller it would be dead code. `release()`'s loop is one action: `IsNext` is the
item on which it stops, `SkippedBefore` those it drops. The invariants hold with
`ReleaseOnAbort` either way, and the proofs do not depend on it.
`FifoSemaphore` is implemented under a refinement mapping in which a waiter leaves
the line when its signal is aborted, earlier than its listener runs.

**ToolCalls.** Here a queue is a semaphore with a line, as `ConcurrencyQueue` is
shown to implement, and cancellation is atomic. `phase` follows a call from
`queued` through `admitted`, `context`, `running`, `backoff` and `unwinding` to
`done`. Separate from it, because the loser of the race goes on, are `handlers[c]`, the
attempts whose handler runs, and `ahead[c]`, the attempts whose middlewares may still
call `next()` and so start one, even for a call that has its answer. `Wrapped` are the
tools with middlewares, `Loose` those whose middlewares may settle an attempt without
waiting for its handler; the chain is one here and calls no tools of its own, its
layers and their errors are in `ToolPipeline`. `heeds` is the set of calls whose abort aborts this one
(`AbortSignal.any`). Guards are the code's: the stack check of `callTool` (depth
20 and cycles), the queue choice of `resolveQueueConfig`, first-caller-wins in
`getQueue`, the position at which each path looks at its signal. The two routes
differ where the code differs: the context, the signal handed to nested calls,
and the `sequential` option. `Proceed` and `ProceedInSession` are the routes' steps
between slot and handler. The handler of a tool is left open; a nested call's own
options (`signal`, `timeoutMs`, retries, `throwOnError`) stay at their defaults.

**ToolPipeline.** `entries` is the cache's map in its order of insertion, which
`get` and `set` turn into an order of use. The lookup is a step of its own before
a call waits for its slot, the entry is made when the result is there, and a clear
may come between. `pipeline` is the chain composed for a call and `index` the depth
its `dispatch` has reached in each attempt: a middleware may call `next()` again,
late, or after the call was answered, and each attempt has a fresh index. A call
ends with a result that is kept, a result that says `isError`, one that cannot be
serialized, an error, or an abort; each way makes the records the code makes.
`outcome`, `servedBy`, `madeAt`, `cleared` and `used` are ghosts for the properties.

**RequestPath.** A request is admitted or rejected by its key's entry, then
validated, then routed to a session or run without one. Times are differences to
now (`left`, `wait`), and a `Tick` takes one unit from each. `Identity` is the
code's choice: an existing session keeps that of its initialize request. The client
is a tool of another server that uses `executeWithRetry`: a 429 makes it wait as
long as Retry-After says, up to its own maximum; any other failure the backoff with
or without jitter. `passes` counts what was let through by age, `owed` remembers a
client that was told when to come back. `verifyToolScopes` is a definition over
scopes that are sequences of parts.

**InputCoercion.** A JavaScript value is a tuple that begins
with its type. What `Number` and `JSON.parse` read is given by constants, about
which only a few texts are assumed. `Parse` is a parameter's compiled schema: a
missing argument becomes the default, which zod's `ZodDefault` then parses with the
schema inside it, so that a configuration's default may be coerced or refused like an
argument; the coercion around a zod schema does not reach its default. `SessionArgument`, `AppArgument` and `TypedArgument` compose these as the three
callers of a tool do. One argument depends on no state and no other argument, so there
are no actions here: that the three agree is an assumption of `MCRegistration`,
`CallersAgree`, which TLC evaluates over a bounded set of parameters and values before the
run, and a pair of theorems for all of them.

**Registration.** A definition is the number of times its item was registered;
`copies` is what each session's server holds, `answered` the kinds of list it
answers for (the library installs those handlers with the first item of a kind, and
refuses that once connected), `missed` what was registered between `Create` and
`Open`, the two halves of an initialize request. `Tell` is one round of
`notify*ListChanged` over the live map.

**Sessions.** `sessions` is the map in its insertion order, since
`notifyResourceUpdated` awaits inside a loop over it. A stream that breaks is
`cut` until its abort event arrives. A DELETE has three steps: the route reads the
map, the transport calls `onsessionclosed`, the route goes on after its await. A
request is routed (`Ask`) and handled (`Handle`) in two steps, so that it may
arrive after its session's end. The SDK's transport and the clients are modelled
from how the code uses them.

**InstanceCoordinator.** The lock file is a creator and whether its content is
there yet (`openSync` and `writeSync` are two calls); the state file is renamed
into place and so has only an owner. `pc` is the next system call and `stage` the
numbered step of `ensureInstance`, from which the common moves find their way on.
A crash may come between any two of them. A dead process's pid may come to be a
stranger's (`ReusePid`), whom `isPidRunning` takes for the process; mcponce's own
processes get no pid twice. A health check finds a server exactly if it listens, unless
`Busy` lets the check time out on a server that listens (`health.ts:34`, with 200, 300
or 500 ms at the four places that call it); `missed` keeps at which stages a start's
checks did, and `Overlooked` is a server that three of one start have missed: the first
look, one of the wait and the one before the takeover, after which its lock and state
are removed. A process's files are checked and unlinked in separate steps on shutdown, as
`release()` and `clean()` do.

**BackgroundLauncher.** The processes of `InstanceCoordinator` are divided into
launchers, which run `start` or the background branch of `run`, and workers,
which go through `ensureInstance` as they are installed or, as when the same
program runs without background mode, by themselves. The two entry points differ
in when they drop the files: `start` reads the lock and drops both when its
holder is dead, `run` drops both when a state names a server that does not
answer, and never looks at the lock. A launcher's own `release()` is two steps. The
service manager is an external: `install` spawns a worker, may stop the one
before, may throw and may never return.

**CentralRegistry.** `file` maps names to a pid, `Stopped` or nothing; a write
replaces the file as a whole, but by a copy read earlier. Servers of one name own
their lock one after the other. A command reads (`Look`), checks each entry's pid
and health in an order of its own (`Check`), may write the result back, and goes on
to what it was called for; `stop` kills, waits, and then reads and writes again.
`FixedPort` says whether a later server of a name answers at the same port. `missed`
and `wronged` are ghosts: the servers a process could not know of when it read, and
those it then wrote over.

## 3. Runs

| Run | Instance | Shows |
|---|---|---|
| `queue` | 4 calls, 2 slots, 2 signals | the counter, the array and the listeners agree; no lost wakeup; order; cancelled calls get nothing; refinement of `FifoSemaphore`; every acquire settles |
| `calls_safety` | 3 calls, 2 tools, a mutex and the server's queue, deadlines, one retry, both routes | slots belong to exactly the admitted calls; limit of unaborted handlers; aborts cascade; an answer is final; an abort ends the retries, whatever late middlewares start |
| `calls_deadlines` | 3 calls, both tools behind one mutex and timed, handlers and middlewares that may never end | every call is answered even when calls wait in a ring |
| `calls_nesting` | 3 calls, sequential server, no deadline, cooperative handlers and middlewares | nested calls skip the server's queue, so every call is answered |
| `tool_pipeline` | a call with 2 middlewares and a retry, 2 calls of a cached tool, 2 sets of arguments | the handler starts once per attempt; eviction takes the least recently used; the records add up; a hit is fresh, of the same call, and not cleared |
| `request_path` | 2 clients of one key, 2 requests per window of 4, 2 retries | at most twice the maximum in any window's length; who waits as told is let through |
| `registration` | a tool with two definitions, 2 templates of one name, 2 sessions; before it, parameters of every form and type, with a fitting default, a strange one or none, 30 values and 17 typed texts | what is registered is offered but for named exceptions; clients with a stream catch up; the three ways of an argument agree |
| `sessions` | the owner's session and one client's, 1 resource, an update under way | both subscription maps agree, an empty owner leaves, subscribers are sent, others stay subscribed, the owner exits |
| `central_registry` | 2 servers of one name, 1 of another, 1 command after the other | a live server is listed unless a named overlap wrote over it; answers are current; no bystander is signalled |
| `instance_recovery` | 4 processes, 3 crashes, one start or shutdown at a time | after a crash at any step, and though the dead one's pid be reused, the next start recovers: one owner, findable, no start fails, unless a busy server has missed the checks that each property names |
| `background` | 1 launcher and 2 servers at once, checks that may time out, 1 crash | every start of a server settles, no launcher abandons its lock and, unless one was killed, somebody serves |
| `instance_gap` (violation) | 2 processes at once | see section 6 |

### Bounds

- *queue*: two waiters behind two holders are the least for a hand-over, an
  overtake and a cancellation in the middle of the array; two signals let
  one abort hit several items and spare others.
- *calls*: three calls are one that holds a slot, one that waits for it and one
  made by a handler. Each configuration switches on the features its question
  needs: the depth limit of 20 is kept but cannot be reached with three calls;
  its branch is fired by the cycle check. In `calls_safety` the tool that is retried has
  middlewares that wait for its handler and the other has loose ones; handlers of several
  attempts of one call at a time are left to the theorems, which do not bound them.
- *tool_pipeline*: `MaxTime` 1 lets an entry live and expire; the two cached calls
  use one or two keys where the cache has room for one entry of that tool; `Load`
  says which requests each call may be. The bounds on attempts and middlewares are
  the tool's own.
- *request_path*: nothing bounds the length of a behaviour, as times are relative. A
  window of 4 with seconds of 3 makes Retry-After round up; the client's maximum of 3
  is below some of the delays it is told.
- *registration*: `MaxDefinitions` allows one redefinition; the values of arguments are
  the smallest list that the coercions tell apart.
- *sessions*: one session ends under the other; `MaxRequests` is one request
  per session under way. With a third session the invariants hold as well
  (5.3 million states), with the same results, so it is not part of the runs.
- *central_registry*: a name with a successor, a bystander of another name
  (`Lasting`: it goes only when a command stops it), and one command that starts
  again as often as it likes.
- *instance*: two processes make a race and a third meets what it left. With
  crashes and one start at a time, each of three processes may leave a different
  mess for the fourth. Time is not modelled: `maxWaitMs` may pass at any moment,
  or, under `Patience`, only while nobody is starting or stopping.
- *background*: two servers race, and a launcher undoes their files under them;
  `LastLooks` is the code's 5. Pids are not reused here: a launcher that hangs is a
  live holder as well. What a second launcher adds is left to `AWorkerServes`, which
  holds for any number of them.
- Every id is used once (`Calls`, `Procs`, `Servers`, `Sids`): ids are UUIDs or fresh
  objects, and what a reused pid does is an action of its own.

### Deadlock

All runs but `request_path` set `CHECK_DEADLOCK FALSE`: calls, processes and sessions
are finite in number, and a system in which all have ended may stop. That nothing
stops too early is what the liveness properties say.

### Fairness

- `ConcurrencyQueue`: an abort runs its listeners to the end (`RunListener`), and
  holders release, as `run()` and both users do in a `finally` block.
- `ToolCalls`, `EventLoop`: promise reactions run and timers fire; the factory of
  the context settles. Nothing is assumed of handlers in `calls_deadlines`.
  `Cooperation`, in `calls_nesting`, says a handler whose own calls are done ends, and
  middlewares call `next()` or settle; that is up to the program.
- `Registration`: the library settles the promise of a notification, so that some
  round under way goes on. Nothing is assumed of clients or of the program.
- `Sessions`: the server's own handlers run; clients and the program owe nothing.
- `InstanceCoordinator`: a started process takes its next step unless killed;
  strong fairness of `WaitExpires` says a wait whose rounds find nothing reaches
  its deadline, which is a comparison with the clock in each round.
- `BackgroundLauncher`: the same of the workers; nothing of launchers, whose
  installation may hang.
- `ToolPipeline`, `RequestPath`, `CentralRegistry`: none; their properties are about
  what may not happen.

## 4. Proofs

| Module | Theorem | States |
|---|---|---|
| `ConcurrencyQueueProofs` | `TypeCorrect`, `SlotsAreAccounted`, `QueueIsTheWaiters`, `NoIdleSlot`, `AbortReachesEveryWaiter` | `[]TypeOK`, `[]SlotsAccounted`, `[]QueueHoldsWaiters`, `[]WaitersImplySaturated`, `[]AbortReachesWaiters` |
| | `NobodyOvertakes`, `CancelledGetsNoSlot` | `NoOvertaking`, `CancelledNeverGranted` |
| | `QueueIsSemaphore` | initial states and steps are those of `FifoSemaphore` |
| `ToolCallsProofs` | `TypeCorrect`, `SlotsAlwaysMatch`, `UnabortedKeepLimit`, `AbortsAlwaysCascade` | `[]TypeOK`, `[]SlotsMatchCalls`, `[]UnabortedWithinLimit`, `[]AbortCascades` |
| | `AnswersAreFinal`, `AbortsEndRetries` | `AnswerIsFinal`, `AbortEndsRetries` |
| `CoordinationProofs` | `TypeCorrect`, `LauncherTypeCorrect` | `[]TypeOK`, `[]LauncherTypeOK` |
| | `OneOwner`, `ServerIsFindable`, `StartsFailForReasons` | `[]SingleOwner`, `[]OwnerIsFindable`, `[]NoNeedlessFailure`, where `Overlap` is false |
| | `LocksAreGivenUp`, `AWorkerServes` | `[]NoAbandonedLock`, `[]SomebodyServes`, whoever overlaps |
| `SessionsProofs` | `TypeCorrect`, `MapsAlwaysAgree`, `EmptyOwnersLeave`, `SubscriptionsStay` | `[]TypeOK`, `[]MapsAgree`, `[]EmptyOwnerLeaves`, `OthersStaySubscribed` |
| | `SubscribersGetUpdates` | `SubscribersAreSent` |
| `CentralRegistryProofs` | `RegistryTyped`, `LiveServersStayListed` | `[]Typed`, `[]LiveServerListed` |
| | `CommandsAnswerCurrently`, `BystandersAreSpared` | `[]AnswersAreCurrent`, `[]BystandersLive`, where `FixedPort` is false |
| `RequestPathProofs` | `TypeCorrect`, `PatientClientsAdmitted`, `BurstsAreBounded` | `[]TypeOK`, `[]RetryAdmitted`, `[]BurstBounded` |
| | `MoreScopesKeepTools` | `VerifyToolScopes` is monotonic |
| `ToolProofs` | `CoercionIdempotent` | to coerce twice is to coerce once |
| | `SessionAndAppAgree`, `CommandLineAgrees` | the three ways of an argument agree, for every value and text |
| | `TypeCorrect`, `RegistrationsReachSessions` | of `Registration`: `[]TypeOK`, `[]OffersComplete` |
| | `PipelineTypeCorrect`, `HandlersRunOnce`, `TheLeastRecentGoes`, `RecordsMatchAnswers` | of `ToolPipeline`: `[]PipelineTypeOK`, `[]HandlerOncePerAttempt`, `[]LeastRecentFirst`, `[]RecordsAddUp` |
| | `CachedResultsAreFresh` | `HitsAreFresh` |

They hold for every value of the constants that the assumption of the module
admits (`QueueAssumption`, `CallsAssumption`, ...): limits of at least 1 where the
code refuses 0, distinct model values, and finitely many calls or sessions where a
counter counts them. `ArrayProofs` holds the lemmas about splicing, shifting,
appending and filtering that the others cite.

**Queue.** None of the first four is inductive alone, not even the types: that
`running` stays a natural number when it is decremented needs that it counts
holders, that a slot may be handed over without a new increment needs that the item
was waiting, and that a freed slot leaves nobody asleep needs that the array holds
exactly the waiters. `IInv` is their conjunction; `InitFields` and `StepFields`
are its base and step, the latter with a lemma per handler (`AcquireFields`,
`CloseFields`, `RejectFields`). `AbortReachesWaiters` needs in addition that a waiter
with a live signal has its listener registered (`WaitersListen`); `Reached` is proved
inductive relative to `IInv`. The action properties follow from `IInv` and
`GainOfSlot`, which names the two ways in which a call comes by a slot.
`QueueIsSemaphore` has a lemma per handler that gives the semaphore's step
(`AcquireRefines`, `ReleaseRefines`, `AbortRefines`) or shows that there is none
(`RejectRefines`: who is rejected left the line when the signal was aborted, by
`ListenersOwn`: an abort calls only listeners of aborted signals). The
line of the semaphore is `LiveLine`, the queue without its aborted waiters, so that
the argument is about `Only`: dropping aborted waiters leaves it alone
(`OnlyWithout`), shifting up to the first live one takes its head (`OnlySuffix`), and
an abort filters what was filtered before (`OnlyOnly`).

**Tool calls.** `IInv` has three parts besides the types. `QueuesOK` adds to
`SlotsMatchCalls` that nobody waits twice in a line, without which a hand-over would
leave a ghost of its new holder behind. `FamilyOK` says that a call heeds all that its
caller heeds, so that one abort reaches a whole subtree in one step, and a child made
afterwards is born aborted. `AnswersOK` ties `result` and `tries` to the
phases (`AnswerOK`, `LoopOK`) and says which attempts a call can have that nothing
aborted: only the one in the race, and none before or after it, unless its middlewares
are loose (`AttemptsOK`); so the handlers of such calls are among the holders of slots.
Every step that begins an attempt comes before the answer and, from the second attempt
on, before an abort: that is `AbortEndsRetries`. An abort takes several calls out of
several lines at once, which is what `Only` and its lemma `OnlyElements` are for.

**Cache, middlewares and records.** `ToolPipeline`'s specification has names of its own
(`PipelineSpec`, `stage`), so that its theorems may share a module with those about
`Registration`. `DispatchOK` makes
`HandlerOncePerAttempt` inductive: the handler of an attempt was started, once, exactly
if `dispatch` has come to the end of the pipeline, it never goes back, and no attempt
is dispatched before its time. `CacheOK` says of every entry what `HitsAreFresh` says
of a hit: it is the result of an answered call of that key, it expires when that
result's time to live is over, and no clear since covers it. `OrderOK` ties the keys of
the map to the ghost `used`. Both are arrays of distinct keys, one is what `Only` keeps
of the other, and each change of the map is one of three: some entries go
(`OnlyInOrder`), a prefix goes (`SuffixIsOnly`), or one key, taken out, comes back at the
end (`AppendInOrder`). For `RecordsAddUp` every counter is written as the number of
answered calls of some tools, by some callers, that ended in some ways (`HowMany`);
`OneMore` is the one lemma about what an answer adds to any of them.

**Coordination.** Two owners are excluded only because no two starts or shutdowns
overlap (`OneMover`); the theorems have `Overlap = FALSE` as their assumption, and
`instance_gap` shows what happens without it. The files are then decided by whoever is
under way: the lock is the owner's from the write on, and so is the state from the moment
it is up and as long as it is in sight (`FilesOfOwner`); a start that meets such an owner
touches neither file (`OwnerIsSafe`), since it comes past each of its looks only by a
check that timed out (`ChecksWereMissed`), and past the third no server is left in sight
of it (`TakersGoOn`); a takeover finds no lock between its unlink and its open, whatever
was there before, so that a start comes to its last look only by finding the server it
had missed (`TakeOverSucceeds`). `Crash` and `ReusePid` may come at any step.

**Launcher.** Here everybody overlaps. `Books` keeps who holds what: the lock file
names a worker only on that worker's way to serving, and a launcher only while it holds it,
the `finally` block of a failing installation included. `SomebodyServes` needs to know
who is left when a worker gives up. `Candidates` names that one: a worker gives way only
to a lock, the lock is that of a worker on its way or of a launcher, and a launcher that
does not throw installs a worker (`NothingThrown`). If the only launcher throws, no
worker gives way to it for good: it meets that lock once, then takes over
(`NothingInstalled`). With two launchers the second part fails, and `SomebodyServes`
says so: the worker that one of them installed may wait for its launcher's lock and
then, in its takeover, meet that of the other, whose installation throws.

**Sessions.** The maps agree by an invariant of their own (`SubscriptionsOK`): what
ends a session removes it from the sets of exactly the resources it had, so that the
second map's keys stay those with a subscriber. The owner's exit needs
that the map of sessions has none twice, and that a session that is opening has a
client and is not in it yet (`SessionsOK`). The loop of an update was sent to every
subscriber it has passed (`UpdateOK`), and ends when no open session is left that it
has not passed; a session that joins or leaves under it moves no other out of its way.

**Registry.** `Listed` says of every copy that may still be written back what
`LiveServerListed` says of the file: it has every server that is up, but for those
that registered after it was read (`CopiesRight`); what `clean` is about to delete,
and what `stop` is about to mark, is no server that the command could know to be up.
`Current` says that a command which took an entry for running had not found it gone
(`AnswersHold`), since only the entry's own server answers at its port; a pid reused by
another program is then always of a server that the command finds dead. With a fixed
port neither is true, and the theorems say so in their assumption.

**Request path.** `Patient` relates the client's sleep to the window it waits for: it
is at least as long, ticks take from both alike, and rounding up is what establishes
it. `Fair` is what bounds bursts: if a key has an open window, what passed since the
window began is counted in its entry, and what passed before it, within the length of a
window, is bounded by another maximum; if it has none, the last length of a window saw
one maximum only. The sum over ages is a recursive function, and that its equation has
exactly one solution is proved by induction in the module itself: the naturals have
least elements (`NatLeast`), and so a set of ages where the equation could fail has one
(`Induct`). The same argument gives the powers of the backoff's factor (`PowerIsNat`),
on which it rests that a client never sleeps longer than its own maximum.

**Arguments and registration.** The coercions are proved idempotent by cases on the
type; from this follows that `callTool`, which coerces before schemas that coerce
again, agrees with a session. The exceptions in the statements are the code's. For
`OffersComplete` the invariant says that the map holds exactly the open sessions, and
that a server under construction has what was there when it was made (`Reaches`). That
a round goes to a session that is there is not a matter of types alone: a round under
way has somebody left to tell (`ClientsTyped`, `UntoldElements`), or the step that told
the last, or closed it, ended it.

Model-checked only: liveness, the fairness of `FifoSemaphore` included (it
involves ENABLED, which the prover does not treat). Every invariant and action property
that a passing run checks is the statement of a theorem, and so is the type correctness
of every specification but the abstract `FifoSemaphore`.

## 5. Not modelled

Each entry of "components" says what is left out and why. In short: progress,
sampling and roots are single requests to one client; completion, media, OpenAPI,
rendering, the inspector and the installer convert or print; configuration and
logging are read or written once, with every error swallowed. In the modelled parts:
deadlines of calls may pass at any time, the contents of messages, the statistics of
the cache, the form of Retry-After that is a date, `noSingleton`, `restart`, a context
factory that throws before its first await, and errors of the file system other than
"exists" and "does not exist", and tool calls made by middlewares. Of the authentication only the mode with
`auth.validate` is modelled, and what a request's token is is a constant. The rules for
names refuse a registration before anything else happens.

## 6. Where code and documentation differ

`instance_gap` exhibits one: between creating the lock file and writing it another
process reads it as corrupt and removes it, and both become owners, where
README.md:34 speaks of atomic lock files. No property excludes two owners where starts
overlap. `SomebodyServes` in `background` is what
is left. With two launchers it is less: the worker that one installed may wait for its
launcher's lock, meet the other's when it takes over, and give up; if the other's
installation then fails, nobody serves.

Read off the code and contained in the models, but without a run of their own:

- An owner that is alive but answers three checks of one start too late loses its lock
  and state to that start (instance.ts:157-165) and serves on beside the new owner; one
  that answers the third but missed two before may let the start fail (instance.ts:179).
  docs/03-reliability/04-crash-recovery.md:23-27 describes the first for servers that do
  not respond. `SingleOwner`, `OwnerIsFindable` and `NoNeedlessFailure` name both.
- A middleware that calls `next()` late starts the handler of a call that has its answer
  (middleware.ts:63, app.ts:569); `AbortEndsRetries` is therefore about attempts.
- Nested calls skip the server's queue only. A handler that calls a tool behind the
  mutex its own call holds waits for itself; README.md:458 says such calls detect the
  parent's lock. With a deadline the calls are answered all the same
  (`calls_deadlines`).
- The helper that `createToolCallback` gives to handlers passes no signal on, so
  cancelling a call of an MCP client leaves the calls below it running;
  docs/02-core-features/02-inter-tool-calling.md:70 says it cascades. `AbortCascades`
  states what does hold.
- A subscribe request routed before the end of its session is carried out after it
  and never undone.
- `run` in the background drops a stale lock only along with a state file. A launcher
  killed between `tryAcquire` and the first server's state leaves a lock that every
  later `run` fails to take, and it then waits 20 s for nobody and throws; `start`
  (app.ts:1261) recovers from the same files. docs/03-reliability/04-crash-recovery.md:32
  promises that an orphaned lock is removed.
- The windows of the rate limiter are fixed, not sliding as README.md:43 and
  security.ts:9 say: twice the maximum may pass within one window's length, which is
  what `BurstBounded` bounds.
- A result that cannot be serialized is recorded as a success and then as an error
  (app.ts:617, 648; mcp.ts:437, 475). `RecordsAddUp` counts it twice.
- A result computed before a `clearCache` is cached after it (app.ts:632).
- `maxSize` is a tool's own, but the map is everybody's: a tool with a small cache
  evicts the entries of others (cache.ts:95), where README.md:518 calls it capacity
  per tool.
- An entry that `callTool` made has no `structuredContent`; it is keyed by the
  validated arguments there and by the given ones on the MCP route.
- A live server whose registration overlaps another process's read and write of
  `servers.json` is out of the file until it starts again (central.ts:129); with a
  fixed port, `stop` may signal a program that inherited a dead server's pid.
- A redefined tool keeps its old definition in open sessions; a tool registered while
  a session is being made is not in it until registered again (app.ts:279); the first
  tool or prompt ever, registered after a session connected, is refused by the library.
- Two templates of one name make the server of every later session fail (mcp.ts:586).
- A session does not see handlers set by `onSample` or `onListRoots` after `run()`
  (app.ts:1347, 1625); docs/02-core-features/10-sampling-and-roots.md:158 offers it
  "dynamically at runtime".
- Parameters that are zod strings or objects are coerced by `callTool` only, and it
  does not look at a property's `coerce: false`. On the command line "007" for a
  string arrives as "7"; `--no-coerce` (docs/05-runtime-and-cli/03-cli-tool-caller.md:69)
  is not handled.
- `callTool`'s helper drops the `sequential` option (app.ts:484).
- The first caller's limit of a queue stays (queue.ts:137).
- A configuration's default that does not fit its type is not refused when the tool is
  registered but converted, or refused, with each call that leaves it out.
- A session keeps the identity of its initialize request (hono.ts:461); whether a tool
  may be called is decided by that.
- A handler that outlives its deadline overlaps with its successor behind the same
  mutex; `UnabortedWithinLimit` is therefore about unaborted calls.
- `release()` of the lock checks and unlinks in two steps (lock.ts:87).
- An item that `release()` drops as aborted is never rejected if its own listener
  runs later (queue.ts:119); only callers that release in a listener meet it.
- A client that goes between its initialize request and its GET leaves a session
  that nobody removes, and the owner lives on (hono.ts:534); `OwnerExits` names it.
- A client may initialize while the owner is closing (hono.ts:472).
- A DELETE that the transport refuses still drops the session from the map, but
  leaves its subscriptions (hono.ts:556).
- Shutdown does not wait for calls under way.

## 7. What is left to do

1. `restart` and `stop` of a background service in `BackgroundLauncher`, together with
   the registry of `CentralRegistry`: both remove files whoever holds them.
2. The session that `sample` and `listRoots` choose, and the forwarding of the stdio
   proxy, with `Sessions`.

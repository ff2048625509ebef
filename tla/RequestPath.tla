---------------------------- MODULE RequestPath -----------------------------
(***************************************************************************)
(* What an HTTP request to /mcp passes before a tool's handler runs: the   *)
(* rate limiter and the authentication of src/server/hono.ts, the session  *)
(* and its identity, and the tool's scopes (src/utils/security.ts); and    *)
(* the client behind it, a tool that calls this server with the retries of *)
(* src/utils/retry.ts.                                                     *)
(*                                                                         *)
(* Times are kept relative to now, so that nothing bounds how long a       *)
(* behaviour goes on.                                                      *)
(***************************************************************************)
EXTENDS Integers, Sequences, FiniteSets

CONSTANTS Clients,          \* programs that send requests
          Keys, KeyOf,      \* a client's token, or its address without one
          Max, Window,      \* rateLimit.max and rateLimit.windowMs
          Second,           \* how many units of time a second has
          Retries,          \* how often a client tries again
          Backoff, Factor,  \* retry.backoffMs and retry.factor
          MaxBackoff,       \* retry.maxBackoffMs
          Jitter,           \* whether half of a backoff is random
          Grants,           \* the lists of scopes auth.validate may give
          Tools, Scopes,    \* a tool's required scopes: none, or a list
          Nobody            \* no session, no entry

\* A window of a key: the requests counted in it, and the time to its end.
Entries == [count : 1 .. Max + 1, left : 0 .. Window]

ASSUME PathAssumption ==
    /\ KeyOf \in [Clients -> Keys]
    /\ Max \in Nat \ {0} /\ Window \in Nat \ {0} /\ Second \in Nat \ {0}
    /\ Retries \in Nat /\ Backoff \in Nat /\ Factor \in Nat /\ MaxBackoff \in Nat
    /\ Jitter \in BOOLEAN
    /\ Nobody \notin Grants \cup Tools
    /\ Nobody \notin Entries

VARIABLES limiter,   \* the entry of each key: its count, and the time to its reset
          phase,     \* where a client's request is
          wait,      \* how long its client still sleeps before the next attempt
          tries,     \* the attempts that failed
          granted,   \* the scopes auth.validate gave for the request
          session,   \* the identity each client's session was made with
          tool,      \* the tool a client's request runs
          passes,    \* requests of each key let through, by their age
          owed       \* whether a client was told when to come back, and nobody
                     \* has used its key since

vars == <<limiter, phase, wait, tries, granted, session, tool, passes, owed>>

Ages == 0 .. Window - 1
NoPasses == [a \in Ages |-> 0]

-----------------------------------------------------------------------------
\* verifyToolScopes.  A scope is the sequence of its parts: db:read, db:*, admin.
Covers(scope, required) ==
    \/ scope = required
    \/ /\ Len(scope) > 1 /\ scope[Len(scope)] = "*"
       /\ Len(required) >= Len(scope)
       /\ \A i \in 1 .. Len(scope) - 1 : scope[i] = required[i]

IsSuperuser(scopes) == <<"*">> \in scopes \/ <<"admin">> \in scopes

VerifyToolScopes(required, scopes) ==
    \/ required = {}
    \/ IsSuperuser(scopes)
    \/ \A r \in required : \E s \in scopes : Covers(s, r)

-----------------------------------------------------------------------------
\* Mutant: the seconds are rounded down.
BugRoundDown(time) == (time \div Second) * Second

\* Retry-After: the time to the reset, in whole seconds.
RetryAfter(time) == ((time + Second - 1) \div Second) * Second

AtMost(time, limit) == IF time > limit THEN limit ELSE time

\* The factor of a backoff after so many attempts.
Power[n \in 0 .. Retries] == IF n = 0 THEN 1 ELSE Factor * Power[n - 1]

\* computeBackoffDelay
BackoffDelays(attempt) ==
    LET calculated == AtMost(Backoff * Power[attempt - 1], MaxBackoff)
    IN  IF Jitter THEN (calculated + 1) \div 2 .. calculated ELSE {calculated}

\* extractRetryAfterMs finds the header's seconds; the delay is that, up to a limit.
RetryDelay(retryAfter) == AtMost(retryAfter, MaxBackoff)

-----------------------------------------------------------------------------
TypeOK ==
    /\ limiter \in [Keys -> Entries \cup {Nobody}]
    /\ phase \in [Clients -> {"idle", "validating", "routed", "running", "waiting"}]
    /\ wait \in [Clients -> 0 .. MaxBackoff]
    /\ tries \in [Clients -> 0 .. Retries]
    /\ granted \in [Clients -> Grants \cup {Nobody}]
    /\ session \in [Clients -> Grants \cup {Nobody}]
    /\ tool \in [Clients -> Tools \cup {Nobody}]
    /\ passes \in [Keys -> [Ages -> Nat]]
    /\ owed \in [Clients -> BOOLEAN]

Init ==
    /\ limiter = [k \in Keys |-> Nobody]
    /\ phase = [c \in Clients |-> "idle"]
    /\ wait = [c \in Clients |-> 0]
    /\ tries = [c \in Clients |-> 0]
    /\ granted = [c \in Clients |-> Nobody]
    /\ session = [c \in Clients |-> Nobody]
    /\ tool = [c \in Clients |-> Nobody]
    /\ passes = [k \in Keys |-> NoPasses]
    /\ owed = [c \in Clients |-> FALSE]

\* The window of an entry is over.
IsOver(entry) == entry = Nobody \/ entry.left = 0

\* RateLimiter.check.  A count above the maximum tells no more than one above it.
Counted(k) ==
    IF IsOver(limiter[k]) THEN [count |-> 1, left |-> Window]
    ELSE [limiter[k] EXCEPT !.count = AtMost(@ + 1, Max + 1)]

Use(c) ==
    /\ limiter' = [limiter EXCEPT ![KeyOf[c]] = Counted(KeyOf[c])]
    /\ owed' = [d \in Clients |-> owed[d] /\ KeyOf[d] # KeyOf[c]]

\* A request is sent: the first one, or another attempt after the delay.
MaySend(c) == phase[c] \in {"idle", "waiting"} /\ wait[c] = 0

\* The rate limiter lets the request through to the authentication.
Admit(c) ==
    /\ MaySend(c)
    /\ Counted(KeyOf[c]).count <= Max
    /\ Use(c)
    /\ passes' = [passes EXCEPT ![KeyOf[c]][0] = @ + 1]
    /\ phase' = [phase EXCEPT ![c] = "validating"]
    /\ wait' = [wait EXCEPT ![c] = 0]
    /\ UNCHANGED <<tries, granted, session, tool>>

\* executeWithRetry: the attempt failed and another may follow after a delay.
TryLater(c, delay) ==
    /\ tries[c] < Retries
    /\ tries' = [tries EXCEPT ![c] = @ + 1]
    /\ phase' = [phase EXCEPT ![c] = "waiting"]
    /\ wait' = [wait EXCEPT ![c] = delay]

GiveUp(c) ==
    /\ tries[c] = Retries
    /\ tries' = [tries EXCEPT ![c] = 0]
    /\ phase' = [phase EXCEPT ![c] = "idle"]
    /\ wait' = [wait EXCEPT ![c] = 0]

\* 429 with a Retry-After header, which the client's next delay respects up to
\* its own maximum.
Reject(c) ==
    /\ MaySend(c)
    /\ Counted(KeyOf[c]).count > Max
    /\ limiter' = [limiter EXCEPT ![KeyOf[c]] = Counted(KeyOf[c])]
    /\ LET told == RetryAfter(limiter[KeyOf[c]].left)
       IN  /\ TryLater(c, RetryDelay(told)) \/ GiveUp(c)
           /\ owed' = [d \in Clients |->
                  IF d = c THEN tries[c] < Retries /\ told <= MaxBackoff
                           ELSE owed[d] /\ KeyOf[d] # KeyOf[c]]
    /\ UNCHANGED <<granted, session, tool, passes>>

\* auth.validate gives the token's identity, as it is now ...
Validate(c, scopes) ==
    /\ phase[c] = "validating"
    /\ granted' = [granted EXCEPT ![c] = scopes]
    /\ phase' = [phase EXCEPT ![c] = "routed"]
    /\ UNCHANGED <<limiter, wait, tries, session, tool, passes, owed>>

\* ... or refuses it: 401, which tells nothing about when to come back.
Refuse(c) ==
    /\ phase[c] = "validating"
    /\ GiveUp(c) \/ \E delay \in BackoffDelays(tries[c] + 1) : TryLater(c, delay)
    /\ UNCHANGED <<limiter, granted, session, tool, passes, owed>>

\* The request is answered: nothing is left of it.
Answered(c) ==
    /\ phase' = [phase EXCEPT ![c] = "idle"]
    /\ tries' = [tries EXCEPT ![c] = 0]
    /\ granted' = [granted EXCEPT ![c] = Nobody]
    /\ tool' = [tool EXCEPT ![c] = Nobody]
    /\ UNCHANGED <<limiter, wait, passes, owed>>

\* An initialize request: the session is made with the identity of its request.
Initialize(c) ==
    /\ phase[c] = "routed"
    /\ session' = [session EXCEPT ![c] = granted[c]]
    /\ Answered(c)

\* Who a call is made for: a session keeps the identity it was made with; a call
\* without one is its request's own.
Identity(c) == IF session[c] # Nobody THEN session[c] ELSE granted[c]

\* A tools/call request runs the tool ...
CallTool(c, t) ==
    /\ phase[c] = "routed"
    /\ VerifyToolScopes(Scopes[t], Identity(c))
    /\ phase' = [phase EXCEPT ![c] = "running"]
    /\ tool' = [tool EXCEPT ![c] = t]
    /\ UNCHANGED <<limiter, wait, tries, granted, session, passes, owed>>

\* ... or is answered with an error the client does not retry.
Forbid(c, t) ==
    /\ phase[c] = "routed"
    /\ ~VerifyToolScopes(Scopes[t], Identity(c))
    /\ UNCHANGED session
    /\ Answered(c)

Return(c) ==
    /\ phase[c] = "running"
    /\ UNCHANGED session
    /\ Answered(c)

\* The client ends its session.
EndSession(c) ==
    /\ phase[c] = "routed"
    /\ session[c] # Nobody
    /\ session' = [session EXCEPT ![c] = Nobody]
    /\ Answered(c)

\* Mutant: the sweep takes entries whose window is still open.
BugSweepAll(k) == limiter[k] # Nobody

Sweepable(k) == limiter[k] # Nobody /\ IsOver(limiter[k])

\* cleanup, the limiter's timer.
Cleanup ==
    /\ \E k \in Keys : Sweepable(k)
    /\ limiter' = [k \in Keys |-> IF Sweepable(k) THEN Nobody ELSE limiter[k]]
    /\ UNCHANGED <<phase, wait, tries, granted, session, tool, passes, owed>>

Less(time) == IF time > 0 THEN time - 1 ELSE 0

Tick ==
    /\ limiter' = [k \in Keys |->
           IF limiter[k] = Nobody THEN Nobody ELSE [limiter[k] EXCEPT !.left = Less(@)]]
    /\ wait' = [c \in Clients |-> Less(wait[c])]
    /\ passes' = [k \in Keys |-> [a \in Ages |-> IF a = 0 THEN 0 ELSE passes[k][a - 1]]]
    /\ UNCHANGED <<phase, tries, granted, session, tool, owed>>

Step(c) ==
    \/ Admit(c) \/ Reject(c)
    \/ \E scopes \in Grants : Validate(c, scopes)
    \/ Refuse(c) \/ Initialize(c) \/ EndSession(c)
    \/ \E t \in Tools : CallTool(c, t) \/ Forbid(c, t)
    \/ Return(c)

Next == (\E c \in Clients : Step(c)) \/ Cleanup \/ Tick

Spec == Init /\ [][Next]_vars

-----------------------------------------------------------------------------
\* The requests let through that are no older than an age.
UpTo(byAge) ==
    LET upTo[a \in Ages] == byAge[a] + IF a = 0 THEN 0 ELSE upTo[a - 1]
    IN  upTo

\* Within any interval of a window's length a key has at most twice its maximum of
\* requests let through: the windows are fixed, each starts with the first request
\* after the last, and two of them may meet in the interval.
BurstBounded == \A k \in Keys : UpTo(passes[k])[Window - 1] <= 2 * Max

\* A client that was told when to come back, comes back no sooner and shares its
\* key with nobody who used it meanwhile, is let through.
RetryAdmitted ==
    \A c \in Clients :
        phase[c] = "waiting" /\ wait[c] = 0 /\ owed[c] => IsOver(limiter[KeyOf[c]])
=============================================================================

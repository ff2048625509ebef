-------------------------- MODULE RequestPathProofs --------------------------
(***************************************************************************)
(* What the path of a request guarantees for any number of clients and any *)
(* limits: a client that keeps to Retry-After is let through, and no key   *)
(* gets more than two maxima through in an interval of a window's length.  *)
(* The last is about sums over ages, and the types about powers of the     *)
(* backoff's factor, both recursive functions: that their equations have a *)
(* solution, and one only, is shown by induction, over the least number at *)
(* which they could fail.                                                  *)
(***************************************************************************)
EXTENDS RequestPath, FiniteSetTheorems, TLAPS

\* More scopes never take a tool away.
THEOREM MoreScopesKeepTools ==
    ASSUME NEW required, NEW scopes, NEW others, scopes \subseteq others,
           VerifyToolScopes(required, scopes)
    PROVE  VerifyToolScopes(required, others)
BY DEF VerifyToolScopes, IsSuperuser

\* Whole seconds rounded up end no sooner than the time they stand for.
LEMMA RoundedUp ==
    ASSUME Second \in Nat \ {0}, NEW time \in Nat
    PROVE  RetryAfter(time) \in Nat /\ RetryAfter(time) >= time
<1> DEFINE seconds == (time + Second - 1) \div Second
<1>1. seconds \in Nat /\ time + Second - 1 < seconds * Second + Second
  BY SMT
<1>2. seconds * Second \in Nat
  BY <1>1
<1>3. QED
  BY <1>1, <1>2 DEF RetryAfter

\* Time that passes keeps the order of what is left.
LEMMA LessKeepsOrder ==
    ASSUME NEW m \in Nat, NEW n \in Nat
    PROVE  /\ Less(m) \in Nat /\ Less(m) <= m
           /\ m <= n => Less(m) <= Less(n)
BY DEF Less

\* The limiter has an entry of a key, or none.
EntriesOK == limiter \in [Keys -> Entries \cup {Nobody}]

\* A client that was told when to come back sleeps at least as long as the window
\* of its key lasts.
Promised ==
    /\ owed \in [Clients -> BOOLEAN]
    /\ DOMAIN wait = Clients /\ DOMAIN phase = Clients
    /\ \A c \in Clients : owed[c] =>
          /\ phase[c] = "waiting"
          /\ wait[c] \in Nat
          /\ limiter[KeyOf[c]] # Nobody => limiter[KeyOf[c]].left <= wait[c]

Patient == EntriesOK /\ Promised

\* What a request does to the entry of its key.
LEMMA CountedEntry ==
    ASSUME EntriesOK, NEW k \in Keys
    PROVE  /\ Counted(k) \in Entries
           /\ Counted(k).count > Max => ~IsOver(limiter[k]) /\ Counted(k).left = limiter[k].left
<1> USE PathAssumption DEF EntriesOK, Entries
<1>1. CASE IsOver(limiter[k])
  BY <1>1 DEF Counted
<1>2. CASE ~IsOver(limiter[k])
  <2>1. limiter[k] \in Entries
    BY <1>2 DEF IsOver
  <2>2. Counted(k) = [limiter[k] EXCEPT !.count = AtMost(limiter[k].count + 1, Max + 1)]
    BY <1>2 DEF Counted
  <2>3. AtMost(limiter[k].count + 1, Max + 1) \in 1 .. Max + 1
    BY <2>1 DEF AtMost
  <2>4. QED
    BY <1>2, <2>1, <2>2, <2>3
<1>3. QED
  BY <1>1, <1>2

LEMMA InitPatient == Init => Patient
BY PathAssumption DEF Init, Patient, EntriesOK, Promised

LEMMA StepPatient ==
    ASSUME Patient, [Next]_vars
    PROVE  Patient'
<1> USE PathAssumption DEF Patient, EntriesOK, Promised
<1>1. ASSUME NEW c \in Clients, Admit(c)
      PROVE  Patient'
  <2>1. Counted(KeyOf[c]) \in Entries
    BY CountedEntry
  <2>2. QED
    BY <1>1, <2>1 DEF Admit, Use, MaySend
<1>2. ASSUME NEW c \in Clients, Reject(c)
      PROVE  Patient'
  <2> DEFINE k == KeyOf[c]
             told == RetryAfter(limiter[k].left)
  <2>1. /\ Counted(k) \in Entries
        /\ ~IsOver(limiter[k]) /\ Counted(k).left = limiter[k].left
    BY <1>2, CountedEntry DEF Reject
  <2>2. told \in Nat /\ told >= limiter[k].left /\ limiter[k].left \in Nat
    BY <2>1, RoundedUp DEF IsOver, Entries
  <2>3. limiter' = [limiter EXCEPT ![k] = Counted(k)]
    BY <1>2 DEF Reject
  <2>4. /\ TryLater(c, RetryDelay(told)) \/ GiveUp(c)
        /\ owed' = [d \in Clients |->
               IF d = c THEN tries[c] < Retries /\ told <= MaxBackoff
                        ELSE owed[d] /\ KeyOf[d] # k]
    BY <1>2 DEF Reject
  <2> HIDE DEF told
  <2>5. ASSUME owed'[c]
        PROVE  wait' = [wait EXCEPT ![c] = told] /\ phase' = [phase EXCEPT ![c] = "waiting"]
    <3>1. tries[c] < Retries /\ told <= MaxBackoff
      BY <2>4, <2>5
    <3>2. RetryDelay(told) = told
      BY <2>2, <3>1 DEF RetryDelay, AtMost
    <3>3. ~GiveUp(c)
      BY <3>1 DEF GiveUp
    <3>4. QED
      BY <2>4, <3>2, <3>3 DEF TryLater
  <2>6. /\ \A d \in Clients : d # c => wait'[d] = wait[d] /\ phase'[d] = phase[d]
        /\ DOMAIN wait' = Clients /\ DOMAIN phase' = Clients
    BY <2>4 DEF TryLater, GiveUp
  <2>7. EntriesOK'
    BY <2>1, <2>3
  <2>8. owed' \in [Clients -> BOOLEAN]
    BY <2>4
  <2>9. ASSUME NEW d \in Clients, owed'[d]
        PROVE  /\ phase'[d] = "waiting"
               /\ wait'[d] \in Nat
               /\ limiter'[KeyOf[d]] # Nobody => limiter'[KeyOf[d]].left <= wait'[d]
    <3>1. CASE d = c
      BY <2>1, <2>2, <2>3, <2>5, <2>9, <3>1
    <3>2. CASE d # c
      <4>1. owed[d] /\ KeyOf[d] # k
        BY <2>4, <2>9, <3>2
      <4>2. limiter'[KeyOf[d]] = limiter[KeyOf[d]]
        BY <2>3, <4>1
      <4>3. QED
        BY <2>6, <3>2, <4>1, <4>2
    <3>3. QED
      BY <3>1, <3>2
  <2>10. QED
    BY <2>6, <2>7, <2>8, <2>9
<1>3. ASSUME NEW c \in Clients, NEW scopes \in Grants, Validate(c, scopes)
      PROVE  Patient'
  BY <1>3 DEF Validate
<1>4. ASSUME NEW c \in Clients, Refuse(c)
      PROVE  Patient'
  BY <1>4 DEF Refuse, GiveUp, TryLater
<1>5. ASSUME NEW c \in Clients, Answered(c), phase[c] \in {"routed", "running"}
      PROVE  Patient'
  BY <1>5 DEF Answered
<1>6. ASSUME NEW c \in Clients, Initialize(c) \/ EndSession(c) \/ Return(c)
      PROVE  Patient'
  BY <1>5, <1>6 DEF Initialize, EndSession, Return
<1>7. ASSUME NEW c \in Clients, NEW t \in Tools, CallTool(c, t) \/ Forbid(c, t)
      PROVE  Patient'
  <2>1. CASE CallTool(c, t)
    BY <2>1 DEF CallTool
  <2>2. CASE Forbid(c, t)
    BY <1>5, <2>2 DEF Forbid
  <2>3. QED
    BY <1>7, <2>1, <2>2
<1>8. CASE Cleanup
  BY <1>8 DEF Cleanup
<1>9. CASE Tick
  <2>1. ASSUME NEW k \in Keys, limiter[k] # Nobody
        PROVE  /\ limiter'[k] = [limiter[k] EXCEPT !.left = Less(limiter[k].left)]
               /\ limiter[k].left \in 0 .. Window /\ limiter[k].count \in 1 .. Max + 1
    BY <1>9, <2>1 DEF Tick, Entries
  <2>2. \A k \in Keys : limiter[k] = Nobody => limiter'[k] = Nobody
    BY <1>9 DEF Tick
  <2>3. EntriesOK'
    <3>1. limiter' = [k \in Keys |-> limiter'[k]]
      BY <1>9 DEF Tick
    <3>2. ASSUME NEW k \in Keys PROVE limiter'[k] \in Entries \cup {Nobody}
      <4>1. CASE limiter[k] = Nobody
        BY <2>2, <4>1
      <4>2. CASE limiter[k] # Nobody
        <5>1. limiter[k] \in Entries
          BY <4>2
        <5>2. Less(limiter[k].left) \in 0 .. Window
          <6>1. limiter[k].left \in Nat /\ limiter[k].left <= Window
            BY <5>1 DEF Entries
          <6>2. QED
            BY <6>1, LessKeepsOrder
        <5>3. QED
          BY <2>1, <4>2, <5>1, <5>2 DEF Entries
      <4>3. QED
        BY <4>1, <4>2
    <3>3. QED
      BY <3>1, <3>2
  <2>4. ASSUME NEW c \in Clients, owed[c]
        PROVE  /\ wait'[c] \in Nat
               /\ limiter'[KeyOf[c]] # Nobody => limiter'[KeyOf[c]].left <= wait'[c]
    <3>1. wait'[c] = Less(wait[c]) /\ wait[c] \in Nat /\ KeyOf[c] \in Keys
      BY <1>9, <2>4 DEF Tick
    <3>2. CASE limiter[KeyOf[c]] = Nobody
      BY <2>2, <3>1, <3>2 DEF Less
    <3>3. CASE limiter[KeyOf[c]] # Nobody
      <4>1. limiter[KeyOf[c]].left <= wait[c] /\ limiter[KeyOf[c]] \in Entries
        BY <2>4, <3>1, <3>3
      <4>2. limiter[KeyOf[c]].left \in Nat
        BY <4>1 DEF Entries
      <4>3. limiter'[KeyOf[c]] = [limiter[KeyOf[c]] EXCEPT !.left = Less(limiter[KeyOf[c]].left)]
        BY <2>1, <3>1, <3>3
      <4>4. limiter'[KeyOf[c]].left = Less(limiter[KeyOf[c]].left)
        BY <4>1, <4>3 DEF Entries
      <4>5. QED
        BY <3>1, <4>1, <4>2, <4>4, LessKeepsOrder
    <3>4. QED
      BY <3>2, <3>3
  <2>5. QED
    BY <1>9, <2>3, <2>4 DEF Tick
<1>10. CASE UNCHANGED vars
  BY <1>10 DEF vars
<1>11. QED
  BY <1>1, <1>2, <1>3, <1>4, <1>6, <1>7, <1>8, <1>9, <1>10 DEF Next, Step

\* A client that was told when to come back, kept to it and shared its key with
\* nobody meanwhile finds its window over.
THEOREM PatientClientsAdmitted == Spec => []RetryAdmitted
<1>1. Patient => RetryAdmitted
  BY PathAssumption DEF Patient, Promised, EntriesOK, Entries, RetryAdmitted, IsOver
<1>2. QED
  BY <1>1, InitPatient, StepPatient, PTL DEF Spec

-----------------------------------------------------------------------------
\* A set of natural numbers that is not empty has a least element ...
LEMMA NatLeast ==
  ASSUME NEW T, T \subseteq Nat, T # {}
  PROVE \E m \in T : \A n \in T : m <= n
<1> DEFINE U == {0..n : n \in T}
<1>1. U \subseteq FiniteSubsetsOf(Nat) /\ U # {}
  <2>1. ASSUME NEW n \in T PROVE 0..n \in FiniteSubsetsOf(Nat)
    BY n \in Nat, FS_Interval DEF FiniteSubsetsOf
  <2>2. QED
    BY <2>1
<1>2. PICK x \in U : \A y \in U : ~(<<y, x>> \in StrictSubsetOrdering(Nat))
  BY <1>1, WFMin, FS_StrictSubsetOrderingWellFounded
<1>3. PICK m \in T : x = 0..m
  OBVIOUS
<1>4. ASSUME NEW n \in T, n < m PROVE FALSE
  <2>1. n \in Nat /\ m \in Nat
    OBVIOUS
  <2>2. 0..n \subseteq 0..m /\ m \in 0..m /\ m \notin 0..n /\ 0..n \subseteq Nat /\ 0..m \subseteq Nat
    BY <1>4, <2>1
  <2>3. <<0..n, 0..m>> \in StrictSubsetOrdering(Nat)
    BY <2>2 DEF StrictSubsetOrdering
  <2>4. QED
    BY <1>2, <1>3, <2>3
<1>5. QED
  BY <1>4

\* ... so a set that has 0, and with a number the next, has all of them.
LEMMA Induct ==
  ASSUME NEW T, 0 \in T, \A n \in Nat : n \in T => n + 1 \in T
  PROVE Nat \subseteq T
<1> DEFINE U == Nat \ T
<1>1. SUFFICES ASSUME U # {} PROVE FALSE
  OBVIOUS
<1>2. PICK m \in U : \A n \in U : m <= n
  BY <1>1, NatLeast
<1>3. m # 0 /\ m - 1 \in Nat /\ m - 1 \in T
  BY <1>2
<1>4. QED
  BY <1>2, <1>3

\* The equation that defines UpTo: each age's sum adds its own to the sum before.
Sums(u, h) == u = [a \in Ages |-> h[a] + IF a = 0 THEN 0 ELSE u[a - 1]]

\* It has no two solutions ...
LEMMA OnlyOneSum ==
    ASSUME NEW h \in [Ages -> Nat], NEW u, NEW v, Sums(u, h), Sums(v, h)
    PROVE  u = v
<1> USE PathAssumption DEF Ages
<1> DEFINE T == {n \in Nat : \A a \in Ages : a <= n => u[a] = v[a]}
<1>0. /\ DOMAIN u = Ages /\ \A a \in Ages : u[a] = h[a] + IF a = 0 THEN 0 ELSE u[a - 1]
      /\ DOMAIN v = Ages /\ \A a \in Ages : v[a] = h[a] + IF a = 0 THEN 0 ELSE v[a - 1]
      /\ u = [a \in Ages |-> u[a]] /\ v = [a \in Ages |-> v[a]]
  BY DEF Sums
<1>1. 0 \in T
  <2>1. 0 \in Ages /\ \A a \in Ages : a <= 0 => a = 0
    OBVIOUS
  <2>2. u[0] = h[0] + 0 /\ v[0] = h[0] + 0
    BY <1>0, <2>1
  <2>3. QED
    BY <2>1, <2>2
<1>2. ASSUME NEW n \in Nat, n \in T PROVE n + 1 \in T
  <2>1. ASSUME NEW a \in Ages, a <= n + 1 PROVE u[a] = v[a]
    <3>1. CASE a <= n
      BY <1>2, <3>1
    <3>2. CASE a = n + 1
      <4>1. n \in Ages /\ u[n] = v[n] /\ a # 0 /\ a - 1 = n
        BY <1>2, <3>2
      <4>2. QED
        BY <1>0, <4>1
    <3>3. QED
      BY <2>1, <3>1, <3>2
  <2>2. QED
    BY <2>1
<1>3. Nat \subseteq T
  <2> HIDE DEF T
  <2>1. QED
    BY <1>1, <1>2, Induct
<1>4. \A a \in Ages : u[a] = v[a]
  <2>1. Window - 1 \in T
    <3>1. Window - 1 \in Nat
      OBVIOUS
    <3> HIDE DEF T
    <3>2. QED
      BY <1>3, <3>1
  <2>2. QED
    BY <2>1
<1>5. QED
  BY <1>0, <1>4

\* ... and one it has, which is UpTo.
LEMMA UpToSums ==
    ASSUME NEW h \in [Ages -> Nat]
    PROVE  UpTo(h) \in [Ages -> Nat] /\ Sums(UpTo(h), h)
<1> USE PathAssumption DEF Ages
<1> DEFINE Right(f, n) == \A a \in Ages : a <= n => f[a] = h[a] + IF a = 0 THEN 0 ELSE f[a - 1]
           T == {n \in Nat : \E f \in [Ages -> Nat] : Right(f, n)}
<1>1. 0 \in T
  <2>1. Right(h, 0) /\ h \in [Ages -> Nat]
    OBVIOUS
  <2>2. QED
    BY <2>1
<1>2. ASSUME NEW n \in Nat, n \in T PROVE n + 1 \in T
  <2>1. PICK f \in [Ages -> Nat] : Right(f, n)
    BY <1>2
  <2>2. CASE n + 1 \in Ages
    <3> DEFINE g == [f EXCEPT ![n + 1] = h[n + 1] + f[n]]
    <3>1. n \in Ages /\ h[n + 1] + f[n] \in Nat /\ g \in [Ages -> Nat]
      BY <2>2
    <3>2. ASSUME NEW a \in Ages, a <= n + 1
          PROVE  g[a] = h[a] + IF a = 0 THEN 0 ELSE g[a - 1]
      <4>1. CASE a = n + 1
        BY <2>2, <3>1, <4>1
      <4>2. CASE a # n + 1
        <5>1. a <= n /\ g[a] = f[a] /\ (a # 0 => a - 1 \in Ages /\ g[a - 1] = f[a - 1])
          BY <3>2, <4>2
        <5>2. QED
          BY <2>1, <5>1
      <4>3. QED
        BY <4>1, <4>2
    <3>3. Right(g, n + 1)
      BY <3>2
    <3> HIDE DEF Right, g
    <3>4. QED
      BY <3>1, <3>3
  <2>3. CASE n + 1 \notin Ages
    <3>1. Right(f, n + 1)
      BY <2>1, <2>3
    <3> HIDE DEF Right
    <3>2. QED
      BY <3>1
  <2>4. QED
    BY <2>2, <2>3
<1>3. Window - 1 \in T
  <2>1. Nat \subseteq T
    <3> HIDE DEF T
    <3>1. QED
      BY <1>1, <1>2, Induct
  <2>2. Window - 1 \in Nat
    OBVIOUS
  <2> HIDE DEF T
  <2>3. QED
    BY <2>1, <2>2
<1>4. PICK f \in [Ages -> Nat] : Right(f, Window - 1)
  BY <1>3
<1>5. Sums(f, h)
  BY <1>4 DEF Sums
<1>6. UpTo(h) = CHOOSE u : Sums(u, h)
  BY DEF UpTo, Sums
<1>7. Sums(UpTo(h), h)
  BY <1>5, <1>6
<1>8. UpTo(h) = f
  BY <1>5, <1>7, OnlyOneSum
<1>9. QED
  BY <1>7, <1>8

\* What UpTo is at an age.
LEMMA SumAt ==
    ASSUME NEW h \in [Ages -> Nat], NEW a \in Ages
    PROVE  /\ UpTo(h)[a] \in Nat
           /\ a = 0 => UpTo(h)[a] = h[0]
           /\ a # 0 => a - 1 \in Ages /\ UpTo(h)[a] = h[a] + UpTo(h)[a - 1]
<1> DEFINE u == UpTo(h)
<1>1. u \in [Ages -> Nat] /\ Sums(u, h)
  BY UpToSums
<1>2. a # 0 => a - 1 \in Ages
  BY PathAssumption DEF Ages
<1> HIDE DEF u
<1>3. u[a] = h[a] + IF a = 0 THEN 0 ELSE u[a - 1]
  BY <1>1 DEF Sums
<1>4. /\ u[a] \in Nat /\ h[a] \in Nat
      /\ a = 0 => u[a] = h[0]
      /\ a # 0 => u[a] = h[a] + u[a - 1]
  BY <1>1, <1>3
<1>5. QED
  BY <1>2, <1>4 DEF u

\* No passes add up to none.
LEMMA SumOfNone ==
    \A a \in Ages : UpTo(NoPasses)[a] = 0
<1> DEFINE v == [a \in Ages |-> 0]
<1>1. NoPasses \in [Ages -> Nat]
  BY DEF NoPasses
<1>2. Sums(v, NoPasses)
  BY PathAssumption DEF Sums, NoPasses, Ages
<1>3. UpTo(NoPasses) = v
  BY <1>1, <1>2, UpToSums, OnlyOneSum
<1>4. QED
  BY <1>3

\* One more pass, made now, adds one to the sum up to any age.
LEMMA SumOfOneMore ==
    ASSUME NEW h \in [Ages -> Nat]
    PROVE  \A a \in Ages : UpTo([h EXCEPT ![0] = @ + 1])[a] = UpTo(h)[a] + 1
<1> DEFINE u == UpTo(h)
           g == [h EXCEPT ![0] = @ + 1]
           v == [a \in Ages |-> u[a] + 1]
<1>1. g \in [Ages -> Nat]
  BY PathAssumption DEF Ages
<1>2. \A a \in Ages : v[a] = g[a] + IF a = 0 THEN 0 ELSE v[a - 1]
  <2>1. ASSUME NEW a \in Ages PROVE v[a] = g[a] + IF a = 0 THEN 0 ELSE v[a - 1]
    <3>1. /\ u[a] \in Nat
          /\ a = 0 => u[a] = h[0]
          /\ a # 0 => a - 1 \in Ages /\ u[a] = h[a] + u[a - 1]
      BY SumAt
    <3>2. h[a] \in Nat /\ g[a] = IF a = 0 THEN h[0] + 1 ELSE h[a]
      BY PathAssumption DEF Ages
    <3>3. a # 0 => u[a - 1] \in Nat
      BY <3>1, SumAt
    <3> HIDE DEF u, g
    <3>4. QED
      BY <3>1, <3>2, <3>3
  <2>2. QED
    BY <2>1
<1>3. Sums(v, g)
  <2> HIDE DEF g, u
  <2>1. QED
    BY <1>2 DEF Sums
<1>4. UpTo(g) = v
  BY <1>1, <1>3, UpToSums, OnlyOneSum
<1>5. QED
  BY <1>4

\* Passes a unit of time later.
Older(h) == [a \in Ages |-> IF a = 0 THEN 0 ELSE h[a - 1]]

\* Then the sum up to an age is the one that was up to the age before.
LEMMA SumOfOlder ==
    ASSUME NEW h \in [Ages -> Nat]
    PROVE  /\ Older(h) \in [Ages -> Nat]
           /\ \A a \in Ages : UpTo(Older(h))[a] = IF a = 0 THEN 0 ELSE UpTo(h)[a - 1]
<1> DEFINE u == UpTo(h)
           g == Older(h)
           v == [a \in Ages |-> IF a = 0 THEN 0 ELSE u[a - 1]]
<1>1. g \in [Ages -> Nat]
  BY PathAssumption DEF Ages, Older
<1>2. \A a \in Ages : v[a] = g[a] + IF a = 0 THEN 0 ELSE v[a - 1]
  <2>1. ASSUME NEW a \in Ages PROVE v[a] = g[a] + IF a = 0 THEN 0 ELSE v[a - 1]
    <3>1. CASE a = 0
      BY <3>1 DEF Older
    <3>2. CASE a # 0
      <4>1. a - 1 \in Ages /\ a \in Nat
        BY <3>2, PathAssumption DEF Ages
      <4>2. /\ u[a - 1] \in Nat
            /\ a - 1 = 0 => u[a - 1] = h[0]
            /\ a - 1 # 0 => a - 1 - 1 \in Ages /\ u[a - 1] = h[a - 1] + u[a - 1 - 1]
        BY <4>1, SumAt
      <4>3. g[a] = h[a - 1] /\ h[a - 1] \in Nat
        BY <3>2, <4>1 DEF Older
      <4>4. v[a] = u[a - 1] /\ v[a - 1] = IF a - 1 = 0 THEN 0 ELSE u[a - 1 - 1]
        BY <3>2, <4>1
      <4> HIDE DEF u, g, v
      <4>5. QED
        BY <3>2, <4>1, <4>2, <4>3, <4>4
    <3>3. QED
      BY <3>1, <3>2
  <2>2. QED
    BY <2>1
<1>3. Sums(v, g)
  <2> HIDE DEF g, u
  <2>1. QED
    BY <1>2 DEF Sums
<1>4. UpTo(g) = v
  BY <1>1, <1>3, UpToSums, OnlyOneSum
<1>5. QED
  BY <1>1, <1>4

-----------------------------------------------------------------------------
\* The passes of each key are counted by their age.
PassesOK == passes \in [Keys -> [Ages -> Nat]]
\* The requests of a key let through within an age, and the age of its window.
Sent(k, a) == UpTo(passes[k])[a]
Started(k) == Window - limiter[k].left

\* Where a key has no open window, the last Window units of time saw no more than
\* its maximum, and none this instant; where it has one, the passes since it began are
\* counted in it and bounded by the maximum, and those before it by another maximum.
Fair(k) ==
    /\ IsOver(limiter[k]) =>
          /\ passes[k][0] = 0
          /\ Sent(k, Window - 1) <= Max
    /\ ~IsOver(limiter[k]) =>
          /\ Sent(k, Started(k)) <= limiter[k].count
          /\ Sent(k, Started(k)) <= Max
          /\ Sent(k, Window - 1) <= Sent(k, Started(k)) + Max

Fairly == EntriesOK /\ PassesOK /\ \A k \in Keys : Fair(k)

\* A window that is not over has an entry, and began within its length.
LEMMA OpenWindow ==
    ASSUME EntriesOK, NEW k \in Keys, ~IsOver(limiter[k])
    PROVE  /\ limiter[k] \in Entries
           /\ limiter[k].count \in Nat /\ limiter[k].left \in 1 .. Window
           /\ Started(k) \in Ages
BY PathAssumption DEF EntriesOK, IsOver, Entries, Started, Ages

\* The requests sent within an age are so many.
LEMMA SentNat ==
    ASSUME PassesOK, NEW k \in Keys, NEW a \in Ages
    PROVE  Sent(k, a) \in Nat
BY SumAt DEF PassesOK, Sent

\* A window is at least one unit long.
LEMMA LastAge == Window - 1 \in Ages /\ 0 \in Ages
BY PathAssumption DEF Ages

\* Two maxima are all that an interval of a window's length may see.
LEMMA FairBounds ==
    ASSUME Fairly, NEW k \in Keys
    PROVE  Sent(k, Window - 1) <= 2 * Max
<1>1. Sent(k, Window - 1) \in Nat /\ Max \in Nat
  BY LastAge, SentNat, PathAssumption DEF Fairly
<1>2. CASE IsOver(limiter[k])
  BY <1>1, <1>2 DEF Fairly, Fair
<1>3. CASE ~IsOver(limiter[k])
  <2>1. Sent(k, Started(k)) \in Nat
    BY <1>3, OpenWindow, SentNat DEF Fairly
  <2>2. QED
    BY <1>1, <1>3, <2>1 DEF Fairly, Fair
<1>4. QED
  BY <1>2, <1>3

\* A request let through begins a window or is counted in the open one.
LEMMA AdmitFair ==
    ASSUME Fairly, NEW c \in Clients, Admit(c)
    PROVE  Fairly'
<1> DEFINE k == KeyOf[c]
<1>0. k \in Keys /\ Max \in Nat \ {0} /\ Window \in Nat \ {0}
  BY PathAssumption
<1> USE DEF Fairly
<1>1. /\ limiter' = [limiter EXCEPT ![k] = Counted(k)]
      /\ Counted(k).count <= Max /\ Counted(k) \in Entries
      /\ passes' = [passes EXCEPT ![k] = [passes[k] EXCEPT ![0] = @ + 1]]
  BY <1>0, CountedEntry DEF Admit, Use
<1> HIDE DEF k
<1>2. EntriesOK'
  BY <1>0, <1>1 DEF EntriesOK
<1>3. PassesOK'
  BY <1>0, <1>1, LastAge DEF PassesOK
<1>4. ASSUME NEW j \in Keys, j # k PROVE Fair(j)'
  <2>1. limiter'[j] = limiter[j] /\ passes'[j] = passes[j]
    BY <1>1, <1>4 DEF EntriesOK, PassesOK
  <2>2. QED
    BY <2>1, Fair(j) DEF Fair, Sent, Started
<1>5. Fair(k)'
  <2>1. /\ limiter'[k] = Counted(k)
        /\ passes[k] \in [Ages -> Nat]
        /\ passes'[k] = [passes[k] EXCEPT ![0] = @ + 1]
    BY <1>0, <1>1 DEF EntriesOK, PassesOK
  <2>2. \A a \in Ages : Sent(k, a)' = Sent(k, a) + 1 /\ Sent(k, a) \in Nat
    BY <1>0, <2>1, SumOfOneMore, SentNat DEF Sent
  <2>3. CASE IsOver(limiter[k])
    <3>1. limiter'[k] = [count |-> 1, left |-> Window]
      BY <2>1, <2>3 DEF Counted
    <3>2. ~IsOver(limiter[k])' /\ Started(k)' = 0 /\ limiter'[k].count = 1
      BY <1>0, <3>1, PathAssumption, <1>1, <2>1 DEF IsOver, Started
    <3>3. Sent(k, 0) = 0 /\ Sent(k, Window - 1) <= Max
      BY <1>0, <2>1, <2>3, SumAt, LastAge DEF Fair, Sent
    <3>4. Sent(k, 0)' = 1 /\ Sent(k, Window - 1)' <= 1 + Max
      BY <1>0, <2>2, <3>3, LastAge
    <3>5. QED
      BY <1>0, <3>2, <3>4 DEF Fair
  <2>4. CASE ~IsOver(limiter[k])
    <3> DEFINE n == limiter[k].count
    <3>1. /\ limiter[k] \in Entries /\ n \in 1 .. Max + 1
          /\ limiter'[k] = [limiter[k] EXCEPT !.count = AtMost(n + 1, Max + 1)]
          /\ Started(k) \in Ages
      BY <1>0, <2>1, <2>4, OpenWindow DEF Counted, Entries
    <3>2. limiter'[k].count = n + 1 /\ n + 1 <= Max /\ limiter'[k].left = limiter[k].left
      BY <1>0, <1>1, <2>1, <3>1 DEF AtMost, Entries
    <3>3. ~IsOver(limiter[k])' /\ Started(k)' = Started(k)
      BY <1>1, <2>1, <2>4, <3>2, PathAssumption DEF IsOver, Started
    <3>4. /\ Sent(k, Started(k)) <= n
          /\ Sent(k, Window - 1) <= Sent(k, Started(k)) + Max
      BY <1>0, <2>4 DEF Fair
    <3>5. /\ Sent(k, Started(k))' = Sent(k, Started(k)) + 1
          /\ Sent(k, Window - 1)' = Sent(k, Window - 1) + 1
          /\ Sent(k, Started(k)) \in Nat /\ Sent(k, Window - 1) \in Nat
      BY <2>2, <3>1, <3>3, LastAge DEF Sent
    <3>6. QED
      BY <1>0, <3>1, <3>2, <3>3, <3>4, <3>5 DEF Fair
  <2>5. QED
    BY <2>3, <2>4
<1>6. QED
  BY <1>2, <1>3, <1>4, <1>5

\* A request refused is counted, and lets nothing through.
LEMMA RejectFair ==
    ASSUME Fairly, NEW c \in Clients, Reject(c)
    PROVE  Fairly'
<1> DEFINE k == KeyOf[c]
<1>0. k \in Keys /\ Max \in Nat \ {0} /\ Window \in Nat \ {0}
  BY PathAssumption
<1> USE DEF Fairly
<1>1. /\ limiter' = [limiter EXCEPT ![k] = Counted(k)] /\ passes' = passes
      /\ Counted(k).count > Max /\ Counted(k) \in Entries
      /\ ~IsOver(limiter[k]) /\ Counted(k).left = limiter[k].left
  BY <1>0, CountedEntry DEF Reject
<1> HIDE DEF k
<1>2. EntriesOK'
  BY <1>0, <1>1 DEF EntriesOK
<1>3. PassesOK'
  BY <1>1 DEF PassesOK
<1>4. ASSUME NEW j \in Keys, j # k PROVE Fair(j)'
  <2>1. limiter'[j] = limiter[j] /\ passes'[j] = passes[j]
    BY <1>1, <1>4 DEF EntriesOK
  <2>2. QED
    BY <2>1, Fair(j) DEF Fair, Sent, Started
<1>5. Fair(k)'
  <2>1. limiter'[k] = Counted(k)
    BY <1>0, <1>1 DEF EntriesOK
  <2>2. ~IsOver(limiter[k])' /\ Started(k)' = Started(k)
    BY <1>1, <2>1, PathAssumption DEF IsOver, Started
  <2>3. \A a : Sent(k, a)' = Sent(k, a)
    BY <1>1 DEF Sent
  <2>4. Started(k) \in Ages /\ Sent(k, Started(k)) \in Nat /\ Sent(k, Started(k)) <= Max
    BY <1>0, <1>1, OpenWindow, SentNat DEF Fair
  <2>5. Sent(k, Started(k)) <= limiter'[k].count
    BY <1>0, <1>1, <2>1, <2>4 DEF Entries
  <2>6. Sent(k, Started(k))' = Sent(k, Started(k)) /\ Sent(k, Window - 1)' = Sent(k, Window - 1)
    BY <2>2, <2>3 DEF Sent
  <2>7. QED
    BY <1>0, <1>1, <2>2, <2>4, <2>5, <2>6 DEF Fair
<1>6. QED
  BY <1>2, <1>3, <1>4, <1>5

\* The sweep takes only entries whose window is over.
LEMMA CleanupFair ==
    ASSUME Fairly, Cleanup
    PROVE  Fairly'
<1> USE DEF Fairly
<1>1. EntriesOK' /\ PassesOK'
  BY DEF Cleanup, EntriesOK, PassesOK
<1>2. ASSUME NEW k \in Keys PROVE Fair(k)'
  <2>1. passes' = passes /\ limiter'[k] = IF Sweepable(k) THEN Nobody ELSE limiter[k]
    BY DEF Cleanup
  <2>2. CASE Sweepable(k)
    BY <2>1, <2>2, Fair(k) DEF Sweepable, Fair, IsOver, Sent
  <2>3. CASE ~Sweepable(k)
    BY <2>1, <2>3, Fair(k) DEF Fair, IsOver, Sent, Started
  <2>4. QED
    BY <2>2, <2>3
<1>3. QED
  BY <1>1, <1>2

\* Time ends a window only when its passes are all that the last Window units saw.
LEMMA TickFair ==
    ASSUME Fairly, Tick, EntriesOK'
    PROVE  Fairly'
<1>0. Max \in Nat \ {0} /\ Window \in Nat \ {0}
  BY PathAssumption
<1> USE DEF Fairly
<1>1. \A k \in Keys : passes'[k] = Older(passes[k])
  BY DEF Tick, Older
<1>2. PassesOK'
  <2>1. passes' = [k \in Keys |-> Older(passes[k])]
    BY DEF Tick, Older
  <2>2. \A k \in Keys : Older(passes[k]) \in [Ages -> Nat]
    BY SumOfOlder DEF PassesOK
  <2>3. QED
    BY <2>1, <2>2 DEF PassesOK
<1>3. ASSUME NEW k \in Keys PROVE Fair(k)'
  <2>1. passes[k] \in [Ages -> Nat] /\ passes'[k][0] = 0
    BY <1>1, LastAge DEF PassesOK, Older
  <2>2. \A a \in Ages : Sent(k, a)' = IF a = 0 THEN 0 ELSE Sent(k, a - 1)
    BY <1>1, <2>1, SumOfOlder DEF Sent
  <2>3. \A a \in Ages : /\ Sent(k, a) \in Nat
                        /\ a # 0 => a - 1 \in Ages /\ Sent(k, a - 1) <= Sent(k, a)
    <3>1. ASSUME NEW a \in Ages, a # 0 PROVE a - 1 \in Ages /\ Sent(k, a - 1) <= Sent(k, a)
      <4>1. /\ a - 1 \in Ages
            /\ Sent(k, a) = passes[k][a] + Sent(k, a - 1)
            /\ passes[k][a] \in Nat /\ Sent(k, a - 1) \in Nat
        BY <2>1, <3>1, SumAt, SentNat DEF Sent
      <4>2. QED
        BY <4>1
    <3>2. QED
      BY <3>1, SentNat
  <2>4. Sent(k, Window - 1)' <= Sent(k, Window - 1) /\ Sent(k, Window - 1)' \in Nat
    <3>1. /\ Sent(k, Window - 1) \in Nat
          /\ Window - 1 # 0 => /\ Sent(k, Window - 1 - 1) \in Nat
                               /\ Sent(k, Window - 1 - 1) <= Sent(k, Window - 1)
      BY <2>3, LastAge
    <3>2. Sent(k, Window - 1)' = IF Window - 1 = 0 THEN 0 ELSE Sent(k, Window - 1 - 1)
      BY <2>2, LastAge
    <3>3. QED
      BY <3>1, <3>2
  <2>5. CASE IsOver(limiter[k])
    <3>1. IsOver(limiter[k])'
      BY <2>5 DEF IsOver, Tick, EntriesOK, Entries, Less
    <3>2. Sent(k, Window - 1) <= Max /\ Sent(k, Window - 1) \in Nat
      BY <2>3, <2>5, LastAge, Fair(k) DEF Fair
    <3>3. QED
      BY <1>0, <2>1, <2>4, <3>1, <3>2 DEF Fair
  <2>6. CASE ~IsOver(limiter[k])
    <3> DEFINE e == limiter[k]
    <3>1. e \in Entries /\ e.left \in 1 .. Window /\ e.count \in Nat /\ Started(k) \in Ages
      BY <2>6, OpenWindow
    <3>2. limiter'[k] = [limiter[k] EXCEPT !.left = limiter[k].left - 1] /\ limiter'[k] # Nobody
      <4>1. limiter[k] # Nobody /\ Less(limiter[k].left) = limiter[k].left - 1
        BY <2>6, <3>1 DEF IsOver, Less
      <4>2. limiter'[k] = [limiter[k] EXCEPT !.left = Less(limiter[k].left)]
        BY <4>1 DEF Tick
      <4>3. limiter'[k] = [limiter[k] EXCEPT !.left = limiter[k].left - 1]
        BY <4>1, <4>2
      <4>4. limiter'[k] \in Entries
        BY <3>1, <4>3, PathAssumption DEF Entries
      <4>5. QED
        BY <4>3, <4>4, PathAssumption
    <3>3. limiter'[k].left = e.left - 1 /\ limiter'[k].count = e.count
      BY <3>1, <3>2 DEF Entries
    <3>4. /\ Sent(k, Started(k)) <= e.count /\ Sent(k, Started(k)) <= Max
          /\ Sent(k, Window - 1) <= Sent(k, Started(k)) + Max
          /\ Sent(k, Started(k)) \in Nat /\ Sent(k, Window - 1) \in Nat
      BY <2>3, <2>6, <3>1, LastAge, Fair(k) DEF Fair
    <3>5. CASE e.left = 1
      <4>1. IsOver(limiter[k])' /\ Started(k) = Window - 1
        BY <3>3, <3>5 DEF IsOver, Started
      <4>2. QED
        BY <1>0, <2>1, <2>4, <3>4, <4>1 DEF Fair
    <3>6. CASE e.left # 1
      <4>1. ~IsOver(limiter[k])' /\ Started(k)' = Started(k) + 1
        BY <1>0, <3>1, <3>2, <3>3, <3>6 DEF IsOver, Started
      <4>2. \E next \in Ages : next = Started(k) + 1 /\ next # 0 /\ next - 1 = Started(k)
        <5>1. Started(k) \in Nat /\ Started(k) + 1 < Window
          BY <1>0, <3>1, <3>6 DEF Ages, Started
        <5>2. Started(k) + 1 \in Ages /\ Started(k) + 1 # 0 /\ (Started(k) + 1) - 1 = Started(k)
          BY <1>0, <5>1 DEF Ages
        <5>3. QED
          BY <5>2
      <4>3. UpTo(passes'[k])[Started(k) + 1] = Sent(k, Started(k))
        <5>1. \A a \in Ages : a # 0 => UpTo(passes'[k])[a] = Sent(k, a - 1)
          BY <1>1, <2>1, SumOfOlder DEF Sent
        <5>2. QED
          BY <4>2, <5>1
      <4>4. Sent(k, Started(k))' = Sent(k, Started(k))
        BY <4>1, <4>3 DEF Sent
      <4>5. QED
        BY <1>0, <2>4, <3>3, <3>4, <4>1, <4>4 DEF Fair
    <3>7. QED
      BY <3>5, <3>6
  <2>7. QED
    BY <2>5, <2>6
<1>4. QED
  BY <1>2, <1>3

\* At first nothing has been sent.
LEMMA InitFair == Init => Fairly
<1> SUFFICES ASSUME Init PROVE Fairly
  OBVIOUS
<1>1. EntriesOK /\ \A k \in Keys : IsOver(limiter[k]) /\ passes[k] = NoPasses
  BY DEF Init, EntriesOK, IsOver
<1>2. PassesOK
  BY DEF Init, PassesOK, NoPasses
<1>3. ASSUME NEW k \in Keys PROVE Fair(k)
  <2>1. Sent(k, Window - 1) = 0 /\ passes[k][0] = 0
    BY <1>1, LastAge, SumOfNone DEF Sent, NoPasses
  <2>2. QED
    BY <1>1, <2>1, PathAssumption DEF Fair
<1>4. QED
  BY <1>1, <1>2, <1>3 DEF Fairly

\* No other step changes the limiter or what was let through.
LEMMA StepFair ==
    ASSUME Fairly, [Next]_vars, EntriesOK'
    PROVE  Fairly'
<1>1. ASSUME UNCHANGED <<limiter, passes>>
      PROVE  Fairly'
  BY <1>1 DEF Fairly, EntriesOK, PassesOK, Fair, Sent, Started, IsOver
<1>2. ASSUME NEW c \in Clients, Step(c)
      PROVE  Fairly'
  <2>1. CASE Admit(c)
    BY <2>1, AdmitFair
  <2>2. CASE Reject(c)
    BY <2>2, RejectFair
  <2>3. CASE \E scopes \in Grants : Validate(c, scopes)
    BY <1>1, <2>3 DEF Validate
  <2>4. CASE Refuse(c)
    BY <1>1, <2>4 DEF Refuse
  <2>5. CASE Initialize(c) \/ EndSession(c) \/ Return(c)
    BY <1>1, <2>5 DEF Initialize, EndSession, Return, Answered
  <2>6. CASE \E t \in Tools : CallTool(c, t) \/ Forbid(c, t)
    BY <1>1, <2>6 DEF CallTool, Forbid, Answered
  <2>7. QED
    BY <1>2, <2>1, <2>2, <2>3, <2>4, <2>5, <2>6 DEF Step
<1>3. CASE Cleanup
  BY <1>3, CleanupFair
<1>4. CASE Tick
  BY <1>4, TickFair
<1>5. CASE UNCHANGED vars
  BY <1>1, <1>5 DEF vars
<1>6. QED
  BY <1>2, <1>3, <1>4, <1>5 DEF Next

\* In no interval of a window's length is a key let through more than twice its maximum,
\* however its windows meet in it and whatever the sweep forgets.
THEOREM BurstsAreBounded == Spec => []BurstBounded
<1>1. Fairly => BurstBounded
  BY FairBounds DEF BurstBounded, Sent
<1>2. Patient => EntriesOK
  BY DEF Patient
<1>3. Patient /\ Fairly /\ [Next]_vars => Patient' /\ Fairly'
  BY StepPatient, StepFair DEF Patient
<1>4. QED
  BY <1>1, <1>3, InitPatient, InitFair, PTL DEF Spec
-----------------------------------------------------------------------------
\* The equation that defines Power.
Powers(p) == p = [n \in 0 .. Retries |-> IF n = 0 THEN 1 ELSE Factor * p[n - 1]]

\* It has a solution, made step by step ...
LEMMA PowersExist == \E p \in [0 .. Retries -> Nat] : Powers(p)
<1> USE PathAssumption
<1> DEFINE Right(f, n) == \A m \in 0 .. Retries :
                m <= n => f[m] = IF m = 0 THEN 1 ELSE Factor * f[m - 1]
           T == {n \in Nat : \E f \in [0 .. Retries -> Nat] : Right(f, n)}
<1>1. 0 \in T
  <2> DEFINE ones == [m \in 0 .. Retries |-> 1]
  <2>1. Right(ones, 0) /\ ones \in [0 .. Retries -> Nat]
    OBVIOUS
  <2> HIDE DEF Right, ones
  <2>2. QED
    BY <2>1
<1>2. ASSUME NEW n \in Nat, n \in T PROVE n + 1 \in T
  <2>1. PICK f \in [0 .. Retries -> Nat] : Right(f, n)
    BY <1>2
  <2>2. CASE n + 1 \in 0 .. Retries
    <3> DEFINE g == [f EXCEPT ![n + 1] = Factor * f[n]]
    <3>1. f[n] \in Nat /\ Factor * f[n] \in Nat
      <4>1. n \in 0 .. Retries
        BY <2>2
      <4>2. f[n] \in Nat /\ Factor \in Nat
        BY <4>1
      <4>3. \A x, y \in Nat : x * y \in Nat
        OBVIOUS
      <4>4. QED
        BY <4>2, <4>3
    <3>2. g \in [0 .. Retries -> Nat]
      BY <3>1
    <3>3. ASSUME NEW m \in 0 .. Retries, m <= n + 1
          PROVE  g[m] = IF m = 0 THEN 1 ELSE Factor * g[m - 1]
      <4>1. CASE m = n + 1
        <5>1. m # 0 /\ m - 1 = n /\ n \in 0 .. Retries /\ n # n + 1
          BY <2>2, <4>1
        <5>2. g[m] = Factor * f[n] /\ g[n] = f[n]
          BY <2>2, <4>1, <5>1
        <5>3. QED
          BY <5>1, <5>2
      <4>2. CASE m # n + 1
        <5>1. m <= n /\ g[m] = f[m] /\ (m # 0 => g[m - 1] = f[m - 1])
          BY <3>3, <4>2
        <5>2. QED
          BY <2>1, <5>1
      <4>3. QED
        BY <4>1, <4>2
    <3>4. Right(g, n + 1)
      BY <3>3
    <3> HIDE DEF Right, g
    <3>5. QED
      BY <3>2, <3>4
  <2>3. CASE n + 1 \notin 0 .. Retries
    <3>1. Right(f, n + 1)
      BY <2>1, <2>3
    <3> HIDE DEF Right
    <3>2. QED
      BY <3>1
  <2>4. QED
    BY <2>2, <2>3
<1>3. Retries \in T
  <2> HIDE DEF T
  <2>1. Nat \subseteq T
    BY <1>1, <1>2, Induct
  <2>2. QED
    BY <2>1
<1>4. PICK f \in [0 .. Retries -> Nat] : Right(f, Retries)
  BY <1>3
<1>5. Powers(f)
  BY <1>4 DEF Powers
<1>6. QED
  BY <1>5

\* ... and whatever solves it has numbers only.
LEMMA PowerIsNat == Power \in [0 .. Retries -> Nat]
<1> USE PathAssumption
<1>1. Powers(Power)
  <2>1. Power = CHOOSE p : Powers(p)
    BY DEF Power, Powers
  <2>2. QED
    BY <2>1, PowersExist
<1>2. /\ DOMAIN Power = 0 .. Retries /\ Power = [n \in 0 .. Retries |-> Power[n]]
      /\ \A n \in 0 .. Retries : Power[n] = IF n = 0 THEN 1 ELSE Factor * Power[n - 1]
  BY <1>1 DEF Powers
<1> DEFINE T == {n \in Nat : n \in 0 .. Retries => Power[n] \in Nat}
<1>3. 0 \in T
  <2>1. Power[0] = 1
    <3>1. 0 \in 0 .. Retries
      OBVIOUS
    <3>2. Power[0] = IF 0 = 0 THEN 1 ELSE Factor * Power[0 - 1]
      BY <1>2, <3>1
    <3>3. QED
      BY <3>2
  <2>2. QED
    BY <2>1
<1>4. ASSUME NEW n \in Nat, n \in T PROVE n + 1 \in T
  <2>1. SUFFICES ASSUME n + 1 \in 0 .. Retries PROVE Power[n + 1] \in Nat
    OBVIOUS
  <2>2. n \in 0 .. Retries /\ n + 1 # 0 /\ (n + 1) - 1 = n
    BY <2>1
  <2>3. Power[n + 1] = Factor * Power[n] /\ Power[n] \in Nat /\ Factor \in Nat
    BY <1>2, <1>4, <2>1, <2>2
  <2>4. \A x, y \in Nat : x * y \in Nat
    OBVIOUS
  <2>5. QED
    BY <2>3, <2>4
<1>5. Nat \subseteq T
  <2> HIDE DEF T
  <2>1. QED
    BY <1>3, <1>4, Induct
<1>6. \A n \in 0 .. Retries : Power[n] \in Nat
  BY <1>5
<1>7. QED
  BY <1>2, <1>6

\* A backoff is a number no larger than the client's maximum.
LEMMA BackoffTyped ==
    ASSUME NEW n \in 0 .. Retries, NEW delay \in BackoffDelays(n + 1)
    PROVE  delay \in 0 .. MaxBackoff
<1> DEFINE power == Power[(n + 1) - 1]
           calculated == AtMost(Backoff * power, MaxBackoff)
<1>1. power \in Nat /\ Backoff \in Nat /\ MaxBackoff \in Nat /\ Jitter \in BOOLEAN
  <2>1. (n + 1) - 1 = n
    BY PathAssumption
  <2>2. QED
    BY <2>1, PowerIsNat, PathAssumption
<1>2. delay \in IF Jitter THEN (calculated + 1) \div 2 .. calculated ELSE {calculated}
  BY DEF BackoffDelays
<1> HIDE DEF power
<1>3. Backoff * power \in Nat
  <2>1. \A x, y \in Nat : x * y \in Nat
    OBVIOUS
  <2>2. QED
    BY <1>1, <2>1
<1>4. calculated \in 0 .. MaxBackoff
  BY <1>1, <1>3 DEF AtMost
<1> HIDE DEF calculated
<1>5. QED
  BY <1>1, <1>2, <1>4

\* What a client's request has got to: no more attempts failed than it may make, and
\* it never sleeps longer than its own maximum.
RequestsTyped ==
    /\ phase \in [Clients -> {"idle", "validating", "routed", "running", "waiting"}]
    /\ wait \in [Clients -> 0 .. MaxBackoff]
    /\ tries \in [Clients -> 0 .. Retries]
    /\ granted \in [Clients -> Grants \cup {Nobody}]
    /\ session \in [Clients -> Grants \cup {Nobody}]
    /\ tool \in [Clients -> Tools \cup {Nobody}]
    /\ owed \in [Clients -> BOOLEAN]

LEMMA StepTyped ==
    ASSUME EntriesOK, RequestsTyped, [Next]_vars
    PROVE  RequestsTyped'
<1> USE DEF RequestsTyped
<1>0. Retries \in Nat /\ MaxBackoff \in Nat
  BY PathAssumption
<1>1. ASSUME NEW c \in Clients, NEW delay \in 0 .. MaxBackoff,
             TryLater(c, delay) \/ GiveUp(c)
      PROVE  /\ phase' \in [Clients -> {"idle", "validating", "routed", "running", "waiting"}]
             /\ wait' \in [Clients -> 0 .. MaxBackoff]
             /\ tries' \in [Clients -> 0 .. Retries]
  BY <1>0, <1>1 DEF TryLater, GiveUp
<1>2. ASSUME NEW c \in Clients, Answered(c), session' \in [Clients -> Grants \cup {Nobody}]
      PROVE  RequestsTyped'
  BY <1>0, <1>2 DEF Answered
<1>3. ASSUME NEW c \in Clients, Admit(c)
      PROVE  RequestsTyped'
  BY <1>0, <1>3 DEF Admit, Use
<1>4. ASSUME NEW c \in Clients, Reject(c)
      PROVE  RequestsTyped'
  <2> DEFINE told == RetryAfter(limiter[KeyOf[c]].left)
  <2>1. told \in Nat
    <3>1. ~IsOver(limiter[KeyOf[c]]) /\ KeyOf[c] \in Keys
      BY <1>4, CountedEntry, PathAssumption DEF Reject
    <3>2. limiter[KeyOf[c]].left \in Nat
      BY <3>1 DEF IsOver, EntriesOK, Entries
    <3>3. QED
      BY <3>2, RoundedUp, PathAssumption
  <2>2. /\ TryLater(c, RetryDelay(told)) \/ GiveUp(c)
        /\ owed' \in [Clients -> BOOLEAN]
        /\ UNCHANGED <<granted, session, tool>>
    BY <1>4 DEF Reject
  <2> HIDE DEF told
  <2>3. RetryDelay(told) \in 0 .. MaxBackoff
    BY <1>0, <2>1 DEF RetryDelay, AtMost
  <2>4. QED
    BY <1>1, <2>2, <2>3
<1>5. ASSUME NEW c \in Clients, NEW scopes \in Grants, Validate(c, scopes)
      PROVE  RequestsTyped'
  BY <1>5 DEF Validate
<1>6. ASSUME NEW c \in Clients, Refuse(c)
      PROVE  RequestsTyped'
  <2>1. tries[c] \in 0 .. Retries
    OBVIOUS
  <2>2. \E delay \in 0 .. MaxBackoff : TryLater(c, delay) \/ GiveUp(c)
    <3>1. 0 \in 0 .. MaxBackoff
      BY <1>0
    <3>2. QED
      BY <1>6, <2>1, <3>1, BackoffTyped DEF Refuse
  <2>3. UNCHANGED <<granted, session, tool, owed>>
    BY <1>6 DEF Refuse
  <2>4. QED
    BY <1>1, <2>2, <2>3
<1>7. ASSUME NEW c \in Clients, Initialize(c) \/ EndSession(c) \/ Return(c)
      PROVE  RequestsTyped'
  BY <1>2, <1>7 DEF Initialize, EndSession, Return
<1>8. ASSUME NEW c \in Clients, NEW t \in Tools, CallTool(c, t) \/ Forbid(c, t)
      PROVE  RequestsTyped'
  <2>1. CASE CallTool(c, t)
    BY <2>1 DEF CallTool
  <2>2. CASE Forbid(c, t)
    BY <1>2, <2>2 DEF Forbid
  <2>3. QED
    BY <1>8, <2>1, <2>2
<1>9. CASE Cleanup \/ UNCHANGED vars
  BY <1>9 DEF Cleanup, vars
<1>10. CASE Tick
  <2>1. \A n \in 0 .. MaxBackoff : Less(n) \in 0 .. MaxBackoff
    BY <1>0 DEF Less
  <2>2. QED
    BY <1>10, <2>1 DEF Tick
<1>11. QED
  BY <1>3, <1>4, <1>5, <1>6, <1>7, <1>8, <1>9, <1>10 DEF Next, Step

\* The variables keep their types: no request is tried more often than the client may,
\* and no sleep is longer than its maximum, whatever Retry-After and backoff say.
THEOREM TypeCorrect == Spec => []TypeOK
<1>1. Init => RequestsTyped
  BY PathAssumption DEF Init, RequestsTyped
<1>2. EntriesOK /\ PassesOK /\ RequestsTyped => TypeOK
  BY DEF EntriesOK, PassesOK, RequestsTyped, TypeOK
<1>3. Patient /\ Fairly /\ [Next]_vars => Patient' /\ Fairly'
  BY StepPatient, StepFair DEF Patient
<1>4. Patient /\ Fairly => EntriesOK /\ PassesOK
  BY DEF Patient, Fairly
<1>5. QED
  BY <1>1, <1>2, <1>3, <1>4, StepTyped, InitPatient, InitFair, PTL DEF Spec
=============================================================================

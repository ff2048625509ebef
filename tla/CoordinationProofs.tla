-------------------------- MODULE CoordinationProofs --------------------------
(***************************************************************************)
(* What holds for any number of processes of how they agree on a           *)
(* server.  The first part is about InstanceCoordinator and uses nothing   *)
(* of the launchers but that their moves have other names: its types hold  *)
(* always; and as long as starts and shutdowns do not overlap, one owner,  *)
(* a server that is found and starts that succeed, but for servers whose   *)
(* answers to health checks come too late.  The second part is about       *)
(* BackgroundLauncher, where starts do overlap: no lock is abandoned, and  *)
(* when all have settled a worker serves.                                  *)
(***************************************************************************)
EXTENDS BackgroundLauncher, FiniteSetTheorems, TLAPS

\* A step of one process; the start, shutdown and crash it may meet included.
ProcStep(p) ==
    Start(p) \/ Step(p) \/ ShutDown(p) \/ BridgeExits(p) \/ Crash(p) \/ ReusePid(p)

\* The moves of processes and of launchers.
AnyMove == Moves \cup Launching \cup {"attached"}

\* Who still looks has rounds of its last look left.
RoundsLeft == \A p \in Procs : pc[p] \in {"off"} \cup Looking => looks[p] < LastLooks

Typed == DataTypeOK /\ pc \in [Procs -> AnyMove] /\ RoundsLeft

\* A step keeps the types and changes nothing of other processes.
LEMMA StepTyped ==
    ASSUME Typed, NEW p \in Procs, ProcStep(p)
    PROVE  /\ Typed'
           /\ pc'[p] \in Moves
           /\ missed[p] \subseteq missed'[p]
           /\ \A q \in Procs \ {p} :
                 /\ pc'[q] = pc[q] /\ stage'[q] = stage[q] /\ missed'[q] = missed[q]
                 /\ seen'[q] = seen[q] /\ (q \in serving' <=> q \in serving)
<1> USE InstanceAssumption DEF Typed, DataTypeOK, RoundsLeft, files, Goto, GotoStage
<1> DEFINE Kept == /\ stage' \in [Procs -> 1..5]
                   /\ seen' \in [Procs -> Procs \cup {NoProc}]
                   /\ missed' \in [Procs -> SUBSET (1..5)]
                   /\ missed[p] \subseteq missed'[p]
                   /\ \A q \in Procs \ {p} :
                         /\ pc'[q] = pc[q] /\ stage'[q] = stage[q] /\ missed'[q] = missed[q]
                         /\ seen'[q] = seen[q] /\ (q \in serving' <=> q \in serving)
<1>1. CASE ReadState(p) \/ Unhealthy(p)
  <2>1. PICK m \in Moves : Goto(p, m)
    BY <1>1 DEF ReadState, Unhealthy, NoState, LookAgain, TakeOver, Moves, Looking, Gone
  <2>2. Kept /\ UNCHANGED <<files, serving, crashes>>
    BY <1>1 DEF ReadState, Unhealthy, NoState, LookAgain, TakeOver
  <2>3. \/ looks' = looks
        \/ pc'[p] \notin {"off"} \cup Looking /\ looks' = [looks EXCEPT ![p] = @ + 1]
        \/ looks[p] + 1 # LastLooks /\ looks' = [looks EXCEPT ![p] = @ + 1]
    BY <1>1 DEF ReadState, Unhealthy, NoState, LookAgain, LastRound, TakeOver, Looking
  <2>4. pc[p] \in Looking
    BY <1>1 DEF ReadState, Unhealthy, Looking
  <2>5. looks' \in [Procs -> 0..LastLooks] /\ RoundsLeft'
    BY <2>1, <2>3, <2>4 DEF AnyMove
  <2>6. QED
    BY <2>1, <2>2, <2>5 DEF AnyMove
<1>2. CASE Start(p)
  BY <1>2 DEF Start, AnyMove, Moves, Looking
<1>3. CASE Healthy(p) \/ LockExists(p) \/ InspectLock(p) \/ WaitExpires(p)
  BY <1>3 DEF Healthy, LockExists, InspectLock, WaitExpires, TakeOver, AnyMove, Moves,
              Looking
<1>4. CASE UnlinkLock(p) \/ UnlinkState(p) \/ OpenLock(p) \/ WriteLock(p)
  BY <1>4 DEF UnlinkLock, UnlinkState, OpenLock, WriteLock, AnyMove, Moves, Looking,
              Starting
<1>5. CASE InitContext(p) \/ Listen(p) \/ Publish(p)
  BY <1>5 DEF InitContext, Listen, Publish, AnyMove, Moves, Looking, Starting
<1>6. CASE ShutDown(p) \/ CloseServer(p) \/ CheckState(p) \/ CleanState(p)
  BY <1>6 DEF ShutDown, CloseServer, CheckState, CleanState, AnyMove, Moves, Looking,
              Stopping
<1>7. CASE CheckLock(p) \/ CleanLock(p) \/ BridgeExits(p) \/ ReusePid(p)
  BY <1>7 DEF CheckLock, CleanLock, BridgeExits, ReusePid, AnyMove, Moves, Looking,
              Stopping, Gone
<1>8. CASE Crash(p)
  BY <1>8 DEF Crash, AnyMove, Moves, Looking, Gone
<1>9. QED
  BY <1>1, <1>2, <1>3, <1>4, <1>5, <1>6, <1>7, <1>8 DEF ProcStep, Step

\* The first state has the types.
LEMMA InitTyped == Init => TypeOK /\ RoundsLeft
<1> SUFFICES ASSUME Init PROVE TypeOK /\ RoundsLeft
  OBVIOUS
<1>1. LastLooks \in Nat \ {0} /\ MaxCrashes \in Nat
  BY InstanceAssumption
<1>2. /\ lockFile \in Procs \cup {NoProc} /\ stateFile \in Procs \cup {NoProc}
      /\ seen \in [Procs -> Procs \cup {NoProc}]
  BY DEF Init
<1>3. written \in BOOLEAN
  BY DEF Init
<1>4. stage \in [Procs -> 1..5] /\ looks \in [Procs -> 0..LastLooks] /\ RoundsLeft
  BY <1>1 DEF Init, RoundsLeft
<1>5. /\ serving \subseteq Procs /\ crashes \in 0..MaxCrashes
      /\ missed \in [Procs -> SUBSET (1..5)]
  BY <1>1 DEF Init
<1>6. pc \in [Procs -> Moves]
  BY DEF Init, Moves
<1>7. QED
  BY <1>2, <1>3, <1>4, <1>5, <1>6 DEF TypeOK, DataTypeOK

\* Every variable keeps its type, whoever overlaps with whom: a process is always in
\* a step the code has, and its last look never runs past its rounds.
THEOREM TypeCorrect == Spec => []TypeOK
<1> DEFINE Inv == TypeOK /\ RoundsLeft
<1>1. Init => Inv
  BY InitTyped
<1>2. ASSUME Inv, [Next]_vars PROVE Inv'
  <2>1. Typed
    BY <1>2 DEF Typed, TypeOK, AnyMove
  <2>2. ASSUME NEW p \in Procs, ProcStep(p) PROVE Inv'
    <3>1. pc' \in [Procs -> Moves]
      BY <1>2, <2>1, <2>2, StepTyped DEF Typed, TypeOK
    <3>2. QED
      BY <2>1, <2>2, <3>1, StepTyped DEF Typed, TypeOK
  <2>3. CASE UNCHANGED vars
    BY <1>2, <2>3 DEF vars, files, TypeOK, DataTypeOK, RoundsLeft
  <2>4. QED
    BY <1>2, <2>2, <2>3 DEF Next, ProcStep
<1>3. QED
  BY <1>1, <1>2, PTL DEF Spec

-----------------------------------------------------------------------------

\* A process serves.
Up(p) == pc[p] = "up"

\* Starts and shutdowns do not overlap: one process at most is under way.
OneMover == \A p, q \in Procs : ~Settled(p) /\ ~Settled(q) => p = q

\* Who answers is who has begun to listen and has not closed.
ServersListen == serving = {p \in Procs : pc[p] \in {"publish", "up", "close"}}

\* A server that is up and has not missed three checks of one start.
InSight(p) == Up(p) /\ ~Overlooked(p)

\* From its creation on the lock file is the starting owner's and, once the owner is up
\* and as long as it is in sight, the state is too.
FilesOfOwner ==
    \A p \in Procs :
        /\ pc[p] \in Starting => lockFile = p
        /\ pc[p] \in Starting \ {"write"} => written
        /\ InSight(p) => lockFile = p /\ written /\ stateFile = p

\* Who is under way while a server is in sight touches neither file: it looks for the
\* server, or is another owner that shuts down.
OwnerIsSafe ==
    \A p, q \in Procs : InSight(p) /\ ~Settled(q) =>
        \/ pc[q] \in {"readState", "health", "readLock", "close", "checkState", "checkLock"}
        \/ pc[q] = "open" /\ stage[q] = 1

\* Nothing happens between the read of the state and the check of its server.
ReadIsFresh == \A p \in Procs : pc[p] = "health" => seen[p] = stateFile

\* Where the state leads to a server that is up, whoever went past the first look, past
\* a look while it waited, has had a check there that timed out.
ChecksWereMissed ==
    \A p, q \in Procs : Up(p) /\ stateFile = p /\ ~Settled(q) =>
        /\ (pc[q] = "open" /\ stage[q] = 1) \/ pc[q] = "readLock" => 1 \in missed[q]
        /\ stage[q] = 3 /\ pc[q] \in {"readState", "health"} => 1 \in missed[q]
        /\ stage[q] = 3 /\ pc[q] = "readLock" => 3 \in missed[q]
        /\ stage[q] = 4 /\ pc[q] \in {"readState", "health"} => {1, 3} \subseteq missed[q]

\* Nobody creates the lock between the unlink of a takeover and its open, so nobody
\* looks a last time, or fails, but after a check that found the server it had missed.
TakeOverSucceeds ==
    \A p \in Procs :
        /\ pc[p] = "unlinkState" \/ (pc[p] = "open" /\ stage[p] # 1) => lockFile = NoProc
        /\ stage[p] = 5 \/ pc[p] = "failed" => {1, 3} \subseteq missed[p]
        /\ pc[p] = "off" => stage[p] = 1

\* Who takes over for a check that timed out looks for no server any more.
TakersGoOn ==
    \A p \in Procs : 4 \in missed[p] =>
        stage[p] = 4 /\ pc[p] \notin {"off", "readState", "health", "readLock"}

\* The inductive invariant.
IInv ==
    /\ Typed /\ OneMover /\ ServersListen /\ FilesOfOwner /\ OwnerIsSafe
    /\ ReadIsFresh /\ ChecksWereMissed /\ TakeOverSucceeds /\ TakersGoOn

\* Start and ShutDown wait until all have settled, and no other step wakes a process.
LEMMA StepOneMover ==
    ASSUME ~Overlap, Typed, OneMover, NEW p \in Procs, ProcStep(p)
    PROVE  OneMover'
<1>1. pc'[p] \in Moves /\ \A q \in Procs \ {p} : pc'[q] = pc[q]
  BY StepTyped
<1>2. \/ ~Settled(p)
      \/ \A q \in Procs : Settled(q)
      \/ pc'[p] \in {"exited", "dead", "reused"}
  <2> USE DEF Settled, Gone
  <2>1. CASE Start(p) \/ ShutDown(p)
    BY <2>1 DEF Start, ShutDown
  <2>2. CASE BridgeExits(p) \/ Crash(p) \/ ReusePid(p)
    BY <2>2 DEF BridgeExits, Crash, ReusePid, Goto, Typed
  <2>3. CASE Step(p)
    BY <2>3 DEF Step, ReadState, Healthy, Unhealthy, UnlinkLock, UnlinkState, OpenLock,
                LockExists,
                InspectLock, WaitExpires, WriteLock, InitContext, Listen, Publish, CloseServer,
                CheckState, CleanState, CheckLock, CleanLock
  <2>4. QED
    BY <2>1, <2>2, <2>3 DEF ProcStep
<1>3. QED
  BY <1>1, <1>2 DEF OneMover, Settled, Gone

\* Each step that adds p to the servers, or takes it away, moves it to match.
LEMMA StepServersListen ==
    ASSUME Typed, ServersListen, NEW p \in Procs, ProcStep(p)
    PROVE  ServersListen'
<1>1. \A q \in Procs \ {p} : pc'[q] = pc[q] /\ (q \in serving' <=> q \in serving)
  BY StepTyped
<1>2. p \in serving' <=> pc'[p] \in {"publish", "up", "close"}
  <2> USE DEF ServersListen, Typed, Goto, GotoStage
  <2>1. CASE ReadState(p) \/ Unhealthy(p)
    BY <2>1 DEF ReadState, Unhealthy, NoState, LookAgain, TakeOver
  <2>2. CASE Start(p) \/ ShutDown(p) \/ BridgeExits(p) \/ Crash(p) \/ ReusePid(p)
    BY <2>2 DEF Start, ShutDown, BridgeExits, Crash, ReusePid
  <2>3. CASE Step(p) /\ ~ReadState(p) /\ ~Unhealthy(p)
    BY <2>3 DEF Step, Healthy, UnlinkLock, UnlinkState, OpenLock, LockExists, TakeOver,
                InspectLock, WaitExpires, WriteLock, InitContext, Listen, Publish, CloseServer,
                CheckState, CleanState, CheckLock, CleanLock
  <2>4. QED
    BY <2>1, <2>2, <2>3 DEF ProcStep
<1>3. QED
  BY <1>1, <1>2, StepTyped DEF ServersListen, Typed, DataTypeOK

\* What has been missed stays missed, by a process that looks for no server any more.
LEMMA OverlookedForGood ==
    ASSUME Typed, TakersGoOn, NEW p \in Procs, ProcStep(p)
    PROVE  \A q \in Procs : Overlooked(q) => Overlooked(q)'
<1>1. ASSUME NEW q \in Procs, NEW r \in Procs, seen[r] = q, {1, 3, 4} \subseteq missed[r]
      PROVE  seen'[r] = q /\ {1, 3, 4} \subseteq missed'[r]
  <2>1. missed[r] \subseteq missed'[r]
    BY StepTyped
  <2>2. CASE r # p
    BY <1>1, <2>1, <2>2, StepTyped
  <2>3. CASE r = p
    <3>1. pc[p] \notin {"off", "readState", "health", "readLock"}
      BY <1>1, <2>3 DEF TakersGoOn
    <3>2. seen' = seen
      BY <3>1 DEF ProcStep, Step, Start, ReadState, Healthy, Unhealthy, UnlinkLock,
                  UnlinkState, OpenLock, LockExists, InspectLock, WaitExpires, WriteLock,
                  InitContext, Listen, Publish, ShutDown, CloseServer, CheckState, CleanState,
                  CheckLock, CleanLock, BridgeExits, Crash, ReusePid
    <3>3. QED
      BY <1>1, <2>1, <3>2
  <2>4. QED
    BY <2>2, <2>3
<1>2. QED
  BY <1>1 DEF Overlooked

\* A server in sight after a step was in sight before, or is the one that published.
LEMMA InSightBefore ==
    ASSUME Typed, TakersGoOn, NEW p \in Procs, ProcStep(p)
    PROVE  \A q \in Procs : InSight(q)' => InSight(q) \/ (q = p /\ Publish(p))
<1>1. ASSUME NEW q \in Procs, Up(q)' PROVE Up(q) \/ (q = p /\ Publish(p))
  <2>1. CASE q # p
    BY <1>1, <2>1, StepTyped DEF Up
  <2>2. CASE q = p
    <3> USE <1>1, <2>2 DEF Up, Typed, Goto, GotoStage
    <3>1. CASE ReadState(p) \/ Unhealthy(p)
      BY <3>1 DEF ReadState, Unhealthy, NoState, LookAgain, TakeOver
    <3>2. CASE Start(p) \/ ShutDown(p) \/ BridgeExits(p) \/ Crash(p) \/ ReusePid(p)
      BY <3>2 DEF Start, ShutDown, BridgeExits, Crash, ReusePid
    <3>3. CASE Step(p) /\ ~ReadState(p) /\ ~Unhealthy(p) /\ ~Publish(p)
      BY <3>3 DEF Step, Healthy, UnlinkLock, UnlinkState, OpenLock, LockExists, TakeOver,
                  InspectLock, WaitExpires, WriteLock, InitContext, Listen, CloseServer,
                  CheckState, CleanState, CheckLock, CleanLock
    <3>4. QED
      BY <3>1, <3>2, <3>3 DEF ProcStep
  <2>3. QED
    BY <2>1, <2>2
<1>2. QED
  BY <1>1, OverlookedForGood DEF InSight

\* Who creates the lock is the only one who moves; while a server is in sight, whoever
\* moves touches no file.
LEMMA StepFiles ==
    ASSUME ~Overlap, IInv, NEW p \in Procs, ProcStep(p)
    PROVE  FilesOfOwner'
<1> USE DEF IInv, Typed, FilesOfOwner, Goto, GotoStage, files, Starting
<1>1. /\ \A q \in Procs \ {p} : pc'[q] = pc[q]
      /\ \A q \in Procs : InSight(q)' => InSight(q) \/ (q = p /\ Publish(p))
  BY StepTyped, InSightBefore
<1>2. ASSUME UNCHANGED files, pc'[p] \notin Starting, ~Publish(p)
      PROVE  FilesOfOwner'
  BY <1>1, <1>2
<1>3. CASE UnlinkLock(p) \/ UnlinkState(p) \/ OpenLock(p) \/ CleanState(p) \/ CleanLock(p)
  <2>1. \A q \in Procs : ~InSight(q)
    BY <1>3, InstanceAssumption
       DEF UnlinkLock, UnlinkState, OpenLock, CleanState, CleanLock, Settled, Gone,
           OwnerIsSafe
  <2>2. \A q \in Procs \ {p} : pc[q] \notin Starting
    BY <1>3 DEF UnlinkLock, UnlinkState, OpenLock, CleanState, CleanLock, Settled, Gone,
                OneMover
  <2>3. \A q \in Procs : ~InSight(q)'
    BY <1>1, <1>3, <2>1 DEF UnlinkLock, UnlinkState, OpenLock, CleanState, CleanLock, Publish
  <2>4. QED
    BY <1>1, <1>3, <2>2, <2>3 DEF UnlinkLock, UnlinkState, OpenLock, CleanState, CleanLock
<1>4. CASE WriteLock(p) \/ InitContext(p) \/ Listen(p) \/ Publish(p)
  <2>1. \A q \in Procs \ {p} : ~InSight(q) /\ pc[q] \notin Starting
    BY <1>4 DEF WriteLock, InitContext, Listen, Publish, Settled, Gone, OwnerIsSafe, OneMover
  <2>2. lockFile' = p /\ written'
    <3>1. lockFile = p /\ lockFile' = p
      BY <1>4 DEF WriteLock, InitContext, Listen, Publish
    <3>2. CASE WriteLock(p)
      BY <3>1, <3>2, Zenon DEF WriteLock
    <3>3. CASE ~WriteLock(p)
      BY <1>4, <3>3 DEF InitContext, Listen, Publish
    <3>4. QED
      BY <3>1, <3>2, <3>3
  <2>3. InSight(p)' => stateFile' = p
    BY <1>4 DEF WriteLock, InitContext, Listen, Publish, InSight, Up
  <2>4. QED
    BY <1>1, <2>1, <2>2, <2>3
<1>5. CASE ReadState(p) \/ Unhealthy(p)
  BY <1>2, <1>5 DEF ReadState, Unhealthy, NoState, LookAgain, TakeOver, Publish
<1>6. CASE Start(p) \/ Healthy(p) \/ LockExists(p) \/ InspectLock(p) \/ WaitExpires(p)
  BY <1>2, <1>6 DEF Start, Healthy, LockExists, InspectLock, WaitExpires, TakeOver, Publish
<1>7. CASE \/ ShutDown(p) \/ CloseServer(p) \/ CheckState(p) \/ CheckLock(p)
           \/ BridgeExits(p) \/ ReusePid(p) \/ Crash(p)
  BY <1>2, <1>7 DEF ShutDown, CloseServer, CheckState, CheckLock, BridgeExits, ReusePid,
                    Crash, Publish
<1>8. QED
  BY <1>3, <1>4, <1>5, <1>6, <1>7 DEF ProcStep, Step

\* A start that meets a server in sight bridges to it, outwaits it or, when it has missed
\* the last check too, loses sight of it.
LEMMA StepSafe ==
    ASSUME ~Overlap, IInv, NEW p \in Procs, ProcStep(p)
    PROVE  OwnerIsSafe'
<1> USE DEF IInv, Typed, OwnerIsSafe, Goto, GotoStage
<1> DEFINE Harmless(m, n) ==
        \/ m \in {"readState", "health", "readLock", "close", "checkState", "checkLock"}
        \/ m = "open" /\ n = 1
<1>1. /\ \A q \in Procs \ {p} : pc'[q] = pc[q] /\ stage'[q] = stage[q]
      /\ \A q \in Procs : InSight(q)' => InSight(q) \/ (q = p /\ Publish(p))
  BY StepTyped, InSightBefore
<1>2. CASE Publish(p)
  <2>1. \A q \in Procs : Settled(q)'
    BY <1>1, <1>2 DEF Publish, OneMover, Settled, Gone
  <2>2. QED
    BY <2>1
<1>3. CASE BridgeExits(p) \/ ReusePid(p) \/ Crash(p)
  BY <1>1, <1>3 DEF BridgeExits, ReusePid, Crash, Publish, Settled, Gone
<1>4. ASSUME ~Publish(p),
             \A q \in Procs : InSight(q) /\ InSight(q)' =>
                 Harmless(pc'[p], stage'[p]) \/ Settled(p)'
      PROVE  OwnerIsSafe'
  <2>1. ASSUME NEW q \in Procs, NEW r \in Procs, InSight(q)', ~Settled(r)'
        PROVE  Harmless(pc'[r], stage'[r])
    <3>1. InSight(q)
      BY <1>1, <1>4, <2>1
    <3>2. CASE r = p
      BY <1>4, <2>1, <3>1, <3>2
    <3>3. CASE r # p
      BY <1>1, <2>1, <3>1, <3>3 DEF Settled
    <3>4. QED
      BY <3>2, <3>3
  <2>2. QED
    BY <2>1
<1>5. CASE Start(p) \/ ShutDown(p)
  BY <1>4, <1>5 DEF Start, ShutDown, Publish
<1>6. CASE Step(p) /\ ~Publish(p)
  <2>1. ~Settled(p)
    BY <1>6 DEF Step, ReadState, Healthy, Unhealthy, UnlinkLock, UnlinkState, OpenLock,
                LockExists, InspectLock, WaitExpires, WriteLock, InitContext, Listen,
                CloseServer, CheckState, CleanState, CheckLock, CleanLock, Settled, Gone
  <2>2. ASSUME NEW q \in Procs, InSight(q), InSight(q)'
        PROVE  Harmless(pc'[p], stage'[p]) \/ Settled(p)'
    <3>1. /\ Harmless(pc[p], stage[p])
          /\ lockFile = q /\ written /\ stateFile = q /\ pc[q] = "up" /\ q # NoProc
          /\ q # p /\ q \in serving
      BY <2>1, <2>2, InstanceAssumption DEF FilesOfOwner, InSight, Up, Settled, ServersListen
    <3>2. ~LockIsStale
      BY <3>1, Zenon DEF LockIsStale, ReadLock, IsPidRunning, Running, Gone
    <3>3. CASE ReadState(p) \/ Healthy(p)
      BY <3>1, <3>3 DEF ReadState, Healthy, Settled
    <3>4. CASE Unhealthy(p)
      <4>1. /\ seen[p] = q /\ pc[p] = "health" /\ seen' = seen
            /\ missed' = [missed EXCEPT ![p] = @ \cup {stage[p]}]
        BY <3>1, <3>4 DEF Unhealthy, ReadIsFresh
      <4>2. IsPidRunning(q)
        BY <3>1 DEF IsPidRunning, Running, Gone
      <4>3. CASE stage[p] = 1
        BY <3>4, <4>1, <4>2, <4>3 DEF Unhealthy
      <4>4. CASE stage[p] = 4
        <5>1. {1, 3} \subseteq missed[p]
          BY <2>1, <3>1, <4>1, <4>4 DEF ChecksWereMissed, Up
        <5>2. {1, 3, 4} \subseteq missed'[p] /\ seen'[p] = q
          BY <4>1, <4>4, <5>1 DEF DataTypeOK
        <5>3. QED
          BY <2>2, <5>2 DEF InSight, Overlooked
      <4>5. CASE stage[p] \notin {1, 4}
        BY <3>1, <3>4, <4>5 DEF Unhealthy, NoState, LookAgain, Settled, Gone
      <4>6. QED
        BY <4>3, <4>4, <4>5
    <3>5. CASE LockExists(p) \/ InspectLock(p) \/ WaitExpires(p) \/ OpenLock(p)
      BY <3>1, <3>2, <3>5 DEF LockExists, InspectLock, WaitExpires, OpenLock
    <3>6. CASE CloseServer(p) \/ CheckState(p)
      BY <3>1, <3>6 DEF CloseServer, CheckState
    <3>7. CASE CheckLock(p)
      BY <3>1, <3>7 DEF CheckLock, ReadLock, Settled, Gone
    <3>8. CASE \/ UnlinkLock(p) \/ UnlinkState(p) \/ WriteLock(p) \/ InitContext(p)
               \/ Listen(p) \/ CleanState(p) \/ CleanLock(p)
      BY <3>1, <3>8 DEF UnlinkLock, UnlinkState, WriteLock, InitContext, Listen, CleanState,
                        CleanLock
    <3>9. QED
      BY <1>6, <3>3, <3>4, <3>5, <3>6, <3>7, <3>8 DEF Step
  <2>3. QED
    BY <1>4, <1>6, <2>2
<1>7. QED
  BY <1>2, <1>3, <1>5, <1>6 DEF ProcStep

\* Whoever writes or removes the state is the only one who moves.
LEMMA StepFresh ==
    ASSUME ~Overlap, IInv, NEW p \in Procs, ProcStep(p)
    PROVE  ReadIsFresh'
<1> USE DEF IInv, Typed, DataTypeOK, ReadIsFresh, Goto, GotoStage, files
<1>1. \A q \in Procs \ {p} : pc'[q] = pc[q] /\ seen'[q] = seen[q]
  BY StepTyped
<1>2. ASSUME stateFile' = stateFile, pc'[p] # "health" PROVE ReadIsFresh'
  BY <1>1, <1>2
<1>3. CASE UnlinkState(p) \/ Publish(p) \/ CleanState(p)
  <2>1. /\ pc'[p] # "health"
        /\ \A q \in Procs \ {p} : pc[q] # "health"
    BY <1>3 DEF UnlinkState, Publish, CleanState, OneMover, Settled, Gone
  <2>2. QED
    BY <1>1, <2>1
<1>4. CASE ReadState(p)
  BY <1>1, <1>4 DEF ReadState
<1>5. CASE Unhealthy(p) \/ Healthy(p)
  BY <1>2, <1>5 DEF Unhealthy, NoState, LookAgain, TakeOver, Healthy
<1>6. CASE \/ UnlinkLock(p) \/ OpenLock(p) \/ LockExists(p) \/ InspectLock(p)
           \/ WaitExpires(p) \/ WriteLock(p) \/ InitContext(p) \/ Listen(p)
  BY <1>2, <1>6 DEF UnlinkLock, OpenLock, LockExists, InspectLock, TakeOver, WaitExpires,
                    WriteLock, InitContext, Listen
<1>7. CASE \/ CloseServer(p) \/ CheckState(p) \/ CheckLock(p) \/ CleanLock(p) \/ Start(p)
           \/ ShutDown(p) \/ BridgeExits(p) \/ Crash(p) \/ ReusePid(p)
  BY <1>2, <1>7 DEF CloseServer, CheckState, CheckLock, CleanLock, Start, ShutDown,
                    BridgeExits, Crash, ReusePid
<1>8. QED
  BY <1>3, <1>4, <1>5, <1>6, <1>7 DEF ProcStep, Step

\* What a process at a stage must have missed if the state leads to a server that is up.
HasMissed(q) ==
    /\ (pc[q] = "open" /\ stage[q] = 1) \/ pc[q] = "readLock" => 1 \in missed[q]
    /\ stage[q] = 3 /\ pc[q] \in {"readState", "health"} => 1 \in missed[q]
    /\ stage[q] = 3 /\ pc[q] = "readLock" => 3 \in missed[q]
    /\ stage[q] = 4 /\ pc[q] \in {"readState", "health"} => {1, 3} \subseteq missed[q]

\* The state leads to a server, so no look finds none, and a check that does not find
\* it has timed out.
LEMMA StepMissed ==
    ASSUME ~Overlap, IInv, NEW p \in Procs, ProcStep(p)
    PROVE  ChecksWereMissed'
<1> USE DEF IInv, Typed, DataTypeOK, Goto, GotoStage
<1>1. /\ missed[p] \subseteq missed'[p]
      /\ \A q \in Procs \ {p} :
            pc'[q] = pc[q] /\ stage'[q] = stage[q] /\ missed'[q] = missed[q]
  BY StepTyped
<1>2. CASE Publish(p)
  <2>1. \A q \in Procs : Settled(q)'
    BY <1>1, <1>2 DEF Publish, OneMover, Settled, Gone
  <2>2. QED
    BY <2>1 DEF ChecksWereMissed
<1>3. CASE BridgeExits(p) \/ ReusePid(p) \/ Crash(p)
  <2>1. /\ UNCHANGED <<stateFile, stage, missed>>
        /\ pc'[p] \in {"exited", "dead", "reused"}
    BY <1>3 DEF BridgeExits, ReusePid, Crash, files
  <2>2. \A q \in Procs : Up(q)' => Up(q)
    BY <1>1, <2>1 DEF Up
  <2>3. \A q \in Procs : ~Settled(q)' => q # p /\ ~Settled(q)
    BY <1>1, <2>1 DEF Settled, Gone
  <2>4. QED
    BY <1>1, <2>1, <2>2, <2>3 DEF ChecksWereMissed
<1>4. CASE Start(p)
  BY <1>1, <1>4 DEF Start, TakeOverSucceeds, ChecksWereMissed, Up, Settled, Gone, files
<1>5. CASE ShutDown(p)
  BY <1>1, <1>5 DEF ShutDown, ChecksWereMissed, Up, Settled, Gone, files
<1>6. CASE Step(p) /\ ~Publish(p)
  <2>1. /\ ~Settled(p)
        /\ \A q \in Procs \ {p} : Settled(q)'
    <3>1. ~Settled(p)
      BY <1>6 DEF Step, ReadState, Healthy, Unhealthy, UnlinkLock, UnlinkState, OpenLock,
                  LockExists, InspectLock, WaitExpires, WriteLock, InitContext, Listen,
                  CloseServer, CheckState, CleanState, CheckLock, CleanLock, Settled, Gone
    <3>2. QED
      BY <1>1, <3>1 DEF OneMover, Settled
  <2>2. ASSUME NEW q \in Procs, Up(q)', stateFile' = q
        PROVE  HasMissed(p)' \/ Settled(p)'
    <3>1. CASE UnlinkState(p) \/ CleanState(p)
      BY <2>2, <3>1, InstanceAssumption DEF UnlinkState, CleanState
    <3>2. CASE \/ UnlinkLock(p) \/ OpenLock(p) \/ WriteLock(p) \/ InitContext(p) \/ Listen(p)
               \/ CloseServer(p) \/ CheckState(p) \/ CheckLock(p) \/ CleanLock(p)
      <4>1. /\ stage' = stage
            /\ \/ pc'[p] \notin {"readState", "health", "readLock", "open"}
               \/ Settled(p)'
        BY <3>2 DEF UnlinkLock, OpenLock, WriteLock, InitContext, Listen, CloseServer,
                    CheckState, CheckLock, CleanLock, Settled, Gone
      <4>2. Up(q) /\ stateFile = q
        BY <1>1, <2>2, <3>2 DEF Up, UnlinkLock, OpenLock, WriteLock, InitContext, Listen,
                CloseServer, CheckState, CheckLock, CleanLock, files
      <4>3. HasMissed(p)
        BY <2>1, <4>2 DEF ChecksWereMissed, HasMissed
      <4>4. QED
        BY <1>1, <4>1, <4>3 DEF HasMissed
    <3>3. CASE \/ ReadState(p) \/ Healthy(p) \/ Unhealthy(p) \/ LockExists(p)
               \/ InspectLock(p) \/ WaitExpires(p)
      <4>1. pc'[p] # "up"
        BY <3>3 DEF ReadState, Healthy, Unhealthy, LockExists, InspectLock, WaitExpires,
                    NoState, LookAgain, TakeOver
      <4>2. stateFile = q /\ q # p
        BY <2>2, <3>3, <4>1 DEF Up, ReadState, Healthy, Unhealthy, LockExists, InspectLock,
                                WaitExpires, files
      <4>3. Up(q)
        BY <1>1, <2>2, <4>2 DEF Up
      <4>4. HasMissed(p) /\ q \in serving /\ q # NoProc
        BY <2>1, <4>2, <4>3, InstanceAssumption
           DEF ChecksWereMissed, HasMissed, ServersListen, Up
      <4>5. CASE ReadState(p)
        BY <4>2, <4>4, <4>5 DEF ReadState, HasMissed
      <4>6. CASE Healthy(p)
        BY <4>4, <4>6 DEF Healthy, HasMissed, Settled
      <4>7. CASE Unhealthy(p)
        <5>1. stage[p] \in missed'[p] /\ pc[p] = "health"
          BY <4>2, <4>4, <4>7 DEF Unhealthy, ReadIsFresh
        <5>2. QED
          BY <1>1, <4>4, <4>7, <5>1 DEF Unhealthy, HasMissed, NoState, LookAgain, TakeOver
      <4>8. CASE LockExists(p)
        BY <4>4, <4>8 DEF LockExists, HasMissed, TakeOverSucceeds
      <4>9. CASE InspectLock(p)
        BY <4>4, <4>9 DEF InspectLock, TakeOver, HasMissed
      <4>10. CASE WaitExpires(p)
        BY <4>4, <4>10 DEF WaitExpires, HasMissed
      <4>11. QED
        BY <3>3, <4>5, <4>6, <4>7, <4>8, <4>9, <4>10
    <3>4. QED
      BY <1>6, <3>1, <3>2, <3>3 DEF Step
  <2>3. QED
    BY <2>1, <2>2 DEF ChecksWereMissed, HasMissed, Settled
<1>7. QED
  BY <1>2, <1>3, <1>4, <1>5, <1>6 DEF ProcStep

\* Between unlink and open only the process that takes over moves; a last look follows a
\* check that found the server, which its earlier checks had missed.
LEMMA StepTakeOver ==
    ASSUME ~Overlap, IInv, NEW p \in Procs, ProcStep(p)
    PROVE  TakeOverSucceeds'
<1> USE DEF IInv, Typed, TakeOverSucceeds, Goto, GotoStage, DataTypeOK, files
<1>1. /\ missed[p] \subseteq missed'[p]
      /\ \A q \in Procs \ {p} :
            pc'[q] = pc[q] /\ stage'[q] = stage[q] /\ missed'[q] = missed[q]
  BY StepTyped
<1>2. ASSUME lockFile' # NoProc => lockFile' = lockFile,
             pc'[p] \notin {"unlinkState", "open", "failed", "off"},
             stage'[p] # 5 \/ stage'[p] = stage[p]
      PROVE  TakeOverSucceeds'
  BY <1>1, <1>2
<1>3. CASE OpenLock(p)
  BY <1>1, <1>3 DEF OpenLock, OneMover, Settled, Gone
<1>4. CASE Healthy(p)
  <2>1. stage[p] = 4 => {1, 3} \subseteq missed[p]
    <3>1. /\ seen[p] = stateFile /\ seen[p] \in Procs /\ Up(seen[p])
          /\ ~Settled(p) /\ pc[p] = "health"
      BY <1>4 DEF Healthy, ServersListen, ReadIsFresh, OneMover, Up, Settled, Gone
    <3>2. QED
      BY <3>1 DEF ChecksWereMissed, Up, Settled, Gone
  <2>2. QED
    BY <1>1, <1>4, <2>1 DEF Healthy
<1>5. CASE ReadState(p) \/ Unhealthy(p)
  BY <1>1, <1>5 DEF ReadState, Unhealthy, NoState, LookAgain, TakeOver
<1>6. CASE UnlinkLock(p) \/ UnlinkState(p)
  BY <1>1, <1>6 DEF UnlinkLock, UnlinkState
<1>7. CASE LockExists(p) \/ InspectLock(p) \/ WaitExpires(p) \/ Start(p)
  BY <1>1, <1>2, <1>7 DEF LockExists, InspectLock, WaitExpires, TakeOver, Start
<1>8. CASE \/ WriteLock(p) \/ InitContext(p) \/ Listen(p) \/ Publish(p) \/ CloseServer(p)
           \/ CheckState(p) \/ CleanState(p) \/ CheckLock(p) \/ CleanLock(p)
  BY <1>2, <1>8 DEF WriteLock, InitContext, Listen, Publish, CloseServer, CheckState,
                    CleanState, CheckLock, CleanLock
<1>9. CASE BridgeExits(p) \/ ReusePid(p) \/ Crash(p) \/ ShutDown(p)
  BY <1>2, <1>9 DEF BridgeExits, ReusePid, Crash, ShutDown
<1>10. QED
  BY <1>3, <1>4, <1>5, <1>6, <1>7, <1>8, <1>9 DEF ProcStep, Step

\* Its lock is not there when it opens it, so it reads the state no more.
LEMMA StepTakers ==
    ASSUME ~Overlap, IInv, NEW p \in Procs, ProcStep(p)
    PROVE  TakersGoOn'
<1> USE DEF IInv, Typed, TakersGoOn, Goto, GotoStage, DataTypeOK, files
<1> DEFINE Past(m) == m \notin {"off", "readState", "health", "readLock"}
<1>1. \A q \in Procs \ {p} : pc'[q] = pc[q] /\ stage'[q] = stage[q] /\ missed'[q] = missed[q]
  BY StepTyped
<1>2. ASSUME missed' = missed, Past(pc[p]) => stage'[p] = stage[p] /\ Past(pc'[p])
      PROVE  TakersGoOn'
  BY <1>1, <1>2
<1>3. CASE Unhealthy(p)
  BY <1>1, <1>3 DEF Unhealthy, NoState, LookAgain, TakeOver
<1>4. CASE ReadState(p) \/ Healthy(p) \/ InspectLock(p) \/ WaitExpires(p) \/ Start(p)
  BY <1>2, <1>4 DEF ReadState, Healthy, InspectLock, WaitExpires, Start
<1>5. CASE LockExists(p)
  <2>1. stage[p] = 1
    BY <1>5 DEF LockExists, TakeOverSucceeds
  <2>2. 4 \notin missed[p]
    BY <2>1
  <2>3. QED
    BY <1>1, <1>5, <2>2 DEF LockExists
<1>6. CASE UnlinkLock(p) \/ UnlinkState(p) \/ OpenLock(p) \/ WriteLock(p)
  BY <1>2, <1>6 DEF UnlinkLock, UnlinkState, OpenLock, WriteLock
<1>7. CASE \/ InitContext(p) \/ Listen(p) \/ Publish(p) \/ CloseServer(p)
           \/ CheckState(p) \/ CleanState(p) \/ CheckLock(p) \/ CleanLock(p)
  BY <1>2, <1>7 DEF InitContext, Listen, Publish, CloseServer, CheckState, CleanState,
                    CheckLock, CleanLock
<1>8. CASE BridgeExits(p) \/ ReusePid(p) \/ Crash(p) \/ ShutDown(p)
  <2>1. Past(pc'[p]) /\ stage' = stage /\ missed' = missed
    BY <1>8 DEF BridgeExits, ReusePid, Crash, ShutDown
  <2>2. CASE 4 \notin missed[p]
    BY <1>1, <2>1, <2>2
  <2>3. CASE 4 \in missed[p]
    BY <1>1, <2>1, <2>3
  <2>4. QED
    BY <2>2, <2>3
<1>9. QED
  BY <1>3, <1>4, <1>5, <1>6, <1>7, <1>8 DEF ProcStep, Step

\* The first state satisfies the invariant.
LEMMA InitIInv == Init => IInv
<1> SUFFICES ASSUME Init PROVE IInv
  OBVIOUS
<1>1. Typed
  BY InitTyped DEF Typed, TypeOK, AnyMove
<1>2. \A p \in Procs : pc[p] = "off" /\ stage[p] = 1 /\ missed[p] = {}
  BY DEF Init
<1>3. OneMover /\ ServersListen
  BY <1>2 DEF Init, OneMover, Settled, ServersListen
<1>4. FilesOfOwner /\ OwnerIsSafe /\ ReadIsFresh /\ ChecksWereMissed
  BY <1>2 DEF FilesOfOwner, OwnerIsSafe, InSight, Up, ReadIsFresh, ChecksWereMissed, Starting
<1>5. TakeOverSucceeds /\ TakersGoOn
  BY <1>2 DEF TakeOverSucceeds, TakersGoOn
<1>6. QED
  BY <1>1, <1>3, <1>4, <1>5 DEF IInv

\* Every step keeps it.
LEMMA StepIInv ==
    ASSUME ~Overlap, IInv, [Next]_vars
    PROVE  IInv'
<1>1. ASSUME NEW p \in Procs, ProcStep(p) PROVE IInv'
  BY <1>1, StepTyped, StepOneMover, StepServersListen, StepFiles, StepSafe, StepFresh,
     StepMissed, StepTakeOver, StepTakers
     DEF IInv
<1>2. CASE UNCHANGED vars
  BY <1>2 DEF vars, files, IInv, Typed, DataTypeOK, RoundsLeft, OneMover, Settled,
              ServersListen, FilesOfOwner, OwnerIsSafe, InSight, Up, Overlooked, ReadIsFresh,
              ChecksWereMissed, TakeOverSucceeds, TakersGoOn
<1>3. QED
  BY <1>1, <1>2 DEF Next, ProcStep

\* So it always holds.
LEMMA Invariant ==
    ASSUME Overlap = FALSE
    PROVE  Spec => []IInv
<1>1. Init => IInv
  BY InitIInv
<1>2. IInv /\ [Next]_vars => IInv'
  BY StepIInv
<1>3. QED
  BY <1>1, <1>2, PTL DEF Spec

\* As long as no start or shutdown begins while another is under way, and whoever
\* crashes at whatever moment, two processes both believe that they own the lock only
\* if one of them serves and three checks of one start have timed out on it.
THEOREM OneOwner ==
    ASSUME Overlap = FALSE
    PROVE  Spec => []SingleOwner
<1>1. ASSUME IInv PROVE SingleOwner
  <2> DEFINE Known == {p \in Owners : ~Overlooked(p)}
  <2>1. \A p, q \in Known : p = q
    BY <1>1 DEF IInv, FilesOfOwner, InSight, Up, Owners, Owns, Starting
  <2>2. CASE Known = {}
    BY <2>2, FS_EmptySet DEF SingleOwner
  <2>3. ASSUME NEW p \in Known PROVE SingleOwner
    <3>1. Known = {p}
      BY <2>1
    <3>2. Cardinality(Known) = 1
      BY <3>1, FS_Singleton
    <3>3. QED
      BY <3>2 DEF SingleOwner
  <2>4. QED
    BY <2>2, <2>3
<1>2. QED
  BY <1>1, Invariant, PTL

\* Under the same condition the files lead to the server that is up until three checks
\* of one start have timed out on it.
THEOREM ServerIsFindable ==
    ASSUME Overlap = FALSE
    PROVE  Spec => []OwnerIsFindable
<1>1. ASSUME IInv PROVE OwnerIsFindable
  BY <1>1 DEF IInv, FilesOfOwner, OwnerIsFindable, InSight, Up
<1>2. QED
  BY <1>1, Invariant, PTL

\* Under the same condition, and whatever files a crash has left behind, a start fails
\* only if two of its checks have timed out on a server that was up.
THEOREM StartsFailForReasons ==
    ASSUME Overlap = FALSE
    PROVE  Spec => []NoNeedlessFailure
<1>1. ASSUME IInv PROVE NoNeedlessFailure
  BY <1>1 DEF IInv, TakeOverSucceeds, NoNeedlessFailure
<1>2. QED
  BY <1>1, Invariant, PTL

-----------------------------------------------------------------------------

\* The worker has the lock, or had it when it went on, and is to serve.
OnTheWay(w) == pc[w] \in Starting \cup {"up"}

\* The worker looks for a server or a lock and may still become the server.
Trying(w) == pc[w] \in Looking /\ stage[w] # 5

\* It has given up waiting, has removed the lock and is to create its own.
GoingIn(w) == stage[w] = 4 /\ pc[w] \in {"unlinkState", "open"}

\* The launcher has the lock and has not installed yet.
Installing(l) == pc[l] \in {"writeLock", "install"}

\* Where a launcher is once its installation returned.
Returned == {"checkOwn", "unlock", "poll", "pollHealth", "attached", "failed", "dead"}

AllTyped == Typed /\ LauncherTypeOK

\* What is known of a worker: who serves is up; nobody shuts down; the lock is its own
\* only on its way; and without a crash only an installation kills it.
WorkersOK ==
    \A w \in Workers :
        /\ w \in serving <=> pc[w] \in {"publish", "up"}
        /\ pc[w] \notin Stopping
        /\ pc[w] = "off" => stage[w] = 1
        /\ lockFile = w => OnTheWay(w) \/ pc[w] = "dead"
        /\ crashes = 0 /\ pc[w] = "dead" => service # NoProc

\* What is known of a launcher: the lock is its own only while it holds it; one whose
\* installation threw releases the lock and fails; one that releases it otherwise has
\* installed; without a crash none dies.
LaunchersOK ==
    \A l \in Launchers :
        /\ lockFile = l => pc[l] \in Locking \cup {"dead"}
        /\ l \in thrown => pc[l] \in {"checkOwn", "unlock", "failed", "dead"}
        /\ pc[l] \in {"checkOwn", "unlock"} /\ l \notin thrown => service # NoProc
        /\ crashes = 0 => pc[l] # "dead"

\* A service was installed by a launcher that did not throw and is past it.
InstalledBySomebody ==
    service # NoProc => \E l \in Launchers \ thrown : pc[l] \in Returned

Books == WorkersOK /\ LaunchersOK /\ InstalledBySomebody

\* What the moves of workers leave alone.
launchData == <<via, thrown, service>>
WorkerMoves(w) == Step(w) \/ BridgeExits(w) \/ Start(w)
LauncherMoves(l) == LauncherStep(l) \/ \E how \in {"start", "run"} : Launch(l, how)

\* The moves of a launcher that touch no worker.
PlainMove(l) == LauncherMoves(l) /\ ~\E w \in Workers : Install(l, w)

\* Where a launcher is that does not move.
LauncherEnds == {"off", "attached", "failed", "dead"}

\* A worker writes its own name into a file or removes the file.
LEMMA WorkerFiles ==
    ASSUME NEW w \in Workers, WorkerMoves(w)
    PROVE  /\ lockFile' \in {lockFile, NoProc, w}
           /\ stateFile' \in {stateFile, NoProc, w}
           /\ crashes' = crashes
BY DEF WorkerMoves, Start, BridgeExits, Step, ReadState, Healthy, Unhealthy, UnlinkLock,
       UnlinkState, OpenLock, LockExists, InspectLock, WaitExpires, WriteLock, InitContext,
       Listen, Publish, CloseServer, CheckState, CleanState, CheckLock, CleanLock, files

\* A worker's move keeps the types and leaves other processes alone.
LEMMA WorkerTyped ==
    ASSUME AllTyped, NEW w \in Workers, WorkerMoves(w), UNCHANGED launchData
    PROVE  /\ AllTyped'
           /\ \A p \in Procs \ {w} :
                 /\ pc'[p] = pc[p] /\ stage'[p] = stage[p]
                 /\ p \in serving' <=> p \in serving
<1>1. w \in Procs /\ w \notin Launchers
  BY LauncherAssumption
<1>2. /\ Typed' /\ pc'[w] \in Moves
      /\ \A p \in Procs \ {w} :
                 /\ pc'[p] = pc[p] /\ stage'[p] = stage[p]
                 /\ seen'[p] = seen[p] /\ (p \in serving' <=> p \in serving)
  BY <1>1, StepTyped DEF AllTyped, WorkerMoves, ProcStep
<1>3. stateFile' \in {stateFile, NoProc, w}
  BY WorkerFiles
<1>4. stateFile' \in Workers \cup {NoProc} /\ serving' \subseteq Workers
  BY <1>2, <1>3 DEF AllTyped, LauncherTypeOK, Typed, DataTypeOK
<1>5. /\ \A v \in Workers : pc'[v] \in Moves
      /\ \A l \in Launchers : pc'[l] = pc[l]
  BY <1>1, <1>2, LauncherAssumption DEF AllTyped, LauncherTypeOK
<1>6. QED
  BY <1>2, <1>4, <1>5, LauncherAssumption DEF AllTyped, Typed, LauncherTypeOK, launchData

\* A worker's move keeps what is known of workers; who is on the way stays on it.
LEMMA WorkerWorkersOK ==
    ASSUME AllTyped, WorkersOK, NEW w \in Workers, WorkerMoves(w), UNCHANGED launchData
    PROVE  WorkersOK' /\ (OnTheWay(w) => OnTheWay(w)') /\ pc'[w] \notin {"off", "dead"}
<1> USE DEF AllTyped, Typed, DataTypeOK, Goto, GotoStage, files, OnTheWay, Starting,
            Stopping, Looking, launchData
<1>1. w \in Procs /\ w # NoProc
  BY LauncherAssumption, InstanceAssumption
<1>2. /\ w \in serving' <=> pc'[w] \in {"publish", "up"}
      /\ pc'[w] \notin Stopping
      /\ pc'[w] \notin {"off", "dead"}
      /\ lockFile' = w => OnTheWay(w)'
      /\ OnTheWay(w) => OnTheWay(w)'
      /\ lockFile' \in {lockFile, NoProc, w} /\ crashes' = crashes
  <2> USE <1>1 DEF WorkersOK
  <2>1. CASE ReadState(w) \/ Unhealthy(w)
    BY <2>1 DEF ReadState, Unhealthy, NoState, LookAgain, TakeOver
  <2>2. CASE Healthy(w) \/ LockExists(w) \/ InspectLock(w) \/ WaitExpires(w)
    BY <2>2 DEF Healthy, LockExists, InspectLock, WaitExpires, TakeOver
  <2>3. CASE UnlinkLock(w) \/ UnlinkState(w) \/ OpenLock(w) \/ WriteLock(w)
    BY <2>3 DEF UnlinkLock, UnlinkState, OpenLock, WriteLock
  <2>4. CASE InitContext(w) \/ Listen(w) \/ Publish(w)
    BY <2>4 DEF InitContext, Listen, Publish
  <2>5. CASE CloseServer(w) \/ CheckState(w) \/ CleanState(w) \/ CheckLock(w) \/ CleanLock(w)
    BY <2>5 DEF CloseServer, CheckState, CleanState, CheckLock, CleanLock
  <2>6. CASE Start(w) \/ BridgeExits(w)
    BY <2>6 DEF Start, BridgeExits
  <2>7. QED
    BY <2>1, <2>2, <2>3, <2>4, <2>5, <2>6 DEF WorkerMoves, Step
<1>3. QED
  BY <1>1, <1>2, WorkerTyped, LauncherAssumption, InstanceAssumption DEF WorkersOK

\* A worker takes no lock in a launcher's name.
LEMMA WorkerLaunchersOK ==
    ASSUME AllTyped, LaunchersOK, InstalledBySomebody,
           NEW w \in Workers, WorkerMoves(w), UNCHANGED launchData
    PROVE  LaunchersOK' /\ InstalledBySomebody'
<1>1. \A l \in Launchers : l \in Procs /\ l # w /\ l # NoProc
  BY LauncherAssumption, InstanceAssumption
<1>2. lockFile' \in {lockFile, NoProc, w} /\ crashes' = crashes
  BY WorkerFiles
<1>3. QED
  BY <1>1, <1>2, WorkerTyped DEF LaunchersOK, InstalledBySomebody, launchData

\* A launcher's move other than the installation keeps the types and leaves all others,
\* and the servers, alone.
LEMMA PlainTyped ==
    ASSUME AllTyped, NEW l \in Launchers, PlainMove(l)
    PROVE  /\ AllTyped'
           /\ pc'[l] \in (Launching \cup LauncherEnds) \ {"off", "dead"}
           /\ \A p \in Procs \ {l} : pc'[p] = pc[p]
           /\ UNCHANGED <<stage, serving, crashes, service>>
<1>1. l \in Procs /\ l \notin Workers
  BY LauncherAssumption
<1>2. /\ \E m \in (Launching \cup LauncherEnds) \ {"off", "dead"} : Goto(l, m)
      /\ UNCHANGED <<stage, looks, serving, crashes, missed, service>>
  <2> USE DEF files, Launching, Locking, LauncherEnds, Resume
  <2>1. CASE LookState(l) \/ LookHealth(l) \/ LookLock(l) \/ DropLock(l) \/ DropState(l)
    BY <2>1 DEF LookState, LookHealth, LookLock, DropLock, DropState
  <2>2. CASE TakeLock(l) \/ FillLock(l) \/ InstallFails(l)
    BY <2>2 DEF TakeLock, FillLock, InstallFails
  <2>3. CASE CheckOwn(l) \/ Unlock(l) \/ Poll(l) \/ PollHealth(l) \/ PollExpires(l)
    BY <2>3 DEF CheckOwn, Unlock, Poll, PollHealth, PollExpires
  <2>4. CASE \E how \in {"start", "run"} : Launch(l, how)
    BY <2>4 DEF Launch
  <2>5. QED
    BY <2>1, <2>2, <2>3, <2>4 DEF PlainMove, LauncherMoves, LauncherStep
<1>3. /\ lockFile' \in {lockFile, NoProc, l}
      /\ stateFile' \in {stateFile, NoProc}
      /\ seen' = seen \/ seen' = [seen EXCEPT ![l] = stateFile]
      /\ written' \in {written, FALSE} \/ FillLock(l)
      /\ via' = via \/ \E how \in {"start", "run"} : via' = [via EXCEPT ![l] = how]
      /\ thrown' \in {thrown, thrown \cup {l}}
  BY DEF PlainMove, LauncherMoves, LauncherStep, files, LookState, LookHealth, LookLock,
         DropLock, DropState, TakeLock, FillLock, InstallFails, CheckOwn, Unlock, Poll,
         PollHealth, PollExpires, Launch
<1>4. written' \in BOOLEAN
  <2>1. CASE FillLock(l)
    BY <2>1, Zenon DEF FillLock
  <2>2. CASE ~FillLock(l)
    BY <1>3, <2>2 DEF AllTyped, Typed, DataTypeOK
  <2>3. QED
    BY <2>1, <2>2
<1>5. via' \in [Launchers -> {"start", "run"}] /\ thrown' \subseteq Launchers
  BY <1>3 DEF AllTyped, LauncherTypeOK
<1>6. /\ pc'[l] \in (Launching \cup LauncherEnds) \ {"off", "dead"}
      /\ \A p \in Procs \ {l} : pc'[p] = pc[p]
      /\ pc' \in [Procs -> AnyMove]
  BY <1>1, <1>2 DEF Goto, AllTyped, Typed, AnyMove, LauncherEnds, Moves, Gone
<1>7. DataTypeOK'
  BY <1>1, <1>2, <1>3, <1>4 DEF AllTyped, Typed, DataTypeOK
<1>8. RoundsLeft'
  BY <1>2, <1>6 DEF AllTyped, Typed, RoundsLeft, Launching, Locking, LauncherEnds, Looking
<1>9. LauncherTypeOK'
  BY <1>1, <1>2, <1>3, <1>5, <1>6, <1>7, LauncherAssumption DEF AllTyped, LauncherTypeOK,
       LauncherEnds
<1>10. QED
  BY <1>2, <1>6, <1>7, <1>8, <1>9 DEF AllTyped, Typed

\* An installation starts its worker and stops no one but the service before it.
LEMMA InstallTyped ==
    ASSUME AllTyped, NEW l \in Launchers, NEW w \in Workers, Install(l, w)
    PROVE  /\ AllTyped'
           /\ l \in Procs /\ w \in Procs /\ l # w /\ w # NoProc
           /\ service' = w
           /\ pc'[l] = "checkOwn" /\ pc'[w] = "readState"
           /\ \A p \in Procs \ {l, w} :
                 \/ pc'[p] = pc[p] /\ (p \in serving' <=> p \in serving)
                 \/ pc'[p] = "dead" /\ p \notin serving' /\ p \in Workers /\ service = p
           /\ w \in serving' => w \in serving
           /\ UNCHANGED <<files, stage, crashes, thrown>>
<1>1. l \in Procs /\ w \in Procs /\ l # w /\ w # NoProc
  BY LauncherAssumption, InstanceAssumption
<1>2. PICK stopped \in SUBSET ({service} \cap {p \in Workers : Running(p)}) :
          /\ serving' = serving \ stopped
          /\ pc' = [p \in Procs |-> CASE p = l -> "checkOwn"
                                      [] p = w -> "readState"
                                      [] p \in stopped -> "dead"
                                      [] OTHER -> pc[p]]
  BY DEF Install
<1>3. /\ pc' \in [Procs -> AnyMove]
      /\ pc'[l] = "checkOwn" /\ pc'[w] = "readState"
      /\ \A p \in Procs \ {l, w} :
            \/ pc'[p] = pc[p] /\ (p \in serving' <=> p \in serving)
            \/ pc'[p] = "dead" /\ p \notin serving' /\ p \in Workers /\ service = p
  <2>1. /\ pc'[l] = "checkOwn" /\ pc'[w] = "readState"
        /\ \A p \in Procs \ {l, w} : pc'[p] = IF p \in stopped THEN "dead" ELSE pc[p]
    <3>1. l \notin stopped /\ w \notin stopped
      BY <1>1, LauncherAssumption DEF Running, Install
    <3>2. pc'[l] = "checkOwn"
      BY <1>1, <1>2, <3>1
    <3>3. pc'[w] = "readState"
      BY <1>1, <1>2, <3>1
    <3>4. ASSUME NEW p \in Procs \ {l, w}
          PROVE  pc'[p] = IF p \in stopped THEN "dead" ELSE pc[p]
      BY <1>2
    <3>5. QED
      BY <3>2, <3>3, <3>4
  <2>2. \A p \in stopped : p \in Workers /\ service = p
    OBVIOUS
  <2>3. /\ \A p \in Procs : pc[p] \in AnyMove
        /\ {"checkOwn", "readState", "dead"} \subseteq AnyMove
    BY DEF AllTyped, Typed, AnyMove, Moves, Looking, Gone, Launching, Locking
  <2>4. pc' \in [Procs -> AnyMove]
    BY <1>2, <2>3
  <2>5. QED
    BY <1>2, <2>1, <2>2, <2>4
<1>4. /\ UNCHANGED <<files, stage, seen, looks, crashes, missed, via, thrown>>
      /\ service' = w /\ pc[w] = "off" /\ serving' \subseteq serving
  BY DEF Install
<1>5. DataTypeOK' /\ serving' \subseteq Workers
  BY <1>2, <1>4 DEF AllTyped, Typed, DataTypeOK, LauncherTypeOK, files
<1>6. RoundsLeft'
  BY <1>1, <1>3, <1>4 DEF AllTyped, Typed, RoundsLeft, Looking
<1>7. LauncherTypeOK'
  <2>1. \A v \in Workers : pc'[v] \in Moves
    BY <1>1, <1>3, LauncherAssumption DEF AllTyped, LauncherTypeOK, Moves, Looking, Gone
  <2>2. \A k \in Launchers : pc'[k] \in Launching \cup {"off", "attached", "failed", "dead"}
    BY <1>1, <1>3, LauncherAssumption DEF AllTyped, LauncherTypeOK, Launching, Locking
  <2>3. QED
    BY <1>4, <1>5, <2>1, <2>2 DEF AllTyped, LauncherTypeOK, files
<1>8. QED
  BY <1>1, <1>3, <1>4, <1>5, <1>6, <1>7 DEF AllTyped, Typed

\* A crash leaves the files and all others alone.
LEMMA CrashTyped ==
    ASSUME AllTyped, NEW p \in Procs, Crash(p), UNCHANGED launchData
    PROVE  /\ AllTyped'
           /\ pc'[p] = "dead" /\ p \notin serving' /\ crashes' # 0
           /\ \A q \in Procs \ {p} : pc'[q] = pc[q] /\ (q \in serving' <=> q \in serving)
           /\ UNCHANGED <<files, stage>>
<1>1. Typed'
  BY StepTyped DEF AllTyped, ProcStep
<1>2. /\ pc'[p] = "dead" /\ p \notin serving' /\ crashes' # 0
      /\ \A q \in Procs \ {p} : pc'[q] = pc[q] /\ (q \in serving' <=> q \in serving)
      /\ UNCHANGED <<files, stage>>
  BY DEF Crash, Goto, AllTyped, Typed, DataTypeOK
<1>3. LauncherTypeOK'
  <2>1. \A v \in Workers : pc'[v] \in Moves
    BY <1>2, LauncherAssumption DEF AllTyped, LauncherTypeOK, Moves, Gone
  <2>2. \A k \in Launchers : pc'[k] \in Launching \cup {"off", "attached", "failed", "dead"}
    BY <1>2, LauncherAssumption DEF AllTyped, LauncherTypeOK
  <2>3. serving' \subseteq Workers
    BY DEF Crash, AllTyped, LauncherTypeOK
  <2>4. QED
    BY <1>1, <1>2, <2>1, <2>2, <2>3 DEF AllTyped, LauncherTypeOK, launchData, files, Typed
<1>4. QED
  BY <1>1, <1>2, <1>3 DEF AllTyped

\* Who moves: a worker, a launcher without or with an installation, or a crash.
LEMMA LauncherCases ==
    ASSUME LauncherNext
    PROVE  \/ \E w \in Workers : WorkerMoves(w) /\ UNCHANGED launchData
           \/ \E l \in Launchers : PlainMove(l)
           \/ \E l \in Launchers, w \in Workers : Install(l, w)
           \/ \E p \in Procs : Crash(p) /\ UNCHANGED launchData
BY DEF LauncherNext, WorkerStep, WorkerMoves, launchData, LauncherMoves, PlainMove

\* The first state has the types.
LEMMA LauncherInitTyped == LauncherInit => AllTyped
<1> SUFFICES ASSUME LauncherInit PROVE AllTyped
  OBVIOUS
<1>1. Init /\ TypeOK /\ RoundsLeft
  BY InitTyped DEF LauncherInit
<1>2. Typed
  BY <1>1 DEF Typed, TypeOK, AnyMove
<1>3. /\ stateFile = NoProc /\ serving = {}
      /\ \A p \in Procs : pc[p] = "off"
  BY <1>1 DEF Init
<1>4. (\A w \in Workers : pc[w] \in Moves) /\ \A l \in Launchers : pc[l] = "off"
  BY <1>3, LauncherAssumption DEF Moves
<1>5. via \in [Launchers -> {"start", "run"}] /\ thrown \subseteq Launchers /\ service = NoProc
  BY DEF LauncherInit
<1>6. QED
  BY <1>2, <1>3, <1>4, <1>5 DEF AllTyped, Typed, LauncherTypeOK

\* Every variable keeps its type, however launchers and workers interleave: the state
\* file names workers only, and only workers serve.
THEOREM LauncherTypeCorrect == LauncherSpec => []LauncherTypeOK
<1>1. LauncherInit => AllTyped
  BY LauncherInitTyped
<1>2. ASSUME AllTyped, [LauncherNext]_launcherVars PROVE AllTyped'
  <2>1. CASE LauncherNext
    BY <1>2, <2>1, LauncherCases, WorkerTyped, PlainTyped, InstallTyped, CrashTyped
  <2>2. CASE UNCHANGED launcherVars
    BY <1>2, <2>2 DEF launcherVars, vars, files, AllTyped, Typed, DataTypeOK, RoundsLeft,
                      LauncherTypeOK
  <2>3. QED
    BY <1>2, <2>1, <2>2
<1>3. QED
  BY <1>1, <1>2, PTL DEF LauncherSpec, AllTyped

\* What a launcher's move other than the installation does to the lock file and to the
\* errors thrown: release() leaves the lock only if it is not the launcher's.
LEMMA PlainEffect ==
    ASSUME AllTyped, LaunchersOK, NEW l \in Launchers, PlainMove(l)
    PROVE  /\ \/ lockFile' \in {lockFile, NoProc}
              \/ lockFile' = l /\ pc[l] = "lock" /\ pc'[l] = "writeLock"
           /\ lockFile' = l => pc'[l] \in Locking
           /\ \/ thrown' = thrown
              \/ thrown' = thrown \cup {l} /\ Installing(l) /\ pc'[l] = "checkOwn"
           /\ l \in thrown => pc'[l] \in {"checkOwn", "unlock", "failed"}
           /\ pc'[l] \in {"checkOwn", "unlock"} =>
                 pc[l] \in {"checkOwn", "unlock"} \/ l \in thrown'
           /\ pc[l] \in Returned => pc'[l] \in Returned
           /\ Installing(l) => Installing(l)' \/ l \in thrown'
<1> USE DEF files, Goto, Locking, Returned, Installing
<1>0. l \in Procs /\ l # NoProc /\ pc \in [Procs -> AnyMove]
  BY LauncherAssumption, InstanceAssumption DEF AllTyped, Typed
<1>1. /\ lockFile = l => pc[l] \in Locking \cup {"dead"}
      /\ l \in thrown => pc[l] \in {"checkOwn", "unlock", "failed", "dead"}
  BY DEF LaunchersOK
<1>2. CASE LookState(l) \/ LookHealth(l) \/ LookLock(l)
  BY <1>0, <1>1, <1>2 DEF LookState, LookHealth, LookLock
<1>3. CASE DropLock(l) \/ DropState(l)
  BY <1>0, <1>1, <1>3 DEF DropLock, DropState
<1>4. CASE TakeLock(l)
  BY <1>0, <1>1, <1>4 DEF TakeLock
<1>5. CASE FillLock(l) \/ InstallFails(l)
  BY <1>0, <1>1, <1>5 DEF FillLock, InstallFails
<1>6. CASE CheckOwn(l) \/ Unlock(l)
  BY <1>0, <1>1, <1>6 DEF CheckOwn, Unlock, Resume, ReadLock
<1>7. CASE Poll(l) \/ PollHealth(l) \/ PollExpires(l)
  BY <1>0, <1>1, <1>7 DEF Poll, PollHealth, PollExpires
<1>8. CASE \E how \in {"start", "run"} : Launch(l, how)
  BY <1>0, <1>1, <1>8 DEF Launch
<1>9. QED
  BY <1>2, <1>3, <1>4, <1>5, <1>6, <1>7, <1>8 DEF PlainMove, LauncherMoves, LauncherStep

\* Such a move keeps what is known of workers and launchers.
LEMMA PlainBooks ==
    ASSUME AllTyped, Books, NEW l \in Launchers, PlainMove(l)
    PROVE  Books'
<1>1. /\ \A p \in Procs \ {l} : pc'[p] = pc[p]
      /\ UNCHANGED <<stage, serving, crashes, service>>
      /\ pc'[l] # "dead"
  BY PlainTyped
<1>2. \A w \in Workers : w \in Procs \ {l} /\ w # NoProc
  BY LauncherAssumption, InstanceAssumption
<1>3. \A k \in Launchers : k \in Procs /\ k # NoProc
  BY LauncherAssumption, InstanceAssumption
<1>4. WorkersOK'
  BY <1>1, <1>2, PlainEffect DEF Books, WorkersOK, OnTheWay
<1>5. LaunchersOK'
  <2>1. ASSUME NEW k \in Launchers, k # l
        PROVE  /\ lockFile' = k => pc'[k] \in Locking \cup {"dead"}
               /\ k \in thrown' => pc'[k] \in {"checkOwn", "unlock", "failed", "dead"}
               /\ pc'[k] \in {"checkOwn", "unlock"} /\ k \notin thrown' => service' # NoProc
               /\ crashes' = 0 => pc'[k] # "dead"
    BY <1>1, <1>3, <2>1, PlainEffect DEF Books, LaunchersOK
  <2>2. /\ lockFile' = l => pc'[l] \in Locking \cup {"dead"}
        /\ l \in thrown' => pc'[l] \in {"checkOwn", "unlock", "failed", "dead"}
        /\ pc'[l] \in {"checkOwn", "unlock"} /\ l \notin thrown' => service' # NoProc
        /\ crashes' = 0 => pc'[l] # "dead"
    BY <1>1, <1>3, PlainEffect DEF Books, LaunchersOK
  <2>3. QED
    BY <2>1, <2>2 DEF LaunchersOK
<1>6. InstalledBySomebody'
  BY <1>1, <1>3, PlainEffect DEF Books, InstalledBySomebody, Installing, Returned
<1>7. QED
  BY <1>4, <1>5, <1>6 DEF Books

\* So does an installation: it returns to its launcher, and kills in the open.
LEMMA InstallBooks ==
    ASSUME AllTyped, Books, NEW l \in Launchers, NEW w \in Workers, Install(l, w)
    PROVE  Books'
<1>1. pc[l] = "install" /\ pc[w] = "off"
  BY DEF Install
<1>2. \A k \in Launchers : k \in Procs /\ k \notin Workers
  BY LauncherAssumption
<1>3. \A v \in Workers : v \in Procs /\ v # NoProc
  BY LauncherAssumption, InstanceAssumption
<1>4. WorkersOK'
  BY <1>1, <1>2, <1>3, InstallTyped DEF Books, WorkersOK, OnTheWay, files, Stopping,
                                        Starting
<1>5. LaunchersOK'
  BY <1>1, <1>2, <1>3, InstallTyped DEF Books, LaunchersOK, files, Locking
<1>6. InstalledBySomebody'
  BY <1>1, InstallTyped DEF Books, LaunchersOK, InstalledBySomebody, Returned
<1>7. QED
  BY <1>4, <1>5, <1>6 DEF Books

\* So does a crash.
LEMMA CrashBooks ==
    ASSUME AllTyped, Books, NEW p \in Procs, Crash(p), UNCHANGED launchData
    PROVE  Books'
<1>1. \A k \in Launchers \cup Workers : k \in Procs
  BY LauncherAssumption
<1>2. WorkersOK'
  BY <1>1, CrashTyped DEF Books, WorkersOK, OnTheWay, files, Stopping, Starting, launchData
<1>3. LaunchersOK'
  BY <1>1, CrashTyped DEF Books, LaunchersOK, files, launchData
<1>4. InstalledBySomebody'
  BY <1>1, CrashTyped DEF Books, InstalledBySomebody, Returned, launchData
<1>5. QED
  BY <1>2, <1>3, <1>4 DEF Books

\* Nothing is known of the first state that it does not satisfy.
LEMMA InitBooks == LauncherInit => Books
<1> SUFFICES ASSUME LauncherInit PROVE Books
  OBVIOUS
<1>1. /\ \A p \in Procs : pc[p] = "off" /\ stage[p] = 1
      /\ lockFile = NoProc /\ serving = {} /\ crashes = 0 /\ thrown = {} /\ service = NoProc
  BY DEF LauncherInit, Init
<1>2. \A p \in Workers \cup Launchers : p \in Procs /\ p # NoProc
  BY LauncherAssumption, InstanceAssumption
<1>3. QED
  BY <1>1, <1>2 DEF Books, WorkersOK, LaunchersOK, InstalledBySomebody, Stopping

\* Every step keeps types and books.
LEMMA StepBooks ==
    ASSUME AllTyped, Books, [LauncherNext]_launcherVars
    PROVE  AllTyped' /\ Books'
<1>1. CASE LauncherNext
  <2>1. ASSUME NEW w \in Workers, WorkerMoves(w), UNCHANGED launchData PROVE AllTyped' /\ Books'
    BY <2>1, WorkerTyped, WorkerWorkersOK, WorkerLaunchersOK DEF Books
  <2>2. ASSUME NEW l \in Launchers, PlainMove(l) PROVE AllTyped' /\ Books'
    BY <2>2, PlainTyped, PlainBooks
  <2>3. ASSUME NEW l \in Launchers, NEW w \in Workers, Install(l, w) PROVE AllTyped' /\ Books'
    BY <2>3, InstallTyped, InstallBooks
  <2>4. ASSUME NEW p \in Procs, Crash(p), UNCHANGED launchData PROVE AllTyped' /\ Books'
    BY <2>4, CrashTyped, CrashBooks
  <2>5. QED
    BY <1>1, <2>1, <2>2, <2>3, <2>4, LauncherCases
<1>2. CASE UNCHANGED launcherVars
  BY <1>2 DEF launcherVars, vars, files, AllTyped, Typed, DataTypeOK, RoundsLeft,
              LauncherTypeOK,
              Books, WorkersOK, OnTheWay, LaunchersOK, InstalledBySomebody
<1>3. QED
  BY <1>1, <1>2

\* Whatever other launchers and workers do to the lock file meanwhile, a launcher that
\* waits or has ended has no lock in its name: the finally block around the
\* installation releases it also when the installation throws.
THEOREM LocksAreGivenUp == LauncherSpec => []NoAbandonedLock
<1>1. LauncherInit => AllTyped /\ Books
  BY LauncherInitTyped, InitBooks
<1>2. (AllTyped /\ Books) /\ [LauncherNext]_launcherVars => (AllTyped /\ Books)'
  BY StepBooks
<1>3. AllTyped /\ Books => NoAbandonedLock
  BY DEF Books, LaunchersOK, NoAbandonedLock
<1>4. QED
  BY <1>1, <1>2, <1>3, PTL DEF LauncherSpec

SomebodyOnTheWay == \E w \in Workers : OnTheWay(w)
SomebodyInstalls == \E l \in Launchers : Installing(l)
SomebodyTries == \E w \in Workers : Trying(w)
SomebodyWasLaunched == \E w \in Workers : pc[w] # "off"

\* While no installation has thrown, a lock file means that somebody will serve who is
\* not about to fail at that lock.
NothingThrown ==
    thrown = {} /\ crashes = 0 =>
      /\ lockFile # NoProc =>
            \/ SomebodyOnTheWay
            \/ SomebodyInstalls
            \/ \E w \in Workers : Trying(w) /\ ~GoingIn(w)
      /\ SomebodyWasLaunched => SomebodyOnTheWay \/ SomebodyInstalls \/ SomebodyTries

\* One launcher at most has been started.
OneLaunched == \A k, l \in Launchers : pc[k] # "off" /\ pc[l] # "off" => k = l

\* The launcher has the lock and has not installed, or failed to.
Took(l) == Installing(l) \/ l \in thrown

\* As long as nothing is installed, and one launcher started, a worker gives way to no
\* lock but of a worker on its way: the launcher's own lock it can meet once, and then
\* takes over without another in between.
NothingInstalled ==
    service = NoProc /\ crashes = 0 /\ OneLaunched =>
      /\ \A w \in Workers : stage[w] \in {3, 4, 5} =>
              SomebodyOnTheWay \/ \E l \in Launchers : Took(l)
      /\ \A w \in Workers : GoingIn(w) /\ lockFile \in Launchers => SomebodyOnTheWay
      /\ SomebodyWasLaunched => SomebodyOnTheWay \/ SomebodyTries

\* The invariant that a candidate for the server remains.
Candidates == NothingThrown /\ NothingInstalled

\* What becomes of a worker that moves: there is a server, it still tries, it did not
\* try before, or it meets a lock just when it takes over.
LEMMA WorkerEffect ==
    ASSUME AllTyped, WorkersOK, NEW w \in Workers, WorkerMoves(w), UNCHANGED launchData
    PROVE  /\ lockFile' \in {lockFile, NoProc} \/ OnTheWay(w)'
           /\ \/ SomebodyOnTheWay'
              \/ Trying(w)' /\ (GoingIn(w)' => lockFile' = NoProc \/ (Trying(w) /\ GoingIn(w)))
              \/ pc[w] # "off" /\ ~Trying(w)
              \/ GoingIn(w) /\ lockFile # NoProc /\ lockFile' = lockFile
           /\ stage'[w] \in {3, 4, 5} =>
                 \/ stage[w] \in {3, 4, 5}
                 \/ lockFile # NoProc /\ lockFile' = lockFile
           /\ GoingIn(w)' => GoingIn(w) \/ lockFile' = NoProc
<1> USE DEF files, Goto, GotoStage, Trying, GoingIn, Looking, AllTyped, Typed, DataTypeOK
<1>1. w \in Procs
  BY LauncherAssumption
<1>2. CASE Healthy(w)
  <2>1. PICK v \in Workers : v \in serving /\ v # w /\ OnTheWay(v)
    BY <1>2 DEF Healthy, WorkersOK, LauncherTypeOK, OnTheWay, Starting
  <2>2. OnTheWay(v)'
    BY <2>1, WorkerTyped, LauncherAssumption DEF OnTheWay
  <2>3. SomebodyOnTheWay'
    BY <2>2 DEF SomebodyOnTheWay
  <2>4. QED
    BY <1>1, <1>2, <2>3 DEF Healthy
<1>3. CASE ReadState(w) \/ Unhealthy(w)
  BY <1>1, <1>3 DEF ReadState, Unhealthy, NoState, LookAgain, TakeOver
<1>4. CASE LockExists(w)
  BY <1>1, <1>4 DEF LockExists
<1>5. CASE InspectLock(w) \/ WaitExpires(w)
  BY <1>1, <1>5, InstanceAssumption DEF InspectLock, WaitExpires, TakeOver, LockIsStale,
                                        ReadLock
<1>6. CASE UnlinkLock(w) \/ UnlinkState(w)
  BY <1>1, <1>6 DEF UnlinkLock, UnlinkState
<1>7. CASE OpenLock(w) \/ WriteLock(w) \/ InitContext(w) \/ Listen(w) \/ Publish(w)
  <2>1. OnTheWay(w)' /\ stage' = stage
    BY <1>1, <1>7 DEF OpenLock, WriteLock, InitContext, Listen, Publish, OnTheWay, Starting
  <2>2. ~GoingIn(w)'
    BY <2>1 DEF OnTheWay, Starting
  <2>3. QED
    BY <2>1, <2>2 DEF SomebodyOnTheWay
<1>8. CASE CloseServer(w) \/ CheckState(w) \/ CleanState(w) \/ CheckLock(w) \/ CleanLock(w)
  BY <1>1, <1>8 DEF CloseServer, CheckState, CleanState, CheckLock, CleanLock, WorkersOK,
                    Stopping
<1>9. CASE Start(w)
  BY <1>1, <1>9 DEF Start, WorkersOK
<1>10. CASE BridgeExits(w)
  BY <1>1, <1>10 DEF BridgeExits
<1>11. QED
  BY <1>2, <1>3, <1>4, <1>5, <1>6, <1>7, <1>8, <1>9, <1>10 DEF WorkerMoves, Step

\* No worker's move takes another off its way.
LEMMA WorkersPersist ==
    ASSUME AllTyped, WorkersOK, NEW w \in Workers, WorkerMoves(w), UNCHANGED launchData
    PROVE  /\ SomebodyOnTheWay => SomebodyOnTheWay'
           /\ \A v \in Workers \ {w} : /\ pc'[v] = pc[v] /\ stage'[v] = stage[v]
           /\ \A l \in Launchers : pc'[l] = pc[l]
<1>1. /\ \A v \in Workers \ {w} : /\ pc'[v] = pc[v] /\ stage'[v] = stage[v]
      /\ \A l \in Launchers : pc'[l] = pc[l]
  BY WorkerTyped, LauncherAssumption
<1>2. \A v \in Workers : OnTheWay(v) => OnTheWay(v)'
  BY <1>1, WorkerWorkersOK DEF OnTheWay
<1>3. QED
  BY <1>1, <1>2 DEF SomebodyOnTheWay

\* Whoever gives way at a takeover gives way to a candidate.
LEMMA WorkerNothingThrown ==
      ASSUME AllTyped, WorkersOK, NothingThrown,
             NEW w \in Workers, WorkerMoves(w), UNCHANGED launchData
      PROVE  NothingThrown'
<1> SUFFICES ASSUME thrown = {}, crashes = 0, ~SomebodyOnTheWay', ~SomebodyInstalls
             PROVE  /\ lockFile' # NoProc => \E v \in Workers : Trying(v)' /\ ~GoingIn(v)'
                    /\ SomebodyWasLaunched' => SomebodyTries'
  <2>1. SomebodyInstalls' <=> SomebodyInstalls
    BY WorkersPersist DEF SomebodyInstalls, Installing
  <2>2. thrown' = thrown /\ crashes' = crashes
    BY WorkerFiles DEF launchData
  <2>3. QED
    BY <2>1, <2>2 DEF NothingThrown
<1>1. /\ lockFile # NoProc => \E v \in Workers : Trying(v) /\ ~GoingIn(v)
      /\ SomebodyWasLaunched => SomebodyTries
  BY WorkersPersist DEF NothingThrown
<1>2. \A v \in Workers \ {w} :
         /\ Trying(v)' <=> Trying(v)
         /\ GoingIn(v)' <=> GoingIn(v)
         /\ pc'[v] = pc[v]
  BY WorkersPersist DEF Trying, GoingIn
<1>3. lockFile' \in {lockFile, NoProc}
  BY WorkerEffect DEF SomebodyOnTheWay
<1>4. CASE Trying(w)' /\ (GoingIn(w)' => lockFile' = NoProc \/ (Trying(w) /\ GoingIn(w)))
  BY <1>1, <1>2, <1>3, <1>4 DEF SomebodyTries
<1>5. CASE pc[w] # "off" /\ ~Trying(w)
  BY <1>1, <1>2, <1>3, <1>5 DEF SomebodyTries, SomebodyWasLaunched
<1>6. CASE GoingIn(w) /\ lockFile # NoProc /\ lockFile' = lockFile
  BY <1>1, <1>2, <1>6 DEF SomebodyTries
<1>7. QED
  BY <1>4, <1>5, <1>6, WorkerEffect

\* A lock, while nothing is installed, is a worker's on its way or a launcher's that
\* holds it to install, or that has thrown.
LEMMA HolderTook ==
    ASSUME AllTyped, Books, service = NoProc, crashes = 0, lockFile # NoProc
    PROVE  SomebodyOnTheWay \/ \E l \in Launchers : Took(l)
<1>1. lockFile \in Launchers \cup Workers
  BY LauncherAssumption DEF AllTyped, Typed, DataTypeOK
<1>2. CASE lockFile \in Workers
  BY <1>2 DEF Books, WorkersOK, SomebodyOnTheWay
<1>3. CASE lockFile \in Launchers
  BY <1>3 DEF Books, LaunchersOK, Took, Installing, Locking
<1>4. QED
  BY <1>1, <1>2, <1>3

\* With one launcher, whoever gives way at a takeover gives way to a worker.
LEMMA WorkerNothingInstalled ==
      ASSUME AllTyped, Books, NothingInstalled,
             NEW w \in Workers, WorkerMoves(w), UNCHANGED launchData
      PROVE  NothingInstalled'
<1> SUFFICES ASSUME service = NoProc, crashes = 0, OneLaunched, ~SomebodyOnTheWay'
             PROVE  /\ \A v \in Workers :
                          stage'[v] \in {3, 4, 5} => \E l \in Launchers : Took(l)
                    /\ \A v \in Workers : GoingIn(v)' => lockFile' \notin Launchers
                    /\ SomebodyWasLaunched' => SomebodyTries'
  <2>1. /\ OneLaunched' <=> OneLaunched
        /\ \A l \in Launchers : Took(l)' <=> Took(l)
    <3>1. thrown' = thrown /\ \A l \in Launchers : pc'[l] = pc[l]
      BY WorkersPersist DEF launchData, Books
    <3>2. OneLaunched' <=> OneLaunched
      BY <3>1 DEF OneLaunched
    <3>3. \A l \in Launchers : Took(l)' <=> Took(l)
      BY <3>1 DEF Took, Installing
    <3>4. QED
      BY <3>2, <3>3
  <2>2. service' = service /\ crashes' = crashes
    BY WorkerFiles DEF launchData
  <2>3. QED
    BY <2>1, <2>2 DEF NothingInstalled
<1> USE DEF Books
<1>0. ~SomebodyOnTheWay
  BY WorkersPersist
<1>1. /\ \A v \in Workers : stage[v] \in {3, 4, 5} => \E l \in Launchers : Took(l)
      /\ \A v \in Workers : GoingIn(v) => lockFile \notin Launchers
      /\ SomebodyWasLaunched => SomebodyTries
  BY <1>0 DEF NothingInstalled
<1>2. \A v \in Workers \ {w} : /\ (Trying(v)' <=> Trying(v)) /\ (GoingIn(v)' <=> GoingIn(v))
                               /\ pc'[v] = pc[v] /\ stage'[v] = stage[v]
  BY WorkersPersist DEF Trying, GoingIn
<1>3. lockFile' \in {lockFile, NoProc} /\ NoProc \notin Launchers
  BY WorkerEffect, InstanceAssumption, LauncherAssumption DEF SomebodyOnTheWay
<1>4. \A v \in Workers : stage'[v] \in {3, 4, 5} => \E l \in Launchers : Took(l)
  BY <1>0, <1>1, <1>2, WorkerEffect, HolderTook
<1>5. \A v \in Workers : GoingIn(v)' => lockFile' \notin Launchers
  BY <1>1, <1>2, <1>3, WorkerEffect
<1>6. SomebodyWasLaunched' => SomebodyTries'
  <2>1. CASE Trying(w)'
    BY <2>1 DEF SomebodyTries
  <2>2. CASE pc[w] # "off" /\ ~Trying(w)
    BY <1>1, <1>2, <2>2 DEF SomebodyTries, SomebodyWasLaunched
  <2>3. ~(GoingIn(w) /\ lockFile # NoProc)
    BY <1>0, <1>1, LauncherAssumption DEF AllTyped, Typed, DataTypeOK, WorkersOK,
                                          SomebodyOnTheWay
  <2>4. QED
    BY <2>1, <2>2, <2>3, WorkerEffect
<1>7. QED
  BY <1>4, <1>5, <1>6

\* A launcher's move other than the installation changes nothing of workers.
LEMMA PlainKeepsWorkers ==
    ASSUME AllTyped, NEW l \in Launchers, PlainMove(l)
    PROVE  /\ SomebodyOnTheWay' <=> SomebodyOnTheWay
           /\ SomebodyTries' <=> SomebodyTries
           /\ SomebodyWasLaunched' <=> SomebodyWasLaunched
           /\ \A w \in Workers : /\ pc'[w] = pc[w] /\ stage'[w] = stage[w]
                                /\ (Trying(w)' <=> Trying(w)) /\ (GoingIn(w)' <=> GoingIn(w))
<1>1. \A w \in Workers : pc'[w] = pc[w] /\ stage'[w] = stage[w]
  BY PlainTyped, LauncherAssumption
<1>2. \A w \in Workers : /\ (OnTheWay(w)' <=> OnTheWay(w))
                        /\ (Trying(w)' <=> Trying(w)) /\ (GoingIn(w)' <=> GoingIn(w))
  BY <1>1 DEF OnTheWay, Trying, GoingIn
<1>3. QED
  BY <1>1, <1>2 DEF SomebodyOnTheWay, SomebodyTries, SomebodyWasLaunched

\* A launcher gives a lock up by installing, by throwing or when it finds it lost.
LEMMA PlainNothingThrown ==
      ASSUME AllTyped, Books, NothingThrown, NEW l \in Launchers, PlainMove(l)
      PROVE  NothingThrown'
<1> SUFFICES ASSUME thrown' = {}, crashes' = 0
             PROVE  /\ lockFile' # NoProc =>
                          \/ SomebodyOnTheWay'
                          \/ SomebodyInstalls'
                          \/ \E w \in Workers : Trying(w)' /\ ~GoingIn(w)'
                    /\ SomebodyWasLaunched' =>
                          SomebodyOnTheWay' \/ SomebodyInstalls' \/ SomebodyTries'
  BY DEF NothingThrown
<1>1. thrown = {} /\ crashes = 0
  BY PlainEffect, PlainTyped DEF Books
<1>2. SomebodyInstalls => SomebodyInstalls'
  <2>1. \A k \in Launchers : Installing(k) => Installing(k)'
    BY PlainEffect, PlainTyped, LauncherAssumption DEF Books, Installing
  <2>2. QED
    BY <2>1 DEF SomebodyInstalls
<1>3. lockFile' \in {lockFile, NoProc} \/ SomebodyInstalls'
  BY PlainEffect DEF Books, SomebodyInstalls, Installing
<1>4. QED
  BY <1>1, <1>2, <1>3, PlainKeepsWorkers DEF NothingThrown

\* A launcher that would take the lock from under a takeover is another than the one
\* whose lock the worker waited for.
LEMMA PlainNothingInstalled ==
      ASSUME AllTyped, Books, NothingInstalled, NEW l \in Launchers, PlainMove(l)
      PROVE  NothingInstalled'
<1> SUFFICES ASSUME service' = NoProc, crashes' = 0, OneLaunched', ~SomebodyOnTheWay
             PROVE  /\ \A w \in Workers :
                          stage'[w] \in {3, 4, 5} => \E k \in Launchers : Took(k)'
                    /\ \A w \in Workers : GoingIn(w)' => lockFile' \notin Launchers
                    /\ SomebodyWasLaunched' => SomebodyTries'
  BY PlainKeepsWorkers DEF NothingInstalled
<1>1. service = NoProc /\ crashes = 0
  BY PlainTyped
<1>2. pc'[l] # "off" /\ \A k \in Launchers \ {l} : pc'[k] = pc[k]
  BY PlainTyped, LauncherAssumption
<1>3. OneLaunched
  BY <1>2 DEF OneLaunched
<1>4. /\ \A w \in Workers : stage[w] \in {3, 4, 5} => \E k \in Launchers : Took(k)
      /\ \A w \in Workers : GoingIn(w) => lockFile \notin Launchers
      /\ SomebodyWasLaunched => SomebodyTries
  BY <1>1, <1>3 DEF NothingInstalled
<1>5. \A k \in Launchers : Took(k) => Took(k)'
  BY <1>2, PlainEffect DEF Books, Took, Installing
<1>6. \A w \in Workers : GoingIn(w)' => lockFile' \notin Launchers
  <2>1. ASSUME NEW w \in Workers, GoingIn(w), lockFile' = l, pc[l] = "lock"
        PROVE  FALSE
    <3>1. PICK k \in Launchers : Took(k)
      BY <1>4, <2>1 DEF GoingIn
    <3>2. k = l
      BY <1>3, <2>1, <3>1 DEF OneLaunched, Took, Installing, Books, LaunchersOK
    <3>3. QED
      BY <2>1, <3>1, <3>2 DEF Took, Installing, Books, LaunchersOK
  <2>2. NoProc \notin Launchers
    BY InstanceAssumption, LauncherAssumption
  <2>3. QED
    BY <1>4, <2>1, <2>2, PlainEffect, PlainKeepsWorkers DEF Books
<1>7. QED
  BY <1>4, <1>5, <1>6, PlainKeepsWorkers, PlainTyped

\* Every step leaves a candidate: an installation brings one.
LEMMA StepCandidates ==
    ASSUME AllTyped, Books, Candidates, [LauncherNext]_launcherVars
    PROVE  Candidates'
<1>1. CASE LauncherNext
  <2>1. ASSUME NEW w \in Workers, WorkerMoves(w), UNCHANGED launchData PROVE Candidates'
    BY <2>1, WorkerNothingThrown, WorkerNothingInstalled DEF Books, Candidates
  <2>2. ASSUME NEW l \in Launchers, PlainMove(l) PROVE Candidates'
    BY <2>2, PlainNothingThrown, PlainNothingInstalled DEF Candidates
  <2>3. ASSUME NEW l \in Launchers, NEW w \in Workers, Install(l, w) PROVE Candidates'
    <3>1. stage[w] = 1
      BY <2>3 DEF Install, Books, WorkersOK
    <3>2. Trying(w)' /\ ~GoingIn(w)' /\ service' # NoProc
      BY <2>3, <3>1, InstallTyped DEF Trying, GoingIn, Looking
    <3>3. QED
      BY <3>2 DEF Candidates, NothingThrown, NothingInstalled, SomebodyTries
  <2>4. ASSUME NEW p \in Procs, Crash(p), UNCHANGED launchData PROVE Candidates'
    BY <2>4, CrashTyped DEF Candidates, NothingThrown, NothingInstalled
  <2>5. QED
    BY <1>1, <2>1, <2>2, <2>3, <2>4, LauncherCases
<1>2. CASE UNCHANGED launcherVars
  BY <1>2 DEF launcherVars, vars, files, Candidates, NothingThrown, NothingInstalled,
              OneLaunched, Took, Installing, SomebodyOnTheWay, OnTheWay, SomebodyInstalls,
              SomebodyTries, Trying, GoingIn, SomebodyWasLaunched
<1>3. QED
  BY <1>1, <1>2

\* At first nobody was launched.
LEMMA InitCandidates == LauncherInit => Candidates
<1> SUFFICES ASSUME LauncherInit PROVE Candidates
  OBVIOUS
<1>1. /\ \A w \in Workers : pc[w] = "off" /\ stage[w] = 1
      /\ lockFile = NoProc
  BY LauncherAssumption DEF LauncherInit, Init
<1>2. QED
  BY <1>1 DEF Candidates, NothingThrown, NothingInstalled, GoingIn, SomebodyWasLaunched

\* A candidate that has settled serves.
LEMMA SettledServes ==
    ASSUME AllTyped, Books, Candidates
    PROVE  SomebodyServes
<1> SUFFICES ASSUME AllSettled, SomebodyWasLaunched, crashes = 0,
                    \A l \in thrown : \A k \in Launchers \ {l} : pc[k] = "off"
             PROVE  SomebodyOnTheWay
  <2>1. \A w \in Workers : AllSettled /\ OnTheWay(w) => pc[w] = "up"
    BY DEF AllSettled, Settled, OnTheWay, Starting, Gone
  <2>2. QED
    BY <2>1 DEF SomebodyServes, SomebodyOnTheWay, SomebodyWasLaunched, Books, WorkersOK
<1>1. ~SomebodyTries
  BY DEF AllSettled, Settled, SomebodyTries, Trying, Looking, Gone
<1>2. ~SomebodyInstalls
  BY DEF AllSettled, SomebodyInstalls, Installing
<1>3. CASE thrown = {}
  BY <1>1, <1>2, <1>3 DEF Candidates, NothingThrown
<1>4. ASSUME NEW l \in thrown PROVE SomebodyOnTheWay
  <2>1. l \in Launchers /\ OneLaunched
    BY <1>4 DEF OneLaunched, AllTyped, LauncherTypeOK
  <2>2. service = NoProc
    BY <1>4, <2>1 DEF Books, InstalledBySomebody, Returned
  <2>3. QED
    BY <1>1, <2>1, <2>2 DEF Candidates, NothingInstalled
<1>5. QED
  BY <1>3, <1>4

\* However many launchers install at once, whichever installation replaces the worker
\* of another, and however they and the workers undo each other's lock and state files:
\* once all that started have settled a worker serves, unless somebody was killed or
\* one of several launchers failed to install.
THEOREM AWorkerServes == LauncherSpec => []SomebodyServes
<1> DEFINE Inv == AllTyped /\ Books /\ Candidates
<1>1. LauncherInit => Inv
  BY LauncherInitTyped, InitBooks, InitCandidates
<1>2. Inv /\ [LauncherNext]_launcherVars => Inv'
  BY StepBooks, StepCandidates
<1>3. Inv => SomebodyServes
  BY SettledServes
<1>4. QED
  BY <1>1, <1>2, <1>3, PTL DEF LauncherSpec
=============================================================================

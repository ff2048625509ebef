------------------------- MODULE InstanceCoordinator -------------------------
(***************************************************************************)
(* How processes running the same server agree on who serves: the lock     *)
(* file and the state file (src/runtime/lock.ts, state.ts), ensureInstance *)
(* (src/runtime/instance.ts), and the part of run() in src/server/app.ts   *)
(* that follows it, down to the owner's shutdown.                          *)
(*                                                                         *)
(* Processes share nothing but the two files, so a step is one system call *)
(* or one health request.  Opening the lock file and writing it are two    *)
(* calls: in between the file is there, and empty.  `stage' says in which  *)
(* of its numbered steps ensureInstance is, which decides where the shared *)
(* moves (read the state, ask for health, unlink, open) lead:              *)
(*   1  look for an instance, then try the lock                            *)
(*   2  the lock's holder is dead or its file unreadable: take it over     *)
(*   3  wait for the holder to come up                                     *)
(*   4  give up waiting: take the lock over unless the server is healthy   *)
(*   5  somebody else took it over: look for the server a last time        *)
(***************************************************************************)
EXTENDS Naturals, FiniteSets

CONSTANTS Procs,       \* processes; one that has gone does not come back
          NoProc,
          LastLooks,   \* the number of rounds of stage 5; 5 in the code
          MaxCrashes,  \* bound on the processes that are killed
          Overlap,     \* whether a start or shutdown may begin while another
                       \* is under way
          Stop,        \* whether owners are asked to shut down
          Patience,    \* whether maxWaitMs outlasts every start and shutdown
          Busy         \* whether a server may be too busy to answer a check in time

ASSUME InstanceAssumption ==
    /\ NoProc \notin Procs
    /\ LastLooks \in Nat \ {0}
    /\ MaxCrashes \in Nat
    /\ {Overlap, Stop, Patience, Busy} \subseteq BOOLEAN

VARIABLES lockFile,   \* who created the lock file (NoProc: there is none)
          written,    \* whether its creator has written it
          stateFile,  \* the process runtime.json names (NoProc: no file)
          pc,         \* the next move of each process
          stage,      \* the step of ensureInstance it is in
          seen,       \* the process named by the state it read last
          looks,      \* rounds of stage 5 it has done
          serving,    \* processes whose HTTP server answers
          crashes,    \* processes killed so far
          missed      \* the stages at which a process's health check of a server
                      \* that serves timed out

files == <<lockFile, written, stateFile>>
vars ==
    <<lockFile, written, stateFile, pc, stage, seen, looks, serving, crashes, missed>>

Looking == {"readState", "health", "unlinkLock", "unlinkState", "open", "readLock"}
Starting == {"write", "context", "listen", "publish"}
Stopping == {"close", "checkState", "cleanState", "checkLock", "cleanLock"}
Gone == {"exited", "failed", "dead", "reused"}
Moves == {"off"} \cup Looking \cup Starting \cup {"up", "bridge"} \cup Stopping \cup Gone

\* What processes that go through more than ensureInstance have in common.
DataTypeOK ==
    /\ lockFile \in Procs \cup {NoProc}
    /\ written \in BOOLEAN
    /\ stateFile \in Procs \cup {NoProc}
    /\ stage \in [Procs -> 1..5]
    /\ seen \in [Procs -> Procs \cup {NoProc}]
    /\ looks \in [Procs -> 0..LastLooks]
    /\ serving \subseteq Procs
    /\ crashes \in 0..MaxCrashes
    /\ missed \in [Procs -> SUBSET (1..5)]

TypeOK == DataTypeOK /\ pc \in [Procs -> Moves]

Init ==
    /\ lockFile = NoProc
    /\ written = FALSE
    /\ stateFile = NoProc
    /\ pc = [p \in Procs |-> "off"]
    /\ stage = [p \in Procs |-> 1]
    /\ seen = [p \in Procs |-> NoProc]
    /\ looks = [p \in Procs |-> 0]
    /\ serving = {}
    /\ crashes = 0
    /\ missed = [p \in Procs |-> {}]

Running(p) == pc[p] \notin {"off"} \cup Gone
Settled(p) == pc[p] \in {"off", "up", "bridge"} \cup Gone

\* readLock: the pid in the file, or null for a missing or empty one.
ReadLock == IF written THEN lockFile ELSE NoProc

\* isPidRunning: true also when a stranger has a dead process's pid.
IsPidRunning(p) == Running(p) \/ pc[p] = "reused"

\* !lock || !isPidRunning(lock.pid)
LockIsStale == ReadLock \notin {p \in Procs : IsPidRunning(p)}

Goto(p, move) == pc' = [pc EXCEPT ![p] = move]
GotoStage(p, move, n) ==
    /\ pc' = [pc EXCEPT ![p] = move]
    /\ stage' = [stage EXCEPT ![p] = n]

\* forceRelease, forceClean and another try follow.
TakeOver(p, n) == GotoStage(p, "unlinkLock", n)

Start(p) ==
    /\ pc[p] = "off"
    /\ Overlap \/ \A q \in Procs : Settled(q)
    /\ Goto(p, "readState")
    /\ UNCHANGED <<files, stage, seen, looks, serving, crashes, missed>>

LastRound(p) == looks[p] + 1 = LastLooks

\* A round of the last look ends without a server found.
LookAgain(p) ==
    /\ looks' = [looks EXCEPT ![p] = @ + 1]
    /\ IF LastRound(p) THEN Goto(p, "failed") ELSE Goto(p, "readState")
    /\ UNCHANGED stage

\* What each stage does when there is no state file.
NoState(p) ==
    \/ /\ stage[p] = 1
       /\ Goto(p, "open")
       /\ UNCHANGED <<stage, looks>>
    \/ /\ stage[p] = 3
       /\ Goto(p, "readLock")
       /\ UNCHANGED <<stage, looks>>
    \/ /\ stage[p] = 4
       /\ TakeOver(p, 4)
       /\ UNCHANGED looks
    \/ /\ stage[p] = 5
       /\ LookAgain(p)

\* stateManager.read()
ReadState(p) ==
    /\ pc[p] = "readState"
    /\ seen' = [seen EXCEPT ![p] = stateFile]
    /\ \/ /\ stateFile = NoProc
          /\ NoState(p)
       \/ /\ stateFile # NoProc
          /\ Goto(p, "health")
          /\ UNCHANGED <<stage, looks>>
    /\ UNCHANGED <<files, serving, crashes, missed>>

\* checkHealth finds the server: reuse it, or at stage 4 look for it once more.
Healthy(p) ==
    /\ pc[p] = "health"
    /\ seen[p] \in serving
    /\ IF stage[p] = 4 THEN GotoStage(p, "readState", 5)
                       ELSE Goto(p, "bridge") /\ UNCHANGED stage
    /\ UNCHANGED <<files, seen, looks, serving, crashes, missed>>

\* It does not: nobody serves there, or the request times out, as it may on a server
\* that is busy.
Unhealthy(p) ==
    /\ pc[p] = "health"
    /\ \/ /\ seen[p] \notin serving
          /\ UNCHANGED missed
       \/ /\ seen[p] \in serving
          /\ Busy
          /\ missed' = [missed EXCEPT ![p] = @ \cup {stage[p]}]
    /\ \/ /\ stage[p] = 1
          /\ Goto(p, IF IsPidRunning(seen[p]) THEN "open" ELSE "unlinkLock")
          /\ UNCHANGED <<stage, looks>>
       \/ /\ stage[p] # 1
          /\ NoState(p)
    /\ UNCHANGED <<files, seen, serving, crashes>>

\* Mutant: the unlink fails and the error is swallowed.
BugLockStays(p) ==
    /\ pc[p] = "unlinkLock"
    /\ Goto(p, "unlinkState")
    /\ UNCHANGED <<files, stage, seen, looks, serving, crashes, missed>>

\* lockManager.forceRelease()
UnlinkLock(p) ==
    /\ pc[p] = "unlinkLock"
    /\ lockFile' = NoProc
    /\ written' = FALSE
    /\ Goto(p, "unlinkState")
    /\ UNCHANGED <<stateFile, stage, seen, looks, serving, crashes, missed>>

\* stateManager.forceClean()
UnlinkState(p) ==
    /\ pc[p] = "unlinkState"
    /\ stateFile' = NoProc
    /\ Goto(p, "open")
    /\ UNCHANGED <<lockFile, written, stage, seen, looks, serving, crashes, missed>>

\* Mutant: success is taken for EEXIST.
BugOpenedIsFailed(p) ==
    /\ pc[p] = "open"
    /\ lockFile = NoProc
    /\ lockFile' = p
    /\ written' = FALSE
    /\ GotoStage(p, "readState", 5)
    /\ UNCHANGED <<stateFile, seen, looks, serving, crashes, missed>>

\* tryAcquire: openSync(lockPath, 'wx') succeeds.
OpenLock(p) ==
    /\ pc[p] = "open"
    /\ lockFile = NoProc
    /\ lockFile' = p
    /\ written' = FALSE
    /\ Goto(p, "write")
    /\ UNCHANGED <<stateFile, stage, seen, looks, serving, crashes, missed>>

\* tryAcquire: EEXIST.
LockExists(p) ==
    /\ pc[p] = "open"
    /\ lockFile # NoProc
    /\ \/ /\ stage[p] = 1
          /\ Goto(p, "readLock")
          /\ UNCHANGED stage
       \/ /\ stage[p] = 2
          /\ GotoStage(p, "readState", 3)
       \/ /\ stage[p] = 4
          /\ GotoStage(p, "readState", 5)
    /\ UNCHANGED <<files, seen, looks, serving, crashes, missed>>

\* The holder's lock as read at stage 1 and in each round of the wait; stage 4
\* follows when the holder is gone or maxWaitMs has passed.
InspectLock(p) ==
    /\ pc[p] = "readLock"
    /\ \/ /\ LockIsStale
          /\ stage[p] = 1
          /\ TakeOver(p, 2)
       \/ /\ LockIsStale
          /\ stage[p] = 3
          /\ GotoStage(p, "readState", 4)
       \/ /\ ~LockIsStale
          /\ GotoStage(p, "readState", 3)
    /\ UNCHANGED <<files, seen, looks, serving, crashes, missed>>

\* Mutant: no deadline.
BugWaitForever(p) == FALSE

\* maxWaitMs has passed.
WaitExpires(p) ==
    /\ Patience => \A q \in Procs : pc[q] \notin Starting \cup Stopping
    /\ pc[p] = "readLock"
    /\ stage[p] = 3
    /\ GotoStage(p, "readState", 4)
    /\ UNCHANGED <<files, seen, looks, serving, crashes, missed>>

\* Mutant: the pid stays unwritten.
BugLockEmpty(p) ==
    /\ pc[p] = "write"
    /\ Goto(p, "context")
    /\ UNCHANGED <<files, stage, seen, looks, serving, crashes, missed>>

\* tryAcquire: writeSync to the descriptor; the file may be another's by now.
WriteLock(p) ==
    /\ pc[p] = "write"
    /\ written' = (written \/ lockFile = p)
    /\ Goto(p, "context")
    /\ UNCHANGED <<lockFile, stateFile, stage, seen, looks, serving, crashes, missed>>

\* contextManager.initialize, which takes as long as the program's factory.
InitContext(p) ==
    /\ pc[p] = "context"
    /\ Goto(p, "listen")
    /\ UNCHANGED <<files, stage, seen, looks, serving, crashes, missed>>

\* startHttpServer, on a port of its own.
Listen(p) ==
    /\ pc[p] = "listen"
    /\ serving' = serving \cup {p}
    /\ Goto(p, "publish")
    /\ UNCHANGED <<files, stage, seen, looks, crashes, missed>>

\* Mutant: nothing is published.
BugNoState(p) ==
    /\ pc[p] = "publish"
    /\ Goto(p, "up")
    /\ UNCHANGED <<files, stage, seen, looks, serving, crashes, missed>>

\* stateManager.write: renames a complete file into place.
Publish(p) ==
    /\ pc[p] = "publish"
    /\ stateFile' = p
    /\ Goto(p, "up")
    /\ UNCHANGED <<lockFile, written, stage, seen, looks, serving, crashes, missed>>

-----------------------------------------------------------------------------
\* shutdown() of an owner: close the HTTP server, then clean(), then release(),
\* each of which reads its file before it unlinks it.
ShutDown(p) ==
    /\ Stop
    /\ pc[p] = "up"
    /\ Overlap \/ \A q \in Procs : Settled(q)
    /\ Goto(p, "close")
    /\ UNCHANGED <<files, stage, seen, looks, serving, crashes, missed>>

CloseServer(p) ==
    /\ pc[p] = "close"
    /\ serving' = serving \ {p}
    /\ Goto(p, "checkState")
    /\ UNCHANGED <<files, stage, seen, looks, crashes, missed>>

CheckState(p) ==
    /\ pc[p] = "checkState"
    /\ Goto(p, IF stateFile \in {NoProc, p} THEN "cleanState" ELSE "checkLock")
    /\ UNCHANGED <<files, stage, seen, looks, serving, crashes, missed>>

CleanState(p) ==
    /\ pc[p] = "cleanState"
    /\ stateFile' = NoProc
    /\ Goto(p, "checkLock")
    /\ UNCHANGED <<lockFile, written, stage, seen, looks, serving, crashes, missed>>

CheckLock(p) ==
    /\ pc[p] = "checkLock"
    /\ Goto(p, IF ReadLock \in {NoProc, p} THEN "cleanLock" ELSE "exited")
    /\ UNCHANGED <<files, stage, seen, looks, serving, crashes, missed>>

CleanLock(p) ==
    /\ pc[p] = "cleanLock"
    /\ lockFile' = NoProc
    /\ written' = FALSE
    /\ Goto(p, "exited")
    /\ UNCHANGED <<stateFile, stage, seen, looks, serving, crashes, missed>>

\* A bridge's client disconnects.
BridgeExits(p) ==
    /\ pc[p] = "bridge"
    /\ Goto(p, "exited")
    /\ UNCHANGED <<files, stage, seen, looks, serving, crashes, missed>>

\* The process is killed, or dies of an error before its exit handler is set;
\* the files stay as they are.
Crash(p) ==
    /\ crashes < MaxCrashes
    /\ Running(p)
    /\ crashes' = crashes + 1
    /\ serving' = serving \ {p}
    /\ Goto(p, "dead")
    /\ UNCHANGED <<files, stage, seen, looks, missed>>

\* The system gives a dead process's pid to a stranger that stays.
ReusePid(p) ==
    /\ pc[p] = "dead"
    /\ Goto(p, "reused")
    /\ UNCHANGED <<files, stage, seen, looks, serving, crashes, missed>>

\* What a process does by itself once started.
Step(p) ==
    \/ ReadState(p) \/ Healthy(p) \/ Unhealthy(p)
    \/ UnlinkLock(p) \/ UnlinkState(p)
    \/ OpenLock(p) \/ LockExists(p) \/ InspectLock(p) \/ WaitExpires(p)
    \/ WriteLock(p) \/ InitContext(p) \/ Listen(p) \/ Publish(p)
    \/ CloseServer(p) \/ CheckState(p) \/ CleanState(p) \/ CheckLock(p) \/ CleanLock(p)

Next ==
    \E p \in Procs :
       Start(p) \/ Step(p) \/ ShutDown(p) \/ BridgeExits(p) \/ Crash(p) \/ ReusePid(p)

\* Started processes go on, and a wait whose every round finds nothing is over
\* once maxWaitMs has passed; nobody has to start, stop or crash.
Spec ==
    /\ Init
    /\ [][Next]_vars
    /\ \A p \in Procs : WF_vars(Step(p)) /\ SF_vars(WaitExpires(p))

-----------------------------------------------------------------------------
Owns(p) == pc[p] \in {"context", "listen", "publish", "up"}
Owners == {p \in Procs : Owns(p)}

\* A process has taken p for gone though it served: its first look, a look while it
\* waited and the check before the takeover have all timed out.
Overlooked(p) == \E q \in Procs : seen[q] = p /\ {1, 3, 4} \subseteq missed[q]

\* At most one process believes it is the owner, but for servers that have missed
\* three checks of one start.
SingleOwner == Cardinality({p \in Owners : ~Overlooked(p)}) <= 1

\* While a server is up, the files lead others to it, and to nobody else, until it has
\* missed three checks of one start.
OwnerIsFindable ==
    \A p \in Procs : pc[p] = "up" /\ ~Overlooked(p) =>
        stateFile = p /\ lockFile = p /\ written

\* Whatever a crash left behind, a process that starts finds or becomes the server: one
\* ends with "Failed to acquire server lock" only if a server that was up has missed
\* both its first look and a look while it waited.
NoNeedlessFailure == \A p \in Procs : pc[p] = "failed" => {1, 3} \subseteq missed[p]

\* Every start comes to an end: the process serves, bridges to a server or fails,
\* even when the lock's holder lives but cannot be found.
EveryStartSettles == \A p \in Procs : pc[p] = "readState" ~> Settled(p)
=============================================================================

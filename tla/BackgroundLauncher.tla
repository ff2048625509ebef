-------------------------- MODULE BackgroundLauncher --------------------------
(***************************************************************************)
(* Background mode: start() and run() of src/server/app.ts do not serve    *)
(* themselves but install a service, whose worker then goes through        *)
(* ensureInstance like any process, and attach to whatever server the      *)
(* state file leads them to.  A launcher takes the same lock file while it *)
(* installs and gives it up before the worker can have it.                 *)
(***************************************************************************)
EXTENDS InstanceCoordinator

CONSTANTS Launchers,  \* processes that call start() or run()
          Workers     \* processes the service manager spawns

ASSUME LauncherAssumption ==
    /\ Procs = Launchers \cup Workers
    /\ Launchers \cap Workers = {}

VARIABLES via,      \* whether a launcher came through start() or run()
          thrown,   \* launchers whose installation threw
          service   \* the worker last installed, NoProc before

launcherVars == <<vars, via, thrown, service>>

Locking == {"writeLock", "install", "checkOwn", "unlock"}
Launching == {"lookState", "lookHealth", "lookLock", "dropLock", "dropState", "lock"}
                 \cup Locking \cup {"poll", "pollHealth"}

LauncherTypeOK ==
    /\ DataTypeOK
    /\ stateFile \in Workers \cup {NoProc}
    /\ serving \subseteq Workers
    /\ \A w \in Workers : pc[w] \in Moves
    /\ \A l \in Launchers : pc[l] \in Launching \cup {"off", "attached", "failed", "dead"}
    /\ via \in [Launchers -> {"start", "run"}]
    /\ thrown \subseteq Launchers
    /\ service \in Workers \cup {NoProc}

LauncherInit ==
    /\ Init
    /\ via = [l \in Launchers |-> "start"]
    /\ thrown = {}
    /\ service = NoProc

AllSettled ==
    /\ \A l \in Launchers : pc[l] \in {"off", "attached", "failed", "dead"}
    /\ \A w \in Workers : Settled(w)

Launch(l, how) ==
    /\ pc[l] = "off"
    /\ Overlap \/ AllSettled
    /\ via' = [via EXCEPT ![l] = how]
    /\ Goto(l, "lookState")
    /\ UNCHANGED <<files, stage, seen, looks, serving, crashes, missed, thrown, service>>

\* stateManager.read(): without a state start() looks at the lock, and run()
\* takes it.
LookState(l) ==
    /\ pc[l] = "lookState"
    /\ seen' = [seen EXCEPT ![l] = stateFile]
    /\ Goto(l, CASE stateFile # NoProc -> "lookHealth"
                 [] stateFile = NoProc /\ via[l] = "start" -> "lookLock"
                 [] OTHER -> "lock")
    /\ UNCHANGED <<files, stage, looks, serving, crashes, missed, via, thrown, service>>

\* checkHealth: a state whose server does not answer, or not in time, makes run() drop
\* both files whoever holds the lock.
LookHealth(l) ==
    /\ pc[l] = "lookHealth"
    /\ \/ /\ seen[l] \in serving
          /\ Goto(l, "attached")
       \/ /\ seen[l] \notin serving \/ Busy
          /\ Goto(l, IF via[l] = "start" THEN "lookLock" ELSE "dropLock")
    /\ UNCHANGED <<files, stage, seen, looks, serving, crashes, missed, via, thrown, service>>

LookLock(l) ==
    /\ pc[l] = "lookLock"
    /\ Goto(l, IF LockIsStale THEN "dropLock" ELSE "lock")
    /\ UNCHANGED <<files, stage, seen, looks, serving, crashes, missed, via, thrown, service>>

DropLock(l) ==
    /\ pc[l] = "dropLock"
    /\ lockFile' = NoProc
    /\ written' = FALSE
    /\ Goto(l, "dropState")
    /\ UNCHANGED <<stateFile, stage, seen, looks, serving, crashes, missed, via, thrown, service>>

DropState(l) ==
    /\ pc[l] = "dropState"
    /\ stateFile' = NoProc
    /\ Goto(l, "lock")
    /\ UNCHANGED <<lockFile, written, stage, seen, looks, serving, crashes, missed, via, thrown, service>>

\* tryAcquire: who does not get the lock waits for the server of who did.
TakeLock(l) ==
    /\ pc[l] = "lock"
    /\ \/ /\ lockFile = NoProc
          /\ lockFile' = l
          /\ written' = FALSE
          /\ Goto(l, "writeLock")
       \/ /\ lockFile # NoProc
          /\ Goto(l, "poll")
          /\ UNCHANGED <<lockFile, written>>
    /\ UNCHANGED <<stateFile, stage, seen, looks, serving, crashes, missed, via, thrown, service>>

FillLock(l) ==
    /\ pc[l] = "writeLock"
    /\ written' = (written \/ lockFile = l)
    /\ Goto(l, "install")
    /\ UNCHANGED <<lockFile, stateFile, stage, seen, looks, serving, crashes, missed, via, thrown, service>>

\* unitup.install with `force' and `start': a worker is spawned.  Whether the
\* one installed before is stopped is up to the service manager.
Install(l, w) ==
    /\ pc[l] = "install"
    /\ pc[w] = "off"
    /\ service' = w
    /\ \E stopped \in SUBSET ({service} \cap {p \in Workers : Running(p)}) :
          /\ serving' = serving \ stopped
          /\ pc' = [p \in Procs |-> CASE p = l -> "checkOwn"
                                      [] p = w -> "readState"
                                      [] p \in stopped -> "dead"
                                      [] OTHER -> pc[p]]
    /\ UNCHANGED <<files, stage, seen, looks, crashes, missed, via, thrown>>

\* Mutant: the lock is not released when the installation throws.
BugNoFinally(l) ==
    /\ pc[l] = "install"
    /\ Goto(l, "failed")
    /\ UNCHANGED <<files, stage, seen, looks, serving, crashes, missed, via, thrown, service>>

\* It throws: the finally block releases the lock, and the error goes on.
InstallFails(l) ==
    /\ pc[l] = "install"
    /\ thrown' = thrown \cup {l}
    /\ Goto(l, "checkOwn")
    /\ UNCHANGED <<files, stage, seen, looks, serving, crashes, missed, via, service>>

\* After the installation: the wait, or the error.
Resume(l) == IF l \in thrown THEN "failed" ELSE "poll"

\* lockManager.release(): the lock is read, and then unlinked.
CheckOwn(l) ==
    /\ pc[l] = "checkOwn"
    /\ Goto(l, IF ReadLock \in {NoProc, l} THEN "unlock" ELSE Resume(l))
    /\ UNCHANGED <<files, stage, seen, looks, serving, crashes, missed, via, thrown, service>>

Unlock(l) ==
    /\ pc[l] = "unlock"
    /\ lockFile' = NoProc
    /\ written' = FALSE
    /\ Goto(l, Resume(l))
    /\ UNCHANGED <<stateFile, stage, seen, looks, serving, crashes, missed, via, thrown, service>>

\* A round of the wait for a healthy server: the state, then its health.
Poll(l) ==
    /\ pc[l] = "poll"
    /\ stateFile # NoProc
    /\ seen' = [seen EXCEPT ![l] = stateFile]
    /\ Goto(l, "pollHealth")
    /\ UNCHANGED <<files, stage, looks, serving, crashes, missed, via, thrown, service>>

PollHealth(l) ==
    /\ pc[l] = "pollHealth"
    /\ \/ /\ seen[l] \in serving
          /\ Goto(l, "attached")
       \/ /\ seen[l] \notin serving \/ Busy
          /\ Goto(l, "poll")
    /\ UNCHANGED <<files, stage, seen, looks, serving, crashes, missed, via, thrown, service>>

\* maxWaitMs has passed.
PollExpires(l) ==
    /\ Patience => \A w \in Workers : Settled(w)
    /\ pc[l] = "poll"
    /\ Goto(l, "failed")
    /\ UNCHANGED <<files, stage, seen, looks, serving, crashes, missed, via, thrown, service>>

LauncherStep(l) ==
    \/ LookState(l) \/ LookHealth(l) \/ LookLock(l) \/ DropLock(l) \/ DropState(l)
    \/ TakeLock(l) \/ FillLock(l) \/ InstallFails(l) \/ \E w \in Workers : Install(l, w)
    \/ CheckOwn(l) \/ Unlock(l) \/ Poll(l) \/ PollHealth(l) \/ PollExpires(l)

\* A worker that finds a server has nothing to do and ends.
WorkerStep(w) == (Step(w) \/ BridgeExits(w)) /\ UNCHANGED <<via, thrown, service>>

LauncherNext ==
    \/ \E l \in Launchers, how \in {"start", "run"} : Launch(l, how)
    \/ \E l \in Launchers : LauncherStep(l)
    \/ \E w \in Workers : WorkerStep(w)
    \/ \E w \in Workers : Overlap /\ Start(w) /\ UNCHANGED <<via, thrown, service>>
    \/ \E p \in Procs : Crash(p) /\ UNCHANGED <<via, thrown, service>>

\* Workers go on, and their wait ends with the clock. A launcher may hang for
\* ever in the installation.
LauncherSpec ==
    /\ LauncherInit
    /\ [][LauncherNext]_launcherVars
    /\ \A w \in Workers :
          /\ WF_launcherVars(WorkerStep(w))
          /\ SF_launcherVars(WaitExpires(w) /\ UNCHANGED <<via, thrown, service>>)

-----------------------------------------------------------------------------
\* A launcher that waits or has ended has left no lock behind, whoever removed or
\* took the lock file while it installed, and even if the installation failed.
NoAbandonedLock == \A l \in Launchers : lockFile = l => pc[l] \in Locking \cup {"dead"}

\* Nobody is left attached to nothing, nor does everybody give way to everybody:
\* however processes undo each other's locks and state files, and whichever
\* installation replaces another's worker on its way up, once all that started
\* have settled a worker serves, unless one was killed, or one of several
\* launchers failed to install: a worker may have given way to its lock.
SomebodyServes ==
    /\ AllSettled
    /\ \E w \in Workers : pc[w] # "off"
    /\ crashes = 0
    /\ \A l \in thrown : \A k \in Launchers \ {l} : pc[k] = "off"
    => \E w \in Workers : pc[w] = "up" /\ w \in serving
=============================================================================

--------------------------- MODULE CentralRegistry ---------------------------
(***************************************************************************)
(* The registry of all servers of a user: servers.json, read and written   *)
(* by CentralRegistry of src/registry/central.ts, by the servers that      *)
(* register in it (start, run and stop of src/server/app.ts), and by the   *)
(* commands of src/cli/bin.ts that list, inspect, stop and clean.          *)
(*                                                                         *)
(* Nothing locks the file.  A write replaces it as a whole, so a reader    *)
(* never sees half of it; but every operation writes back a copy it read   *)
(* before, and what other processes wrote in between is lost.  A step is   *)
(* one read, one write, one health check or one signal.                    *)
(***************************************************************************)
EXTENDS Naturals, FiniteSets

CONSTANTS Servers,         \* server processes, and the pids they have
          Names, NameOf,   \* the names they register under
          Commands,        \* runs of the command line
          Stopped, Absent, \* an entry without a pid; no entry
          Lasting,         \* servers that go only when a command stops them,
                           \* which bounds an instance
          FixedPort        \* whether servers of one name share a port, and do
                           \* not have one assigned by the system

ASSUME RegistryAssumption ==
    /\ NameOf \in [Servers -> Names]
    /\ Stopped \notin Servers /\ Absent \notin Servers /\ Stopped # Absent
    /\ Servers \cap Commands = {}
    /\ Lasting \subseteq Servers
    /\ FixedPort \in BOOLEAN

VARIABLES file,       \* servers.json: the entry of each name; a running
                      \* server's is its pid, which its port goes with
          phase,      \* how far each server process has come
          serving,    \* servers whose HTTP server answers
          copy,       \* the contents each process read last
          step,       \* how far each command has come
          op,         \* what it does with the answer: show, clean, stop, kill
          scope,      \* the names it asked for
          todo,       \* those whose liveness it has still to check
          dirty,      \* whether it found a server dead
          targets,    \* the names it has still to stop, or saw stopped
          missed,     \* servers that registered since a process began, or that
                      \* it wrongly took for dead
          deadBefore, \* servers that were gone when a command asked
          wronged     \* servers that a process which missed them wrote over

reading == <<copy, scope, todo, dirty, deadBefore>>
vars == <<file, phase, serving, copy, step, op, scope, todo, dirty, targets, missed, deadBefore,
          wronged>>

Processes == Servers \cup Commands
Entries == Servers \cup {Stopped, Absent}
Registry == [Names -> Entries]
Phases == {"off", "listening", "registering", "up", "stopping", "deregistering", "closing",
           "gone", "recycled", "killed"}
Steps == {"idle", "checking", "answered", "deleting", "stopping", "waiting",
          "marking"}

TypeOK ==
    /\ file \in Registry
    /\ phase \in [Servers -> Phases]
    /\ serving \subseteq Servers
    /\ copy \in [Processes -> Registry]
    /\ step \in [Commands -> Steps]
    /\ op \in [Commands -> {"show", "clean", "stop", "kill"}]
    /\ scope \in [Commands -> SUBSET Names]
    /\ todo \in [Commands -> SUBSET Names]
    /\ dirty \in [Commands -> BOOLEAN]
    /\ targets \in [Commands -> SUBSET Names]
    /\ missed \in [Processes -> SUBSET Servers]
    /\ deadBefore \in [Commands -> SUBSET Servers]
    /\ wronged \subseteq Servers

NoEntries == [n \in Names |-> Absent]

Init ==
    /\ file = NoEntries
    /\ phase = [p \in Servers |-> "off"]
    /\ serving = {}
    /\ copy = [w \in Processes |-> NoEntries]
    /\ step = [c \in Commands |-> "idle"]
    /\ op = [c \in Commands |-> "show"]
    /\ scope = [c \in Commands |-> {}]
    /\ todo = [c \in Commands |-> {}]
    /\ dirty = [c \in Commands |-> FALSE]
    /\ targets = [c \in Commands |-> {}]
    /\ missed = [w \in Processes |-> {}]
    /\ deadBefore = [c \in Commands |-> {}]
    /\ wronged = {}

-----------------------------------------------------------------------------
\* save: the temporary file takes the place of the old one.
Save(w, data) ==
    /\ file' = data
    /\ wronged' = wronged \cup {p \in missed[w] : phase[p] = "up"}

\* A process holds a copy of the file it will write back.
Busy(w) == IF w \in Servers THEN phase[w] \in {"registering", "deregistering"}
                            ELSE step[w] # "idle"

\* A process is done with its copy.
Forget(w) == copy' = [copy EXCEPT ![w] = NoEntries]

\* Mutant: the lock is released before the entry is marked.
BugReleasedFirst(q) == phase[q] \notin {"listening", "registering", "up"}

\* The process holds no lock any more, or has not come to that yet.
HoldsNoLock(q) == phase[q] \in {"off", "gone", "recycled", "killed"}

\* An owner's HTTP server is up; the owner of a name is the only one.
Listen(p) ==
    /\ phase[p] = "off"
    /\ \A q \in Servers : NameOf[q] = NameOf[p] => HoldsNoLock(q)
    /\ phase' = [phase EXCEPT ![p] = "listening"]
    /\ serving' = serving \cup {p}
    /\ UNCHANGED <<file, step, op, targets, missed, wronged, reading>>

\* register reads the file ...
RegisterLoad(p) ==
    /\ phase[p] = "listening"
    /\ phase' = [phase EXCEPT ![p] = "registering"]
    /\ copy' = [copy EXCEPT ![p] = file]
    /\ UNCHANGED <<file, serving, step, op, scope, todo, dirty, targets, missed, deadBefore, wronged>>

\* ... and writes it with the entry added.
RegisterSave(p) ==
    /\ phase[p] = "registering"
    /\ phase' = [phase EXCEPT ![p] = "up"]
    /\ Save(p, [copy[p] EXCEPT ![NameOf[p]] = p])
    /\ Forget(p)
    /\ missed' = [w \in Processes |->
           IF w # p /\ Busy(w) THEN missed[w] \cup {p} ELSE {}]
    /\ UNCHANGED <<serving, step, op, scope, todo, dirty, targets, deadBefore>>

\* shutdown() of run() begins: a signal, or nobody is left to serve.
ShutDown(p) ==
    /\ phase[p] = "up"
    /\ p \notin Lasting
    /\ phase' = [phase EXCEPT ![p] = "stopping"]
    /\ wronged' = wronged \ {p}
    /\ UNCHANGED <<file, serving, step, op, targets, missed, reading>>

\* The program calls stop(), which closes the HTTP server first.
Stop(p) ==
    /\ phase[p] = "up"
    /\ p \notin Lasting
    /\ phase' = [phase EXCEPT ![p] = "stopping"]
    /\ serving' = serving \ {p}
    /\ wronged' = wronged \ {p}
    /\ UNCHANGED <<file, step, op, targets, missed, reading>>

\* updateStatus(name, 'stopped') reads the file; without an entry it returns.
DeregisterLoad(p) ==
    /\ phase[p] = "stopping"
    /\ \/ /\ file[NameOf[p]] = Absent
          /\ phase' = [phase EXCEPT ![p] = "closing"]
          /\ UNCHANGED copy
       \/ /\ file[NameOf[p]] # Absent
          /\ phase' = [phase EXCEPT ![p] = "deregistering"]
          /\ copy' = [copy EXCEPT ![p] = file]
    /\ UNCHANGED <<file, serving, step, op, scope, todo, dirty, targets, missed, deadBefore, wronged>>

DeregisterSave(p) ==
    /\ phase[p] = "deregistering"
    /\ phase' = [phase EXCEPT ![p] = "closing"]
    /\ Save(p, [copy[p] EXCEPT ![NameOf[p]] = Stopped])
    /\ Forget(p)
    /\ missed' = [missed EXCEPT ![p] = {}]
    /\ UNCHANGED <<serving, step, op, scope, todo, dirty, targets, deadBefore>>

\* The HTTP server and the lock go, or the whole process at any time.
Leave(p) ==
    /\ phase' = [phase EXCEPT ![p] = "gone"]
    /\ serving' = serving \ {p}
    /\ Forget(p)
    /\ missed' = [w \in Processes |-> IF w = p THEN {} ELSE missed[w] \ {p}]
    /\ wronged' = wronged \ {p}
    /\ UNCHANGED <<file, step, op, scope, todo, dirty, targets, deadBefore>>

Exit(p) == phase[p] = "closing" /\ Leave(p)
Crash(p) == ~HoldsNoLock(p) /\ p \notin Lasting /\ Leave(p)

\* The system gives the pid to another program, which matters while the file has
\* it; it goes through all pids first, so that no command is under way any more
\* that may have seen the server alive.
Recycle(p) ==
    /\ phase[p] = "gone"
    /\ file[NameOf[p]] = p
    /\ \A c \in Commands : copy[c][NameOf[p]] = p => p \in deadBefore[c]
    /\ phase' = [phase EXCEPT ![p] = "recycled"]
    /\ UNCHANGED <<file, serving, step, op, targets, missed, wronged, reading>>

-----------------------------------------------------------------------------
\* load() of getAll and get, whose answer c uses to `why'.
Look(c, names, why) ==
    /\ step' = [step EXCEPT ![c] = "checking"]
    /\ op' = [op EXCEPT ![c] = why]
    /\ copy' = [copy EXCEPT ![c] = file]
    /\ scope' = [scope EXCEPT ![c] = names]
    /\ todo' = [todo EXCEPT ![c] = {n \in names : file[n] \in Servers}]
    /\ dirty' = [dirty EXCEPT ![c] = FALSE]
    /\ missed' = [missed EXCEPT ![c] = {}]
    /\ deadBefore' = [deadBefore EXCEPT ![c] =
           {p \in Servers : phase[p] \in {"gone", "recycled", "killed"} /\ file[NameOf[p]] = p}]
    /\ UNCHANGED <<file, phase, serving, wronged>>

Command(c, names, why) ==
    /\ step[c] = "idle"
    /\ Look(c, names, why)
    /\ UNCHANGED targets

ListServers(c) == Command(c, Names, "show")
ShowStatus(c, n) == Command(c, {n}, "show")
StopServer(c, n) == Command(c, {n}, "stop")
StopAll(c) == Command(c, Names, "stop")
CleanRegistry(c) == Command(c, Names, "clean")

\* isPidRunning
PidRunning(p) == phase[p] \notin {"off", "gone", "killed"}

\* Mutant: a process with that pid is good enough.
BugPidIsEnough(p) == PidRunning(p)

\* What get and getAll take for alive: the process runs, and a server of that
\* name answers at the port recorded.
SeemsAlive(p) ==
    /\ PidRunning(p)
    /\ \/ p \in serving
       \/ FixedPort /\ \E q \in serving : NameOf[q] = NameOf[p]

\* One round of the loop of getAll, or the check of get.  An answer that takes
\* longer than the timeout counts as none.
Check(c, n) ==
    /\ step[c] = "checking"
    /\ n \in todo[c]
    /\ todo' = [todo EXCEPT ![c] = @ \ {n}]
    /\ \/ /\ SeemsAlive(copy[c][n])
          /\ UNCHANGED <<copy, dirty, missed>>
       \/ /\ copy' = [copy EXCEPT ![c][n] = Stopped]
          /\ dirty' = [dirty EXCEPT ![c] = TRUE]
          /\ missed' = [missed EXCEPT ![c] = @ \cup {copy[c][n]}]
    /\ UNCHANGED <<file, phase, serving, step, op, scope, targets, deadBefore, wronged>>

FoundRunning(c) == {n \in scope[c] : copy[c][n] \in Servers}
FoundStopped(c) == {n \in scope[c] : copy[c][n] = Stopped}

\* What the command read has served its purpose.
PutAway(c, next) ==
    /\ step' = [step EXCEPT ![c] = next]
    /\ op' = [op EXCEPT ![c] = "show"]
    /\ Forget(c)
    /\ scope' = [scope EXCEPT ![c] = {}]
    /\ dirty' = [dirty EXCEPT ![c] = FALSE]
    /\ missed' = [missed EXCEPT ![c] = {}]
    /\ deadBefore' = [deadBefore EXCEPT ![c] = {}]
    /\ UNCHANGED todo

\* The end of getAll and get: the copy is saved if a server was found dead.
Answer(c, why) ==
    /\ step[c] = "checking"
    /\ todo[c] = {}
    /\ op[c] = why
    /\ IF dirty[c] THEN Save(c, copy[c]) ELSE UNCHANGED <<file, wronged>>
    /\ UNCHANGED <<phase, serving>>

\* The answer is printed, or used to call the server.
Show(c) ==
    /\ Answer(c, "show")
    /\ PutAway(c, "idle")
    /\ UNCHANGED targets

\* stopServer stops those that run, one by one.
ChooseTargets(c) ==
    /\ Answer(c, "stop")
    /\ targets' = [targets EXCEPT ![c] = FoundRunning(c)]
    /\ PutAway(c, "stopping")

\* CentralRegistry.stop looks the next of them up once more.
StopNext(c, n) ==
    /\ step[c] = "stopping"
    /\ n \in targets[c]
    /\ targets' = [targets EXCEPT ![c] = @ \ {n}]
    /\ Look(c, {n}, "kill")

AllStopped(c) ==
    /\ step[c] = "stopping"
    /\ targets[c] = {}
    /\ PutAway(c, "idle")
    /\ UNCHANGED <<file, phase, serving, targets, wronged>>

\* stop finds that the server does not run (any more).
NothingToStop(c) ==
    /\ Answer(c, "kill")
    /\ FoundRunning(c) = {}
    /\ PutAway(c, "stopping")
    /\ UNCHANGED targets

Resolve(c) ==
    /\ Answer(c, "kill")
    /\ FoundRunning(c) # {}
    /\ step' = [step EXCEPT ![c] = "answered"]
    /\ UNCHANGED <<op, targets, missed, reading>>

\* clean has the answer of getAll ...
ListForClean(c) ==
    /\ Answer(c, "clean")
    /\ step' = [step EXCEPT ![c] = "answered"]
    /\ targets' = [targets EXCEPT ![c] = FoundStopped(c)]
    /\ UNCHANGED <<op, missed, reading>>

\* ... reads the file again ...
CleanLoad(c) ==
    /\ step[c] = "answered"
    /\ op[c] = "clean"
    /\ step' = [step EXCEPT ![c] = "deleting"]
    /\ copy' = [copy EXCEPT ![c] = file]
    /\ UNCHANGED <<file, phase, serving, op, scope, todo, dirty, targets, missed, deadBefore, wronged>>

\* ... and deletes what its first look showed stopped.
CleanSave(c) ==
    /\ step[c] = "deleting"
    /\ IF targets[c] # {}
       THEN Save(c, [n \in Names |-> IF n \in targets[c] THEN Absent ELSE copy[c][n]])
       ELSE UNCHANGED <<file, wronged>>
    /\ targets' = [targets EXCEPT ![c] = {}]
    /\ PutAway(c, "idle")
    /\ UNCHANGED <<phase, serving>>

\* SIGTERM: run() has installed its handler once it has registered, start()
\* installs none; another program does what it does.
Terminate(p) ==
    \/ /\ phase[p] = "up"
       /\ phase' = [phase EXCEPT ![p] = "stopping"]
       /\ UNCHANGED serving
    \/ /\ phase[p] \in {"stopping", "deregistering", "closing", "gone", "killed"}
       /\ UNCHANGED <<phase, serving>>
    \/ /\ ~HoldsNoLock(p)
       /\ phase' = [phase EXCEPT ![p] = "gone"]
       /\ serving' = serving \ {p}
    \/ /\ phase[p] = "recycled"
       /\ phase' = [phase EXCEPT ![p] = "killed"]
       /\ UNCHANGED serving

Kill(c) ==
    /\ step[c] = "answered"
    /\ op[c] = "kill"
    /\ \E n \in scope[c] :
          /\ Terminate(copy[c][n])
          /\ wronged' = wronged \ {copy[c][n]}
    /\ step' = [step EXCEPT ![c] = "waiting"]
    /\ Forget(c)
    /\ UNCHANGED <<file, op, scope, todo, dirty, targets, missed, deadBefore>>

\* The process has gone, or the fifteen rounds are over: updateStatus by name.
MarkLoad(c) ==
    /\ step[c] = "waiting"
    /\ \E n \in scope[c] :
          \/ /\ file[n] = Absent
             /\ PutAway(c, "stopping")
          \/ /\ file[n] # Absent
             /\ step' = [step EXCEPT ![c] = "marking"]
             /\ copy' = [copy EXCEPT ![c] = file]
             /\ UNCHANGED <<op, scope, todo, dirty, missed, deadBefore>>
    /\ UNCHANGED <<file, phase, serving, targets, wronged>>

MarkSave(c) ==
    /\ step[c] = "marking"
    /\ Save(c, [n \in Names |-> IF n \in scope[c] THEN Stopped ELSE copy[c][n]])
    /\ PutAway(c, "stopping")
    /\ UNCHANGED <<phase, serving, targets>>

ServerStep(p) ==
    \/ Listen(p) \/ RegisterLoad(p) \/ RegisterSave(p)
    \/ ShutDown(p) \/ Stop(p) \/ DeregisterLoad(p) \/ DeregisterSave(p) \/ Exit(p)
    \/ Crash(p) \/ Recycle(p)

CommandStep(c) ==
    \/ ListServers(c) \/ StopAll(c) \/ CleanRegistry(c)
    \/ \E n \in Names : ShowStatus(c, n) \/ StopServer(c, n) \/ Check(c, n) \/ StopNext(c, n)
    \/ Show(c) \/ ChooseTargets(c) \/ AllStopped(c) \/ NothingToStop(c) \/ Resolve(c)
    \/ ListForClean(c) \/ CleanLoad(c) \/ CleanSave(c) \/ Kill(c) \/ MarkLoad(c) \/ MarkSave(c)

Next ==
    \/ \E p \in Servers : ServerStep(p)
    \/ \E c \in Commands : CommandStep(c)

Spec == Init /\ [][Next]_vars

-----------------------------------------------------------------------------
\* What the unlocked file still guarantees: a server that is up has its entry,
\* unless a process that was at work while it registered, or took it for dead,
\* has written the file since; no sequence of commands that each saw it does it
\* any harm.
LiveServerListed ==
    \A p \in Servers : phase[p] = "up" /\ p \notin wronged => file[NameOf[p]] = p

\* A command that shows a server as running does not speak of one that was gone
\* when the command looked, whoever has its pid by now.
AnswersAreCurrent ==
    \A c \in Commands : step[c] = "checking" =>
        \A n \in scope[c] \ todo[c] : copy[c][n] \notin deadBefore[c]

\* `mcponce stop' signals servers only, and no program that inherited the pid
\* a crashed one left behind in the file.
BystandersLive == \A p \in Servers : phase[p] # "killed"
=============================================================================

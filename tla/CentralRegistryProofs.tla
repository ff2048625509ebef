------------------------ MODULE CentralRegistryProofs ------------------------
(***************************************************************************)
(* What CentralRegistry guarantees for any set of servers, names and       *)
(* commands.                                                               *)
(***************************************************************************)
EXTENDS CentralRegistry, TLAPS

\* What a command has still to check is the name of an entry with a pid.
TodoRuns ==
    \A c \in Commands : step[c] = "checking" => \A n \in todo[c] : copy[c][n] \in Servers

Typed == TypeOK /\ TodoRuns

\* Servers of one name are owners one after the other.
UniqueOwner ==
    \A p, q \in Servers : p # q /\ NameOf[p] = NameOf[q] => HoldsNoLock(p) \/ HoldsNoLock(q)

\* The process has a copy that it may still write back, changed or not.
UsesCopy(w) == IF w \in Servers THEN phase[w] \in {"registering", "deregistering"}
                                ELSE step[w] \in {"checking", "answered", "deleting", "marking"}

\* A server that is up, and that w knows of if anybody does.
Known(p, w) == phase[p] = "up" /\ p \notin missed[w] /\ p \notin wronged

\* Such a copy has every server that is up, but for those w has missed.
CopiesRight ==
    \A w \in Processes : UsesCopy(w) =>
        \A p \in Servers : Known(p, w) => copy[w][NameOf[p]] = p

\* What clean is about to delete is no server that is up.
CleanSpares ==
    \A c \in Commands : step[c] = "deleting" \/ (step[c] = "answered" /\ op[c] = "clean") =>
        \A p \in Servers : Known(p, c) => NameOf[p] \notin targets[c]

\* A stop is about one name, ...
OneName == \A c \in Commands : op[c] = "kill" => \E n \in Names : scope[c] = {n}

\* ... and what it is about to mark as stopped is no server that is up.
MarkSpares ==
    \A c \in Commands : step[c] \in {"waiting", "marking"} =>
        /\ op[c] = "kill"
        /\ \A p \in Servers : Known(p, c) => NameOf[p] \notin scope[c]

Listed ==
    /\ Typed
    /\ UniqueOwner
    /\ LiveServerListed
    /\ CopiesRight
    /\ CleanSpares
    /\ OneName
    /\ MarkSpares

-----------------------------------------------------------------------------
\* Only owners answer at a port.
ServingOwns == \A p \in serving : ~HoldsNoLock(p)

\* An entry with a pid is the entry of that server's name.
Named(data) == \A n \in Names : data[n] \in Servers => NameOf[data[n]] = n

EntriesNamed == Named(file) /\ \A w \in Processes : Named(copy[w])

\* A server that was gone stays gone.
DeadStay ==
    \A c \in Commands : \A p \in deadBefore[c] : phase[p] \in {"gone", "recycled", "killed"}

\* A command that took a server for running had not found it gone.
AnswersHold ==
    \A c \in Commands : step[c] \in {"checking", "answered"} =>
        \A n \in scope[c] \ todo[c] : copy[c][n] \notin deadBefore[c]

\* A pid that another program has got is of a server that was gone before.
InheritedIsDead ==
    \A c \in Commands : step[c] \in {"checking", "answered"} =>
        \A p \in Servers : phase[p] \in {"recycled", "killed"} /\ copy[c][NameOf[p]] = p
                           => p \in deadBefore[c]

AllChecked == \A c \in Commands : step[c] = "answered" => todo[c] = {}

Current ==
    /\ Typed
    /\ OneName
    /\ ServingOwns
    /\ EntriesNamed
    /\ DeadStay
    /\ AnswersHold
    /\ InheritedIsDead
    /\ AllChecked
    /\ BystandersLive

\* What a change of one entry leaves of a copy.
LEMMA RegistryFacts ==
    /\ NoEntries \in Registry
    /\ Servers \subseteq Entries /\ Stopped \in Entries /\ Absent \in Entries
    /\ \A r \in Registry, n \in Names, e \in Entries : [r EXCEPT ![n] = e] \in Registry
    /\ \A r \in Registry, n \in Names : r[n] \in Entries
    /\ \A r \in Registry, N \in SUBSET Names, e \in Entries :
          [n \in Names |-> IF n \in N THEN e ELSE r[n]] \in Registry
    /\ \A p \in Servers : NameOf[p] \in Names
BY RegistryAssumption DEF NoEntries, Registry, Entries

\* Adding a server under its name, or marking or deleting entries, keeps an
\* entry with its name.
LEMMA NamedFacts ==
    /\ Named(NoEntries)
    /\ \A r \in Registry : Named(r) =>
              /\ \A p \in Servers : Named([r EXCEPT ![NameOf[p]] = p])
              /\ \A m \in Names : Named([r EXCEPT ![m] = Stopped])
              /\ \A N \in SUBSET Names, e \in {Stopped, Absent} :
                    Named([n \in Names |-> IF n \in N THEN e ELSE r[n]])
BY RegistryAssumption DEF Named, NoEntries, Registry

\* Every step of a server keeps the types.
LEMMA ServerTypes ==
    ASSUME Typed, NEW p \in Servers, ServerStep(p)
    PROVE  Typed'
<1> USE RegistryAssumption DEF Typed, TypeOK, TodoRuns, Processes, Phases, Steps, reading
<1>1. CASE Listen(p)
  BY <1>1, RegistryFacts DEF Listen
<1>2. CASE RegisterLoad(p)
  BY <1>2, RegistryFacts DEF RegisterLoad
<1>3. CASE RegisterSave(p)
  <2>1. copy[p] \in Registry /\ p \in Processes /\ p \in Entries /\ NameOf[p] \in Names
    BY RegistryFacts
  <2>2. [copy[p] EXCEPT ![NameOf[p]] = p] \in Registry
    BY <2>1, RegistryFacts
  <2>3. QED
    BY <1>3, <2>1, <2>2, RegistryFacts DEF RegisterSave, Save, Forget
<1>4. CASE ShutDown(p)
  BY <1>4, RegistryFacts DEF ShutDown
<1>5. CASE Stop(p)
  BY <1>5, RegistryFacts DEF Stop
<1>6. CASE DeregisterLoad(p)
  <2>1. phase' \in [Servers -> Phases]
    BY <1>6 DEF DeregisterLoad
  <2>2. copy' \in [Processes -> Registry]
    BY <1>6 DEF DeregisterLoad
  <2>3. QED
    BY <1>6, <2>1, <2>2 DEF DeregisterLoad
<1>7. CASE DeregisterSave(p)
  <2>1. copy[p] \in Registry /\ p \in Processes /\ NameOf[p] \in Names
    BY RegistryFacts
  <2>2. [copy[p] EXCEPT ![NameOf[p]] = Stopped] \in Registry
    BY <2>1, RegistryFacts
  <2>3. QED
    BY <1>7, <2>1, <2>2, RegistryFacts DEF DeregisterSave, Save, Forget
<1>8. CASE Exit(p)
  BY <1>8, RegistryFacts DEF Exit, Leave, Forget
<1>9. CASE Crash(p)
  BY <1>9, RegistryFacts DEF Crash, Leave, Forget
<1>10. CASE Recycle(p)
  BY <1>10, RegistryFacts DEF Recycle
<1>11. QED
  BY <1>1, <1>2, <1>3, <1>4, <1>5, <1>6, <1>7, <1>8, <1>9, <1>10 DEF ServerStep

\* And every step of a command.
LEMMA CommandTypes ==
    ASSUME Typed, NEW c \in Commands, CommandStep(c)
    PROVE  Typed'
<1> USE RegistryAssumption DEF Typed, TypeOK, TodoRuns, Processes, Phases, Steps, reading
<1>1. CASE ListServers(c)
  BY <1>1, RegistryFacts DEF ListServers, Command, Look
<1>2. CASE StopAll(c)
  BY <1>2, RegistryFacts DEF StopAll, Command, Look
<1>3. CASE CleanRegistry(c)
  BY <1>3, RegistryFacts DEF CleanRegistry, Command, Look
<1>4. CASE Show(c)
  BY <1>4, RegistryFacts DEF Show, Answer, Save, PutAway, Forget
<1>5. CASE ChooseTargets(c)
  BY <1>5, RegistryFacts DEF ChooseTargets, Answer, Save, PutAway, Forget, FoundRunning
<1>6. CASE AllStopped(c)
  BY <1>6, RegistryFacts DEF AllStopped, PutAway, Forget
<1>7. CASE NothingToStop(c)
  BY <1>7, RegistryFacts DEF NothingToStop, Answer, Save, PutAway, Forget
<1>8. CASE Resolve(c)
  BY <1>8, RegistryFacts DEF Resolve, Answer, Save
<1>9. CASE ListForClean(c)
  BY <1>9, RegistryFacts DEF ListForClean, Answer, Save, FoundStopped
<1>10. CASE CleanLoad(c)
  BY <1>10, RegistryFacts DEF CleanLoad
<1>11. CASE CleanSave(c)
  <2>1. copy[c] \in Registry /\ targets[c] \in SUBSET Names
    BY DEF Processes
  <2>2. file' \in Registry
    BY <1>11, <2>1 DEF CleanSave, Save, Registry, Entries
  <2>3. wronged' \subseteq Servers
    BY <1>11 DEF CleanSave, Save
  <2>4. QED
    BY <1>11, <2>2, <2>3, RegistryFacts DEF CleanSave, PutAway, Forget
<1>12. CASE Kill(c)
  <2>1. phase' \in [Servers -> Phases] /\ serving' \subseteq Servers
    BY <1>12 DEF Kill, Terminate
  <2>2. QED
    BY <1>12, <2>1, RegistryFacts DEF Kill, Forget
<1>13. CASE MarkLoad(c)
  <2>1. PICK n \in scope[c] :
          \/ PutAway(c, "stopping")
          \/ /\ step' = [step EXCEPT ![c] = "marking"]
             /\ copy' = [copy EXCEPT ![c] = file]
             /\ UNCHANGED <<op, scope, todo, dirty, missed, deadBefore>>
    BY <1>13 DEF MarkLoad
  <2>2. UNCHANGED <<file, phase, serving, targets, wronged>>
    BY <1>13 DEF MarkLoad
  <2>3. CASE PutAway(c, "stopping")
    BY <2>2, <2>3, RegistryFacts DEF PutAway, Forget
  <2>4. QED
    BY <2>1, <2>2, <2>3
<1>14. CASE MarkSave(c)
  <2>1. copy[c] \in Registry /\ scope[c] \in SUBSET Names
    BY DEF Processes
  <2>2. file' \in Registry
    BY <1>14, <2>1 DEF MarkSave, Save, Registry, Entries
  <2>3. wronged' \subseteq Servers
    BY <1>14 DEF MarkSave, Save
  <2>4. QED
    BY <1>14, <2>2, <2>3, RegistryFacts DEF MarkSave, PutAway, Forget
<1>15. ASSUME NEW n \in Names, ShowStatus(c, n)
      PROVE  Typed'
  BY <1>15, RegistryFacts DEF ShowStatus, Command, Look
<1>16. ASSUME NEW n \in Names, StopServer(c, n)
      PROVE  Typed'
  BY <1>16, RegistryFacts DEF StopServer, Command, Look
<1>17. ASSUME NEW n \in Names, Check(c, n)
      PROVE  Typed'
  <2>1. copy[c] \in Registry /\ c \in Processes
    BY DEF Processes
  <2>2. copy[c][n] \in Servers
    BY <1>17 DEF Check
  <2>3. UNCHANGED <<file, phase, serving, step, op, scope, targets, deadBefore, wronged>>
    BY <1>17 DEF Check
  <2>4. todo' = [todo EXCEPT ![c] = todo[c] \ {n}]
    BY <1>17 DEF Check
  <2>5. CASE UNCHANGED <<copy, dirty, missed>>
    BY <2>3, <2>4, <2>5
  <2>6. CASE /\ copy' = [copy EXCEPT ![c][n] = Stopped]
             /\ dirty' = [dirty EXCEPT ![c] = TRUE]
             /\ missed' = [missed EXCEPT ![c] = missed[c] \cup {copy[c][n]}]
    <3>1. copy' = [copy EXCEPT ![c] = [copy[c] EXCEPT ![n] = Stopped]]
      BY <2>1, <2>6
    <3>2. [copy[c] EXCEPT ![n] = Stopped] \in Registry
      BY <2>1, RegistryFacts
    <3>3. copy' \in [Processes -> Registry]
      BY <2>1, <3>1, <3>2
    <3>4. \A m \in Names : m # n => copy'[c][m] = copy[c][m]
      BY <2>1, <3>1, <3>2 DEF Registry
    <3>5. missed' \in [Processes -> SUBSET Servers]
      BY <2>1, <2>2, <2>6
    <3>6. TypeOK'
      BY <2>3, <2>4, <2>6, <3>3, <3>5
    <3>7. \A d \in Commands : d # c => copy'[d] = copy[d]
      BY <3>1
    <3>8. QED
      BY <2>3, <2>4, <3>4, <3>6, <3>7
  <2>7. QED
    BY <1>17, <2>5, <2>6 DEF Check
<1>18. ASSUME NEW n \in Names, StopNext(c, n)
      PROVE  Typed'
  BY <1>18, RegistryFacts DEF StopNext, Look
<1>19. QED
  BY <1>1, <1>2, <1>3, <1>4, <1>5, <1>6, <1>7, <1>8, <1>9, <1>10, <1>11, <1>12, <1>13,
     <1>14, <1>15, <1>16, <1>17, <1>18 DEF CommandStep

\* The steps of a server keep the invariant.
LEMMA ServerListed ==
    ASSUME Listed, NEW p \in Servers, ServerStep(p)
    PROVE  Listed'
<1> USE RegistryAssumption DEF Listed, Typed, TypeOK, Processes, reading, Known
<1>0. Typed'
  BY ServerTypes
<1>1. CASE Listen(p)
  BY <1>0, <1>1 DEF Listen,
     UniqueOwner, HoldsNoLock, LiveServerListed, CopiesRight, UsesCopy, CleanSpares, OneName,
     MarkSpares
<1>2. CASE RegisterLoad(p)
  BY <1>0, <1>2 DEF RegisterLoad,
     UniqueOwner, HoldsNoLock, LiveServerListed, CopiesRight, UsesCopy, CleanSpares, OneName,
     MarkSpares
<1>3. CASE RegisterSave(p)
  <2>1. LiveServerListed'
    <3>1. \A q \in Servers : Known(q, p) => copy[p][NameOf[q]] = q /\ NameOf[q] # NameOf[p]
      BY <1>3 DEF RegisterSave, CopiesRight, UsesCopy, UniqueOwner, HoldsNoLock
    <3>2. \A q \in Servers : Known(q, p) \/ q = p => file'[NameOf[q]] = q
      BY <1>3, <3>1, RegistryFacts DEF RegisterSave, Save, Registry
    <3>3. QED
      BY <1>3, <3>2 DEF RegisterSave, Save, LiveServerListed
  <2>2. CopiesRight'
    <3>1. \A q \in Servers : q # p => phase'[q] = phase[q]
      BY <1>3 DEF RegisterSave
    <3>2. \A w \in Processes, q \in Servers : w # p /\ Busy(w) /\ Known(q, w)' =>
             q # p /\ Known(q, w)
      BY <1>3, <3>1 DEF RegisterSave, Save
    <3>3. \A w \in Processes : UsesCopy(w)' =>
             w # p /\ Busy(w) /\ UsesCopy(w) /\ copy'[w] = copy[w]
      BY <1>3, <3>1 DEF RegisterSave, UsesCopy, Busy, Forget
    <3>4. QED
      BY <3>2, <3>3 DEF CopiesRight
  <2>3. CleanSpares'
    <3>1. \A q \in Servers : q # p => phase'[q] = phase[q]
      BY <1>3 DEF RegisterSave
    <3>2. \A w \in Processes, q \in Servers : w # p /\ Busy(w) /\ Known(q, w)' =>
             q # p /\ Known(q, w)
      BY <1>3, <3>1 DEF RegisterSave, Save
    <3>3. \A d \in Commands : d \notin Servers /\ d # p /\ (step[d] # "idle" => Busy(d))
      BY DEF Busy
    <3>4. UNCHANGED <<step, op, targets, scope>>
      BY <1>3 DEF RegisterSave
    <3>5. QED
      BY <3>2, <3>3, <3>4 DEF CleanSpares
  <2>4. MarkSpares'
    <3>1. \A q \in Servers : q # p => phase'[q] = phase[q]
      BY <1>3 DEF RegisterSave
    <3>2. \A w \in Processes, q \in Servers : w # p /\ Busy(w) /\ Known(q, w)' =>
             q # p /\ Known(q, w)
      BY <1>3, <3>1 DEF RegisterSave, Save
    <3>3. \A d \in Commands : d \notin Servers /\ d # p /\ (step[d] # "idle" => Busy(d))
      BY DEF Busy
    <3>4. UNCHANGED <<step, op, targets, scope>>
      BY <1>3 DEF RegisterSave
    <3>5. QED
      BY <3>2, <3>3, <3>4 DEF MarkSpares
  <2>5. UniqueOwner' /\ OneName'
    BY <1>3 DEF RegisterSave, Save, Forget, UniqueOwner, HoldsNoLock, OneName
  <2>6. QED
    BY <1>0, <2>1, <2>2, <2>3, <2>4, <2>5
<1>4. CASE ShutDown(p)
  BY <1>0, <1>4 DEF ShutDown,
     UniqueOwner, HoldsNoLock, LiveServerListed, CopiesRight, UsesCopy, CleanSpares, OneName,
     MarkSpares
<1>5. CASE Stop(p)
  BY <1>0, <1>5 DEF Stop,
     UniqueOwner, HoldsNoLock, LiveServerListed, CopiesRight, UsesCopy, CleanSpares, OneName,
     MarkSpares
<1>6. CASE DeregisterLoad(p)
  BY <1>0, <1>6 DEF DeregisterLoad,
     UniqueOwner, HoldsNoLock, LiveServerListed, CopiesRight, UsesCopy, CleanSpares, OneName,
     MarkSpares
<1>7. CASE DeregisterSave(p)
  <2>1. LiveServerListed'
    <3>1. \A q \in Servers : Known(q, p) => copy[p][NameOf[q]] = q /\ NameOf[q] # NameOf[p]
      BY <1>7 DEF DeregisterSave, CopiesRight, UsesCopy, UniqueOwner, HoldsNoLock
    <3>2. \A q \in Servers : Known(q, p) => file'[NameOf[q]] = q
      BY <1>7, <3>1, RegistryFacts DEF DeregisterSave, Save, Registry
    <3>3. QED
      BY <1>7, <3>2 DEF DeregisterSave, Save, LiveServerListed
  <2>2. /\ UniqueOwner' /\ CopiesRight' /\ CleanSpares'
        /\ OneName' /\ MarkSpares'
    BY <1>7 DEF DeregisterSave, Save, Forget, UniqueOwner, HoldsNoLock, CopiesRight, UsesCopy,
       LiveServerListed, CleanSpares, OneName, MarkSpares
  <2>3. QED
    BY <1>0, <2>1, <2>2
<1>8. CASE Exit(p)
  BY <1>0, <1>8 DEF Exit, Leave, Forget,
     UniqueOwner, HoldsNoLock, LiveServerListed, CopiesRight, UsesCopy, CleanSpares, OneName,
     MarkSpares
<1>9. CASE Crash(p)
  BY <1>0, <1>9 DEF Crash, Leave, Forget,
     UniqueOwner, HoldsNoLock, LiveServerListed, CopiesRight, UsesCopy, CleanSpares, OneName,
     MarkSpares
<1>10. CASE Recycle(p)
  BY <1>0, <1>10 DEF Recycle,
     UniqueOwner, HoldsNoLock, LiveServerListed, CopiesRight, UsesCopy, CleanSpares, OneName,
     MarkSpares
<1>11. QED
  BY <1>0, <1>1, <1>2, <1>3, <1>4, <1>5, <1>6, <1>7, <1>8, <1>9, <1>10 DEF ServerStep

\* And so do those of a command.
LEMMA CommandListed ==
    ASSUME Listed, NEW c \in Commands, CommandStep(c)
    PROVE  Listed'
<1> USE RegistryAssumption DEF Listed, Typed, TypeOK, Processes, reading, Known
<1>0. Typed'
  BY CommandTypes
<1>1. CASE ListServers(c)
  BY <1>0, <1>1 DEF ListServers, Command, Look,
     UniqueOwner, HoldsNoLock, LiveServerListed, CopiesRight, UsesCopy, CleanSpares, OneName,
     MarkSpares
<1>2. CASE StopAll(c)
  BY <1>0, <1>2 DEF StopAll, Command, Look,
     UniqueOwner, HoldsNoLock, LiveServerListed, CopiesRight, UsesCopy, CleanSpares, OneName,
     MarkSpares
<1>3. CASE CleanRegistry(c)
  BY <1>0, <1>3 DEF CleanRegistry, Command, Look,
     UniqueOwner, HoldsNoLock, LiveServerListed, CopiesRight, UsesCopy, CleanSpares, OneName,
     MarkSpares
<1>4. CASE Show(c)
  <2>1. LiveServerListed'
    BY <1>4 DEF Show, Answer, Save, PutAway, LiveServerListed, CopiesRight, UsesCopy
  <2>2. /\ UniqueOwner' /\ CopiesRight' /\ CleanSpares'
        /\ OneName' /\ MarkSpares'
    BY <1>4 DEF Show, Answer, Save, PutAway, Forget, UniqueOwner, HoldsNoLock, CopiesRight,
       UsesCopy, LiveServerListed, CleanSpares, OneName, MarkSpares
  <2>3. QED
    BY <1>0, <2>1, <2>2
<1>5. CASE ChooseTargets(c)
  <2>1. LiveServerListed'
    BY <1>5 DEF ChooseTargets, Answer, Save, PutAway, LiveServerListed, CopiesRight, UsesCopy
  <2>2. /\ UniqueOwner' /\ CopiesRight' /\ CleanSpares'
        /\ OneName' /\ MarkSpares'
    BY <1>5 DEF ChooseTargets, Answer, Save, PutAway, Forget, FoundRunning, UniqueOwner,
       HoldsNoLock, CopiesRight, UsesCopy, LiveServerListed, CleanSpares, OneName, MarkSpares
  <2>3. QED
    BY <1>0, <2>1, <2>2
<1>6. CASE AllStopped(c)
  BY <1>0, <1>6 DEF AllStopped, PutAway, Forget,
     UniqueOwner, HoldsNoLock, LiveServerListed, CopiesRight, UsesCopy, CleanSpares, OneName,
     MarkSpares
<1>7. CASE NothingToStop(c)
  <2>1. LiveServerListed'
    BY <1>7 DEF NothingToStop, Answer, Save, PutAway, LiveServerListed, CopiesRight, UsesCopy
  <2>2. /\ UniqueOwner' /\ CopiesRight' /\ CleanSpares'
        /\ OneName' /\ MarkSpares'
    BY <1>7 DEF NothingToStop, Answer, Save, PutAway, Forget, UniqueOwner, HoldsNoLock,
       CopiesRight, UsesCopy, LiveServerListed, CleanSpares, OneName, MarkSpares
  <2>3. QED
    BY <1>0, <2>1, <2>2
<1>8. CASE Resolve(c)
  <2>1. LiveServerListed'
    BY <1>8 DEF Resolve, Answer, Save, PutAway, LiveServerListed, CopiesRight, UsesCopy
  <2>2. /\ UniqueOwner' /\ CopiesRight' /\ CleanSpares'
        /\ OneName' /\ MarkSpares'
    BY <1>8 DEF Resolve, Answer, Save, UniqueOwner, HoldsNoLock, CopiesRight, UsesCopy,
       LiveServerListed, CleanSpares, OneName, MarkSpares
  <2>3. QED
    BY <1>0, <2>1, <2>2
<1>9. CASE ListForClean(c)
  <2>1. LiveServerListed'
    BY <1>9 DEF ListForClean, Answer, Save, PutAway, LiveServerListed, CopiesRight, UsesCopy
  <2>2. /\ UniqueOwner' /\ CopiesRight' /\ CleanSpares'
        /\ OneName' /\ MarkSpares'
    BY <1>9 DEF ListForClean, Answer, Save, FoundStopped, UniqueOwner, HoldsNoLock, CopiesRight,
       UsesCopy, LiveServerListed, CleanSpares, OneName, MarkSpares
  <2>3. QED
    BY <1>0, <2>1, <2>2
<1>10. CASE CleanLoad(c)
  BY <1>0, <1>10 DEF CleanLoad,
     UniqueOwner, HoldsNoLock, LiveServerListed, CopiesRight, UsesCopy, CleanSpares, OneName,
     MarkSpares
<1>11. CASE CleanSave(c)
  <2>1. LiveServerListed'
    BY <1>11 DEF CleanSave, Save, LiveServerListed, CopiesRight, UsesCopy, CleanSpares
  <2>2. /\ UniqueOwner' /\ CopiesRight' /\ CleanSpares'
        /\ OneName' /\ MarkSpares'
    BY <1>11 DEF CleanSave, Save, PutAway, Forget, UniqueOwner, HoldsNoLock, CopiesRight,
       UsesCopy, LiveServerListed, CleanSpares, OneName, MarkSpares
  <2>3. QED
    BY <1>0, <2>1, <2>2
<1>12. CASE Kill(c)
  <2>1. UniqueOwner'
    BY <1>12 DEF Kill, Terminate, Forget, HoldsNoLock, UniqueOwner
  <2>2. LiveServerListed'
    BY <1>12 DEF Kill, Terminate, Forget, HoldsNoLock, LiveServerListed
  <2>3. CopiesRight'
    BY <1>12 DEF Kill, Terminate, Forget, HoldsNoLock, CopiesRight, UsesCopy, LiveServerListed
  <2>4. CleanSpares'
    BY <1>12 DEF Kill, Terminate, Forget, HoldsNoLock, CleanSpares, CopiesRight, UsesCopy
  <2>5. OneName'
    BY <1>12 DEF Kill, Terminate, Forget, HoldsNoLock, OneName
  <2>6. MarkSpares'
    <3>1. PICK n \in scope[c] :
            /\ Terminate(copy[c][n])
            /\ wronged' = wronged \ {copy[c][n]}
      BY <1>12 DEF Kill
    <3>2. op[c] = "kill" /\ scope[c] = {n}
      BY <1>12, <3>1 DEF Kill, OneName
    <3>3. \A q \in Servers : Known(q, c)' => Known(q, c) /\ q # copy[c][n]
      BY <1>12, <3>1 DEF Kill, Terminate, HoldsNoLock
    <3>4. \A q \in Servers : Known(q, c) => copy[c][NameOf[q]] = q
      BY <1>12 DEF Kill, CopiesRight, UsesCopy
    <3>5. \A q \in Servers : Known(q, c)' => NameOf[q] \notin scope'[c]
      BY <1>12, <3>2, <3>3, <3>4 DEF Kill
    <3>6. \A d \in Commands, q \in Servers : Known(q, d)' => Known(q, d)
      BY <1>12, <3>1 DEF Kill, Terminate, HoldsNoLock
    <3>7. QED
      BY <1>12, <3>2, <3>5, <3>6 DEF Kill, MarkSpares
  <2>7. QED
    BY <1>0, <2>1, <2>2, <2>3, <2>4, <2>5, <2>6
<1>13. CASE MarkLoad(c)
  <2>1. UniqueOwner'
    BY <1>13 DEF MarkLoad, PutAway, Forget, UniqueOwner, HoldsNoLock
  <2>2. LiveServerListed'
    BY <1>13 DEF MarkLoad, PutAway, Forget, LiveServerListed
  <2>3. CopiesRight'
    BY <1>13 DEF MarkLoad, PutAway, Forget, CopiesRight, UsesCopy, LiveServerListed
  <2>4. CleanSpares'
    BY <1>13 DEF MarkLoad, PutAway, Forget, CleanSpares, CopiesRight, UsesCopy
  <2>5. OneName'
    BY <1>13 DEF MarkLoad, PutAway, Forget, OneName
  <2>6. MarkSpares'
    BY <1>13 DEF MarkLoad, PutAway, Forget, MarkSpares
  <2>7. QED
    BY <1>0, <2>1, <2>2, <2>3, <2>4, <2>5, <2>6
<1>14. CASE MarkSave(c)
  <2>1. LiveServerListed'
    BY <1>14 DEF MarkSave, Save, LiveServerListed, CopiesRight, UsesCopy, MarkSpares
  <2>2. /\ UniqueOwner' /\ CopiesRight' /\ CleanSpares'
        /\ OneName' /\ MarkSpares'
    BY <1>14 DEF MarkSave, Save, PutAway, Forget, UniqueOwner, HoldsNoLock, CopiesRight,
       UsesCopy, LiveServerListed, CleanSpares, OneName, MarkSpares
  <2>3. QED
    BY <1>0, <2>1, <2>2
<1>15. ASSUME NEW n \in Names, ShowStatus(c, n)
      PROVE  Listed'
  <2>1. UniqueOwner'
    BY <1>15 DEF ShowStatus, Command, Look, UniqueOwner, HoldsNoLock
  <2>2. LiveServerListed'
    BY <1>15 DEF ShowStatus, Command, Look, LiveServerListed
  <2>3. CopiesRight'
    BY <1>15 DEF ShowStatus, Command, Look, CopiesRight, UsesCopy, LiveServerListed
  <2>4. CleanSpares'
    BY <1>15 DEF ShowStatus, Command, Look, CleanSpares, CopiesRight, UsesCopy
  <2>5. OneName'
    BY <1>15 DEF ShowStatus, Command, Look, OneName
  <2>6. MarkSpares'
    BY <1>15 DEF ShowStatus, Command, Look, MarkSpares
  <2>7. QED
    BY <1>0, <2>1, <2>2, <2>3, <2>4, <2>5, <2>6
<1>16. ASSUME NEW n \in Names, StopServer(c, n)
      PROVE  Listed'
  <2>1. UniqueOwner'
    BY <1>16 DEF StopServer, Command, Look, UniqueOwner, HoldsNoLock
  <2>2. LiveServerListed'
    BY <1>16 DEF StopServer, Command, Look, LiveServerListed
  <2>3. CopiesRight'
    BY <1>16 DEF StopServer, Command, Look, CopiesRight, UsesCopy, LiveServerListed
  <2>4. CleanSpares'
    BY <1>16 DEF StopServer, Command, Look, CleanSpares, CopiesRight, UsesCopy
  <2>5. OneName'
    BY <1>16 DEF StopServer, Command, Look, OneName
  <2>6. MarkSpares'
    BY <1>16 DEF StopServer, Command, Look, MarkSpares
  <2>7. QED
    BY <1>0, <2>1, <2>2, <2>3, <2>4, <2>5, <2>6
<1>17. ASSUME NEW n \in Names, Check(c, n)
      PROVE  Listed'
  <2>1. CopiesRight'
    <3>1. c \in Processes /\ copy[c] \in Registry /\ UsesCopy(c)
      BY <1>17 DEF Check, UsesCopy
    <3>2. CASE UNCHANGED <<copy, missed>>
      BY <1>17, <3>2 DEF Check, CopiesRight, UsesCopy
    <3>3. CASE /\ copy' = [copy EXCEPT ![c][n] = Stopped]
               /\ missed' = [missed EXCEPT ![c] = @ \cup {copy[c][n]}]
      <4>1. /\ \A w \in Processes : w # c => copy'[w] = copy[w] /\ missed'[w] = missed[w]
            /\ \A m \in Names : m # n => copy'[c][m] = copy[c][m]
            /\ missed'[c] = missed[c] \cup {copy[c][n]}
        BY <3>1, <3>3 DEF Registry
      <4>2. \A q \in Servers : Known(q, c)' => copy'[c][NameOf[q]] = q
        BY <1>17, <3>1, <4>1, RegistryFacts DEF Check, CopiesRight
      <4>3. QED
        BY <1>17, <4>1, <4>2 DEF Check, CopiesRight, UsesCopy
    <3>4. QED
      BY <1>17, <3>2, <3>3 DEF Check
  <2>2. /\ UniqueOwner' /\ LiveServerListed' /\ CleanSpares'
        /\ OneName' /\ MarkSpares'
    BY <1>17 DEF Check, UniqueOwner, HoldsNoLock, LiveServerListed, CleanSpares, CopiesRight,
       UsesCopy, OneName, MarkSpares
  <2>3. QED
    BY <1>0, <2>1, <2>2
<1>18. ASSUME NEW n \in Names, StopNext(c, n)
      PROVE  Listed'
  <2>1. UniqueOwner'
    BY <1>18 DEF StopNext, Look, UniqueOwner, HoldsNoLock
  <2>2. LiveServerListed'
    BY <1>18 DEF StopNext, Look, LiveServerListed
  <2>3. CopiesRight'
    BY <1>18 DEF StopNext, Look, CopiesRight, UsesCopy, LiveServerListed
  <2>4. CleanSpares'
    BY <1>18 DEF StopNext, Look, CleanSpares, CopiesRight, UsesCopy
  <2>5. OneName'
    BY <1>18 DEF StopNext, Look, OneName
  <2>6. MarkSpares'
    BY <1>18 DEF StopNext, Look, MarkSpares
  <2>7. QED
    BY <1>0, <2>1, <2>2, <2>3, <2>4, <2>5, <2>6
<1>19. QED
  BY <1>0, <1>1, <1>2, <1>3, <1>4, <1>5, <1>6, <1>7, <1>8, <1>9, <1>10, <1>11, <1>12,
     <1>13, <1>14, <1>15, <1>16, <1>17, <1>18 DEF CommandStep

\* The invariant of the file.
LEMMA AlwaysListed == Spec => []Listed
<1>1. Init => Listed
  BY RegistryAssumption, RegistryFacts
     DEF Init, Listed, Typed, TypeOK, TodoRuns, Phases, Steps, Processes, UniqueOwner, HoldsNoLock,
         LiveServerListed, CopiesRight, UsesCopy, CleanSpares, OneName, MarkSpares
<1>2. Listed /\ [Next]_vars => Listed'
  <2>1. ASSUME Listed, NEW p \in Servers, ServerStep(p) PROVE Listed'
    BY <2>1, ServerListed
  <2>2. ASSUME Listed, NEW c \in Commands, CommandStep(c) PROVE Listed'
    BY <2>2, CommandListed
  <2>3. ASSUME Listed, UNCHANGED vars PROVE Listed'
    BY <2>3 DEF vars, Listed, Typed, TypeOK, TodoRuns, UniqueOwner, HoldsNoLock, LiveServerListed,
         CopiesRight, UsesCopy, Known, CleanSpares, OneName, MarkSpares
  <2>4. QED
    BY <2>1, <2>2, <2>3 DEF Next
<1>3. QED
  BY <1>1, <1>2, PTL DEF Spec

\* What a command knows of the dead, while servers take their steps.
LEMMA ServerCurrent ==
    ASSUME FixedPort = FALSE, Current, NEW p \in Servers, ServerStep(p)
    PROVE  Current'
<1> USE RegistryAssumption DEF Current, Typed, TypeOK, Processes, reading
<1>0. Typed'
  BY ServerTypes
<1>1. CASE Listen(p)
  BY <1>0, <1>1 DEF Listen,
     OneName, ServingOwns, HoldsNoLock, EntriesNamed, DeadStay, AnswersHold, InheritedIsDead,
     AllChecked, BystandersLive
<1>2. CASE RegisterLoad(p)
  BY <1>0, <1>2 DEF RegisterLoad,
     OneName, ServingOwns, HoldsNoLock, EntriesNamed, DeadStay, AnswersHold, InheritedIsDead,
     AllChecked, BystandersLive
<1>3. CASE RegisterSave(p)
  <2>1. EntriesNamed'
    <3>1. copy[p] \in Registry /\ Named(copy[p])
      BY DEF EntriesNamed
    <3>2. Named(file')
      BY <1>3, <3>1, NamedFacts DEF RegisterSave, Save
    <3>3. QED
      BY <1>3, <3>2, NamedFacts DEF RegisterSave, Forget, EntriesNamed
  <2>2. /\ OneName' /\ ServingOwns' /\ DeadStay'
        /\ AnswersHold' /\ InheritedIsDead' /\ AllChecked' /\ BystandersLive'
    BY <1>3 DEF RegisterSave, Save, Forget, OneName, ServingOwns, HoldsNoLock, DeadStay,
       AnswersHold, SeemsAlive, InheritedIsDead, AllChecked, BystandersLive
  <2>3. QED
    BY <1>0, <2>1, <2>2
<1>4. CASE ShutDown(p)
  BY <1>0, <1>4 DEF ShutDown,
     OneName, ServingOwns, HoldsNoLock, EntriesNamed, DeadStay, AnswersHold, InheritedIsDead,
     AllChecked, BystandersLive
<1>5. CASE Stop(p)
  BY <1>0, <1>5 DEF Stop,
     OneName, ServingOwns, HoldsNoLock, EntriesNamed, DeadStay, AnswersHold, InheritedIsDead,
     AllChecked, BystandersLive
<1>6. CASE DeregisterLoad(p)
  <2>1. AnswersHold'
    <3>1. \A d \in Commands : d # p
      BY DEF AnswersHold
    <3>2. \A d \in Commands : copy'[d] = copy[d]
      BY <1>6, <3>1 DEF DeregisterLoad
    <3>3. QED
      BY <1>6, <3>2 DEF DeregisterLoad, AnswersHold
  <2>2. /\ OneName' /\ ServingOwns' /\ EntriesNamed'
        /\ DeadStay' /\ InheritedIsDead' /\ AllChecked' /\ BystandersLive'
    BY <1>6 DEF DeregisterLoad, OneName, ServingOwns, HoldsNoLock, DeadStay, EntriesNamed,
       InheritedIsDead, AllChecked, BystandersLive, AnswersHold
  <2>3. QED
    BY <1>0, <2>1, <2>2
<1>7. CASE DeregisterSave(p)
  <2>1. EntriesNamed'
    <3>1. copy[p] \in Registry /\ Named(copy[p])
      BY DEF EntriesNamed
    <3>2. Named(file')
      BY <1>7, <3>1, RegistryFacts, NamedFacts DEF DeregisterSave, Save
    <3>3. QED
      BY <1>7, <3>2, NamedFacts DEF DeregisterSave, Forget, EntriesNamed
  <2>2. /\ OneName' /\ ServingOwns' /\ DeadStay'
        /\ AnswersHold' /\ InheritedIsDead' /\ AllChecked' /\ BystandersLive'
    BY <1>7 DEF DeregisterSave, Save, Forget, OneName, ServingOwns, HoldsNoLock, DeadStay,
       AnswersHold, SeemsAlive, InheritedIsDead, AllChecked, BystandersLive
  <2>3. QED
    BY <1>0, <2>1, <2>2
<1>8. CASE Exit(p)
  <2>1. EntriesNamed'
    BY <1>8, NamedFacts DEF Exit, Leave, Forget, EntriesNamed
  <2>2. /\ OneName' /\ ServingOwns' /\ DeadStay'
        /\ AnswersHold' /\ InheritedIsDead' /\ AllChecked' /\ BystandersLive'
    BY <1>8 DEF Exit, Leave, Forget, OneName, ServingOwns, HoldsNoLock, DeadStay, AnswersHold,
       SeemsAlive, InheritedIsDead, AllChecked, BystandersLive
  <2>3. QED
    BY <1>0, <2>1, <2>2
<1>9. CASE Crash(p)
  <2>1. EntriesNamed'
    BY <1>9, NamedFacts DEF Crash, Leave, Forget, EntriesNamed
  <2>2. /\ OneName' /\ ServingOwns' /\ DeadStay'
        /\ AnswersHold' /\ InheritedIsDead' /\ AllChecked' /\ BystandersLive'
    BY <1>9 DEF Crash, Leave, Forget, OneName, ServingOwns, HoldsNoLock, DeadStay, AnswersHold,
       SeemsAlive, InheritedIsDead, AllChecked, BystandersLive
  <2>3. QED
    BY <1>0, <2>1, <2>2
<1>10. CASE Recycle(p)
  BY <1>0, <1>10 DEF Recycle,
     OneName, ServingOwns, HoldsNoLock, EntriesNamed, DeadStay, AnswersHold, InheritedIsDead,
     AllChecked, BystandersLive
<1>11. QED
  BY <1>0, <1>1, <1>2, <1>3, <1>4, <1>5, <1>6, <1>7, <1>8, <1>9, <1>10 DEF ServerStep

\* And while commands take theirs.
LEMMA CommandCurrent ==
    ASSUME FixedPort = FALSE, Current, NEW c \in Commands, CommandStep(c)
    PROVE  Current'
<1> USE RegistryAssumption DEF Current, Typed, TypeOK, Processes, reading
<1>0. Typed'
  BY CommandTypes
<1>1. CASE ListServers(c)
  <2>1. OneName'
    BY <1>1 DEF ListServers, Command, Look, OneName
  <2>2. ServingOwns'
    BY <1>1 DEF ListServers, Command, Look, ServingOwns, HoldsNoLock, DeadStay
  <2>3. EntriesNamed'
    BY <1>1 DEF ListServers, Command, Look, EntriesNamed
  <2>4. DeadStay'
    BY <1>1 DEF ListServers, Command, Look, DeadStay, HoldsNoLock
  <2>5. AnswersHold'
    BY <1>1 DEF ListServers, Command, Look, AnswersHold, ServingOwns, DeadStay, HoldsNoLock,
       SeemsAlive
  <2>6. InheritedIsDead'
    BY <1>1 DEF ListServers, Command, Look, InheritedIsDead
  <2>7. AllChecked'
    BY <1>1 DEF ListServers, Command, Look, AllChecked
  <2>8. BystandersLive'
    BY <1>1 DEF ListServers, Command, Look, BystandersLive, InheritedIsDead, AnswersHold,
       AllChecked
  <2>9. QED
    BY <1>0, <2>1, <2>2, <2>3, <2>4, <2>5, <2>6, <2>7, <2>8
<1>2. CASE StopAll(c)
  <2>1. OneName'
    BY <1>2 DEF StopAll, Command, Look, OneName
  <2>2. ServingOwns'
    BY <1>2 DEF StopAll, Command, Look, ServingOwns, HoldsNoLock, DeadStay
  <2>3. EntriesNamed'
    BY <1>2 DEF StopAll, Command, Look, EntriesNamed
  <2>4. DeadStay'
    BY <1>2 DEF StopAll, Command, Look, DeadStay, HoldsNoLock
  <2>5. AnswersHold'
    BY <1>2 DEF StopAll, Command, Look, AnswersHold, ServingOwns, DeadStay, HoldsNoLock,
       SeemsAlive
  <2>6. InheritedIsDead'
    BY <1>2 DEF StopAll, Command, Look, InheritedIsDead
  <2>7. AllChecked'
    BY <1>2 DEF StopAll, Command, Look, AllChecked
  <2>8. BystandersLive'
    BY <1>2 DEF StopAll, Command, Look, BystandersLive, InheritedIsDead, AnswersHold, AllChecked
  <2>9. QED
    BY <1>0, <2>1, <2>2, <2>3, <2>4, <2>5, <2>6, <2>7, <2>8
<1>3. CASE CleanRegistry(c)
  <2>1. OneName'
    BY <1>3 DEF CleanRegistry, Command, Look, OneName
  <2>2. ServingOwns'
    BY <1>3 DEF CleanRegistry, Command, Look, ServingOwns, HoldsNoLock, DeadStay
  <2>3. EntriesNamed'
    BY <1>3 DEF CleanRegistry, Command, Look, EntriesNamed
  <2>4. DeadStay'
    BY <1>3 DEF CleanRegistry, Command, Look, DeadStay, HoldsNoLock
  <2>5. AnswersHold'
    BY <1>3 DEF CleanRegistry, Command, Look, AnswersHold, ServingOwns, DeadStay, HoldsNoLock,
       SeemsAlive
  <2>6. InheritedIsDead'
    BY <1>3 DEF CleanRegistry, Command, Look, InheritedIsDead
  <2>7. AllChecked'
    BY <1>3 DEF CleanRegistry, Command, Look, AllChecked
  <2>8. BystandersLive'
    BY <1>3 DEF CleanRegistry, Command, Look, BystandersLive, InheritedIsDead, AnswersHold,
       AllChecked
  <2>9. QED
    BY <1>0, <2>1, <2>2, <2>3, <2>4, <2>5, <2>6, <2>7, <2>8
<1>4. CASE Show(c)
  <2>1. EntriesNamed'
    BY <1>4, NamedFacts DEF Show, Answer, Save, PutAway, Forget, EntriesNamed
  <2>2. /\ OneName' /\ ServingOwns' /\ DeadStay'
        /\ AnswersHold' /\ InheritedIsDead' /\ AllChecked' /\ BystandersLive'
    BY <1>4 DEF Show, Answer, Save, PutAway, Forget, OneName, ServingOwns, HoldsNoLock, DeadStay,
       AnswersHold, SeemsAlive, InheritedIsDead, AllChecked, BystandersLive
  <2>3. QED
    BY <1>0, <2>1, <2>2
<1>5. CASE ChooseTargets(c)
  <2>1. EntriesNamed'
    BY <1>5, NamedFacts DEF ChooseTargets, Answer, Save, PutAway, Forget, FoundRunning, EntriesNamed
  <2>2. /\ OneName' /\ ServingOwns' /\ DeadStay'
        /\ AnswersHold' /\ InheritedIsDead' /\ AllChecked' /\ BystandersLive'
    BY <1>5 DEF ChooseTargets, Answer, Save, PutAway, Forget, FoundRunning, OneName, ServingOwns,
       HoldsNoLock, DeadStay, AnswersHold, SeemsAlive, InheritedIsDead, AllChecked,
       BystandersLive
  <2>3. QED
    BY <1>0, <2>1, <2>2
<1>6. CASE AllStopped(c)
  <2>1. EntriesNamed'
    BY <1>6, NamedFacts DEF AllStopped, PutAway, Forget, EntriesNamed
  <2>2. /\ OneName' /\ ServingOwns' /\ DeadStay'
        /\ AnswersHold' /\ InheritedIsDead' /\ AllChecked' /\ BystandersLive'
    BY <1>6 DEF AllStopped, PutAway, Forget, OneName, ServingOwns, HoldsNoLock, DeadStay,
       AnswersHold, SeemsAlive, InheritedIsDead, AllChecked, BystandersLive
  <2>3. QED
    BY <1>0, <2>1, <2>2
<1>7. CASE NothingToStop(c)
  <2>1. EntriesNamed'
    BY <1>7, NamedFacts DEF NothingToStop, Answer, Save, PutAway, Forget, EntriesNamed
  <2>2. /\ OneName' /\ ServingOwns' /\ DeadStay'
        /\ AnswersHold' /\ InheritedIsDead' /\ AllChecked' /\ BystandersLive'
    BY <1>7 DEF NothingToStop, Answer, Save, PutAway, Forget, OneName, ServingOwns, HoldsNoLock,
       DeadStay, AnswersHold, SeemsAlive, InheritedIsDead, AllChecked, BystandersLive
  <2>3. QED
    BY <1>0, <2>1, <2>2
<1>8. CASE Resolve(c)
  BY <1>0, <1>8 DEF Resolve, Answer, Save,
     OneName, ServingOwns, HoldsNoLock, EntriesNamed, DeadStay, AnswersHold, InheritedIsDead,
     AllChecked, BystandersLive
<1>9. CASE ListForClean(c)
  BY <1>0, <1>9 DEF ListForClean, Answer, Save, FoundStopped,
     OneName, ServingOwns, HoldsNoLock, EntriesNamed, DeadStay, AnswersHold, InheritedIsDead,
     AllChecked, BystandersLive
<1>10. CASE CleanLoad(c)
  BY <1>0, <1>10 DEF CleanLoad,
     OneName, ServingOwns, HoldsNoLock, EntriesNamed, DeadStay, AnswersHold, InheritedIsDead,
     AllChecked, BystandersLive
<1>11. CASE CleanSave(c)
  <2>1. EntriesNamed'
    <3>1. copy[c] \in Registry /\ Named(copy[c]) /\ targets[c] \in SUBSET Names
      BY DEF EntriesNamed
    <3>2. Named([m \in Names |-> IF m \in targets[c] THEN Absent ELSE copy[c][m]])
      BY <3>1, NamedFacts
    <3>3. Named(file')
      BY <1>11, <3>2 DEF CleanSave, Save, EntriesNamed
    <3>4. QED
      BY <1>11, <3>3, NamedFacts DEF CleanSave, PutAway, Forget, EntriesNamed
  <2>2. /\ OneName' /\ ServingOwns' /\ DeadStay'
        /\ AnswersHold' /\ InheritedIsDead' /\ AllChecked' /\ BystandersLive'
    BY <1>11 DEF CleanSave, Save, PutAway, Forget, OneName, ServingOwns, HoldsNoLock, DeadStay,
       AnswersHold, SeemsAlive, InheritedIsDead, AllChecked, BystandersLive
  <2>3. QED
    BY <1>0, <2>1, <2>2
<1>12. CASE Kill(c)
  <2>1. OneName'
    BY <1>12 DEF Kill, Terminate, Forget, HoldsNoLock, OneName
  <2>2. ServingOwns'
    BY <1>12 DEF Kill, Terminate, Forget, HoldsNoLock, ServingOwns, DeadStay
  <2>3. EntriesNamed'
    BY <1>12, NamedFacts DEF Kill, Terminate, Forget, HoldsNoLock, EntriesNamed
  <2>4. DeadStay'
    BY <1>12 DEF Kill, Terminate, Forget, HoldsNoLock, DeadStay
  <2>5. AnswersHold'
    BY <1>12 DEF Kill, Terminate, Forget, HoldsNoLock, AnswersHold, ServingOwns, DeadStay,
       SeemsAlive
  <2>6. InheritedIsDead'
    BY <1>12 DEF Kill, Terminate, Forget, HoldsNoLock, InheritedIsDead
  <2>7. AllChecked'
    BY <1>12 DEF Kill, Terminate, Forget, HoldsNoLock, AllChecked
  <2>8. BystandersLive'
    <3>1. PICK n \in scope[c] : Terminate(copy[c][n])
      BY <1>12 DEF Kill
    <3>2. todo[c] = {} /\ copy[c][n] \notin deadBefore[c]
      BY <1>12, <3>1 DEF Kill, AllChecked, AnswersHold
    <3>3. \A q \in Servers : copy[c][n] = q => NameOf[q] = n
      BY <3>1 DEF EntriesNamed, Named
    <3>4. \A q \in Servers : copy[c][n] = q => phase[q] # "recycled"
      BY <1>12, <3>2, <3>3 DEF Kill, InheritedIsDead
    <3>5. QED
      BY <3>1, <3>4 DEF Terminate, BystandersLive
  <2>9. QED
    BY <1>0, <2>1, <2>2, <2>3, <2>4, <2>5, <2>6, <2>7, <2>8
<1>13. CASE MarkLoad(c)
  <2>1. OneName'
    BY <1>13 DEF MarkLoad, PutAway, Forget, OneName
  <2>2. ServingOwns'
    BY <1>13 DEF MarkLoad, PutAway, Forget, ServingOwns, HoldsNoLock, DeadStay
  <2>3. EntriesNamed'
    BY <1>13, NamedFacts DEF MarkLoad, PutAway, Forget, EntriesNamed
  <2>4. DeadStay'
    BY <1>13 DEF MarkLoad, PutAway, Forget, DeadStay, HoldsNoLock
  <2>5. AnswersHold'
    BY <1>13 DEF MarkLoad, PutAway, Forget, AnswersHold, ServingOwns, DeadStay, HoldsNoLock,
       SeemsAlive
  <2>6. InheritedIsDead'
    BY <1>13 DEF MarkLoad, PutAway, Forget, InheritedIsDead
  <2>7. AllChecked'
    BY <1>13 DEF MarkLoad, PutAway, Forget, AllChecked
  <2>8. BystandersLive'
    BY <1>13 DEF MarkLoad, PutAway, Forget, BystandersLive, InheritedIsDead, AnswersHold,
       AllChecked
  <2>9. QED
    BY <1>0, <2>1, <2>2, <2>3, <2>4, <2>5, <2>6, <2>7, <2>8
<1>14. CASE MarkSave(c)
  <2>1. EntriesNamed'
    <3>1. copy[c] \in Registry /\ Named(copy[c]) /\ scope[c] \in SUBSET Names
      BY DEF EntriesNamed
    <3>2. Named(file')
      BY <1>14, <3>1, NamedFacts DEF MarkSave, Save, EntriesNamed
    <3>3. QED
      BY <1>14, <3>2, NamedFacts DEF MarkSave, PutAway, Forget, EntriesNamed
  <2>2. /\ OneName' /\ ServingOwns' /\ DeadStay'
        /\ AnswersHold' /\ InheritedIsDead' /\ AllChecked' /\ BystandersLive'
    BY <1>14 DEF MarkSave, Save, PutAway, Forget, OneName, ServingOwns, HoldsNoLock, DeadStay,
       AnswersHold, SeemsAlive, InheritedIsDead, AllChecked, BystandersLive
  <2>3. QED
    BY <1>0, <2>1, <2>2
<1>15. ASSUME NEW n \in Names, ShowStatus(c, n)
      PROVE  Current'
  BY <1>0, <1>15 DEF ShowStatus, Command, Look,
     OneName, ServingOwns, HoldsNoLock, EntriesNamed, DeadStay, AnswersHold, InheritedIsDead,
     AllChecked, BystandersLive
<1>16. ASSUME NEW n \in Names, StopServer(c, n)
      PROVE  Current'
  BY <1>0, <1>16 DEF StopServer, Command, Look,
     OneName, ServingOwns, HoldsNoLock, EntriesNamed, DeadStay, AnswersHold, InheritedIsDead,
     AllChecked, BystandersLive
<1>17. ASSUME NEW n \in Names, Check(c, n)
      PROVE  Current'
  <2>1. EntriesNamed'
    <3>1. c \in Processes /\ copy[c] \in Registry
      OBVIOUS
    <3>2. Named([copy[c] EXCEPT ![n] = Stopped])
      BY <3>1, NamedFacts DEF EntriesNamed
    <3>3. copy' = copy \/ copy' = [copy EXCEPT ![c] = [copy[c] EXCEPT ![n] = Stopped]]
      BY <1>17, <3>1 DEF Check
    <3>4. QED
      BY <1>17, <3>1, <3>2, <3>3 DEF Check, EntriesNamed
  <2>2. AnswersHold'
    <3>1. c \in Processes /\ copy[c] \in Registry /\ UNCHANGED <<step, scope, deadBefore, phase>>
      BY <1>17 DEF Check
    <3>2. \A d \in Commands : d # c => copy'[d] = copy[d] /\ todo'[d] = todo[d]
      BY <1>17, <3>1 DEF Check
    <3>3. \A m \in Names : m # n => copy'[c][m] = copy[c][m]
      BY <1>17, <3>1 DEF Check, Registry
    <3>4. copy'[c][n] = Stopped \/ (copy'[c][n] = copy[c][n] /\ SeemsAlive(copy[c][n]))
      BY <1>17, <3>1 DEF Check, Registry
    <3>5. copy[c][n] \in Servers
      BY <1>17 DEF Check, TodoRuns
    <3>6. copy'[c][n] \notin deadBefore[c]
      BY <3>4, <3>5 DEF SeemsAlive, ServingOwns, DeadStay, HoldsNoLock
    <3>7. todo'[c] = todo[c] \ {n}
      BY <1>17 DEF Check
    <3>8. QED
      BY <3>1, <3>2, <3>3, <3>6, <3>7 DEF AnswersHold
  <2>3. InheritedIsDead'
    <3>1. c \in Processes /\ copy[c] \in Registry /\ UNCHANGED <<step, scope, deadBefore, phase>>
      BY <1>17 DEF Check
    <3>2. \A d \in Commands : d # c => copy'[d] = copy[d] /\ todo'[d] = todo[d]
      BY <1>17, <3>1 DEF Check
    <3>3. \A m \in Names : m # n => copy'[c][m] = copy[c][m]
      BY <1>17, <3>1 DEF Check, Registry
    <3>4. copy'[c][n] = Stopped \/ (copy'[c][n] = copy[c][n] /\ SeemsAlive(copy[c][n]))
      BY <1>17, <3>1 DEF Check, Registry
    <3>5. \A q \in Servers : copy'[c][NameOf[q]] = q => copy[c][NameOf[q]] = q
      BY <3>3, <3>4, RegistryFacts
    <3>6. QED
      BY <3>1, <3>2, <3>5 DEF InheritedIsDead
  <2>4. /\ OneName' /\ ServingOwns' /\ DeadStay'
        /\ AllChecked' /\ BystandersLive'
    BY <1>17 DEF Check, OneName, ServingOwns, HoldsNoLock, DeadStay, AllChecked, BystandersLive,
       InheritedIsDead, AnswersHold
  <2>5. QED
    BY <1>0, <2>1, <2>2, <2>3, <2>4
<1>18. ASSUME NEW n \in Names, StopNext(c, n)
      PROVE  Current'
  BY <1>0, <1>18 DEF StopNext, Look,
     OneName, ServingOwns, HoldsNoLock, EntriesNamed, DeadStay, AnswersHold, InheritedIsDead,
     AllChecked, BystandersLive
<1>19. QED
  BY <1>0, <1>1, <1>2, <1>3, <1>4, <1>5, <1>6, <1>7, <1>8, <1>9, <1>10, <1>11, <1>12,
     <1>13, <1>14, <1>15, <1>16, <1>17, <1>18 DEF CommandStep

\* The invariant of the answers, for servers that get their ports from the system.
LEMMA AlwaysCurrent ==
    ASSUME FixedPort = FALSE
    PROVE  Spec => []Current
<1>1. Init => Current
  BY RegistryAssumption, RegistryFacts, NamedFacts
     DEF Init, Current, Typed, TypeOK, TodoRuns, Phases, Steps, Processes, OneName, ServingOwns,
         EntriesNamed, DeadStay, AnswersHold, InheritedIsDead, AllChecked, BystandersLive
<1>2. Current /\ [Next]_vars => Current'
  <2>1. ASSUME Current, NEW p \in Servers, ServerStep(p) PROVE Current'
    BY <2>1, ServerCurrent
  <2>2. ASSUME Current, NEW c \in Commands, CommandStep(c) PROVE Current'
    BY <2>2, CommandCurrent
  <2>3. ASSUME Current, UNCHANGED vars PROVE Current'
    BY <2>3 DEF vars, Current, Typed, TypeOK, TodoRuns, OneName, ServingOwns, HoldsNoLock,
         EntriesNamed, Named, DeadStay, AnswersHold, InheritedIsDead, AllChecked, BystandersLive
  <2>4. QED
    BY <2>1, <2>2, <2>3 DEF Next
<1>3. QED
  BY <1>1, <1>2, PTL DEF Spec

-----------------------------------------------------------------------------
\* The variables keep their types: that a process misses servers only needs that
\* what a command has still to check is an entry with a pid.
THEOREM RegistryTyped == Spec => []TypeOK
BY AlwaysListed, PTL DEF Listed, Typed

\* The unlocked file keeps every server that is up, for any number of servers,
\* names and commands, but for those a process that missed them wrote over.
THEOREM LiveServersStayListed == Spec => []LiveServerListed
BY AlwaysListed, PTL DEF Listed

\* No command shows as running a server that was gone when it looked, if the
\* system assigns the ports.
THEOREM CommandsAnswerCurrently ==
    ASSUME FixedPort = FALSE
    PROVE  Spec => []AnswersAreCurrent
<1>1. Current => AnswersAreCurrent
  BY DEF Current, AnswersHold, AnswersAreCurrent
<1>2. QED
  BY <1>1, AlwaysCurrent, PTL

\* And no command signals a program that inherited the pid of a server.
THEOREM BystandersAreSpared ==
    ASSUME FixedPort = FALSE
    PROVE  Spec => []BystandersLive
BY AlwaysCurrent, PTL DEF Current
=============================================================================

---------------------------- MODULE Registration ----------------------------
(***************************************************************************)
(* Tools, prompts and resource templates that are registered while a       *)
(* server runs.  The application keeps them in its registries, each open   *)
(* session has a server of the MCP library with its own copies, and        *)
(* clients keep the lists they were last told to fetch.  From tool(),      *)
(* prompt(), resourceTemplate() and the notify*ListChanged of              *)
(* src/server/app.ts, createSessionMcpServer and registerSingle* of        *)
(* src/server/mcp.ts, and the initialize route of src/server/hono.ts.      *)
(*                                                                         *)
(* A definition is a number: the number of times its item was registered.  *)
(***************************************************************************)
EXTENDS Naturals, Arrays, FiniteSets, SequencesExt

CONSTANTS Items,          \* what may be registered
          ListOf,         \* the list an item is on: "tools", "resources", "prompts"
          Name,           \* the name a session's server knows it by
          Sessions,
          MaxDefinitions  \* a bound on the definitions of each item

ASSUME RegistrationAssumption ==
    /\ ListOf \in [Items -> {"tools", "resources", "prompts"}]
    /\ DOMAIN Name = Items
    /\ MaxDefinitions \in [Items -> Nat]

VARIABLES registry,   \* the last definition of each item, 0 when there is none
          phase,      \* of each session: "none", "starting", "open", "closed"
          sessions,   \* the sessions map: the open sessions, oldest first
          copies,     \* the definitions in each session's server
          answered,   \* the lists each session's server answers requests for
          missed,     \* items registered while a session was starting
          stream,     \* whether its client has a stream for notifications
          known,      \* the definitions on the lists its client fetched
          rounds      \* the notify*ListChanged under way, and whom they have told

vars == <<registry, phase, sessions, copies, answered, missed, stream, known, rounds>>

Lists == {"tools", "resources", "prompts"}
Definitions == Nat
Nothing == [i \in Items |-> 0]

\* A round is known by the registration it announces.
Rounds == [item : Items, definition : Definitions, told : SUBSET Sessions]

TypeOK ==
    /\ registry \in [Items -> Definitions]
    /\ phase \in [Sessions -> {"none", "starting", "open", "closed"}]
    /\ sessions \in Seq(Sessions)
    /\ copies \in [Sessions -> [Items -> Definitions]]
    /\ answered \in [Sessions -> SUBSET Lists]
    /\ missed \in [Sessions -> SUBSET Items]
    /\ stream \in [Sessions -> BOOLEAN]
    /\ known \in [Sessions -> [Items -> Definitions]]
    /\ rounds \subseteq Rounds

\* The server's own resources are registered before anything else; they are not
\* among the items, but they make each server answer for resources.
Init ==
    /\ registry = Nothing
    /\ phase = [s \in Sessions |-> "none"]
    /\ sessions = <<>>
    /\ copies = [s \in Sessions |-> Nothing]
    /\ answered = [s \in Sessions |-> {}]
    /\ missed = [s \in Sessions |-> {}]
    /\ stream = [s \in Sessions |-> FALSE]
    /\ known = [s \in Sessions |-> Nothing]
    /\ rounds = {}

-----------------------------------------------------------------------------
Registered == {i \in Items : registry[i] # 0}

\* The definitions a session's client can see and use.
Offered(s) == [i \in Items |-> IF ListOf[i] \in answered[s] THEN copies[s][i] ELSE 0]

\* The library takes no second item of a name on a list.
NameTaken(i, definitions) ==
    \E j \in Items : definitions[j] # 0 /\ ListOf[j] = ListOf[i] /\ Name[j] = Name[i]

\* registerSingleTool, registerSinglePrompt and registerSingleTemplate: an item the
\* session has already stays as it is.
Added(s, i, definition) ==
    IF NameTaken(i, copies[s]) THEN copies[s] ELSE [copies[s] EXCEPT ![i] = definition]

\* Mutant: only the session that came first gets what is registered.
BugFirstOnly == IF sessions = <<>> THEN {} ELSE {Head(sessions)}

Reached == Range(sessions)

\* The registries keep the last definition of each item.
Stored(i, definition) == [registry EXCEPT ![i] = definition]

\* The registry, the server of each session in the map, and, when there is any, a
\* round of notifications.
Register(i) ==
    /\ registry[i] < MaxDefinitions[i]
    /\ LET definition == registry[i] + 1 IN
       /\ registry' = Stored(i, definition)
       /\ copies' = [s \in Sessions |->
              IF s \in Reached THEN Added(s, i, definition) ELSE copies[s]]
       /\ rounds' = IF sessions = <<>> THEN rounds
                    ELSE rounds \cup {[item |-> i, definition |-> definition, told |-> {}]}
    /\ missed' = [s \in Sessions |->
           IF phase[s] = "starting" THEN missed[s] \cup {i}
           ELSE IF phase[s] = "open" THEN missed[s] \ {i} ELSE missed[s]]
    /\ UNCHANGED <<phase, sessions, answered, stream, known>>

\* tool(), and prompt() alike
RegisterTool(i) == ListOf[i] \in {"tools", "prompts"} /\ Register(i)

\* resourceTemplate(), and resource() alike
RegisterTemplate(i) == ListOf[i] = "resources" /\ Register(i)

\* createSessionMcpServer for an initialize request.  From here on the server is
\* connected, and the library answers for no list it has nothing of yet.
Create(s) ==
    /\ phase[s] = "none"
    /\ \A i, j \in Registered : ListOf[i] = ListOf[j] /\ Name[i] = Name[j] => i = j
    /\ phase' = [phase EXCEPT ![s] = "starting"]
    /\ copies' = [copies EXCEPT ![s] = registry]
    /\ answered' = [answered EXCEPT ![s] = {"resources"} \cup {ListOf[i] : i \in Registered}]
    /\ UNCHANGED <<registry, sessions, missed, stream, known, rounds>>

\* Two templates of one name: the library refuses the second, and with it the session.
FailToCreate(s) ==
    /\ phase[s] = "none"
    /\ \E i, j \in Registered : i # j /\ ListOf[i] = ListOf[j] /\ Name[i] = Name[j]
    /\ phase' = [phase EXCEPT ![s] = "closed"]
    /\ UNCHANGED <<registry, sessions, copies, answered, missed, stream, known, rounds>>

\* onsessioninitialized, when the transport has read the request ...
Open(s) ==
    /\ phase[s] = "starting"
    /\ phase' = [phase EXCEPT ![s] = "open"]
    /\ sessions' = Append(sessions, s)
    /\ UNCHANGED <<registry, copies, answered, missed, stream, known, rounds>>

\* Mutant: only the client of the session that came last is told.
BugLastOnly(round) ==
    Only(sessions, {s \in Sessions \ round.told : s = Last(sessions)})

\* The map is iterated in its order: sessions that left it are passed over, and
\* those that entered it behind the last one told are visited too.
Untold(round) == Only(sessions, Sessions \ round.told)

\* Nothing is left of a session, its server and its client's lists.
Dropped(s) ==
    /\ phase' = [phase EXCEPT ![s] = "closed"]
    /\ copies' = [copies EXCEPT ![s] = Nothing]
    /\ answered' = [answered EXCEPT ![s] = {}]
    /\ missed' = [missed EXCEPT ![s] = {}]
    /\ stream' = [stream EXCEPT ![s] = FALSE]
    /\ known' = [known EXCEPT ![s] = Nothing]
    /\ UNCHANGED registry

\* ... or it refuses it.
Reject(s) ==
    /\ phase[s] = "starting"
    /\ Dropped(s)
    /\ UNCHANGED <<sessions, rounds>>

\* onsessionclosed.  A round that had only this session left to tell is over.
Close(s) ==
    /\ phase[s] = "open"
    /\ \E n \in DOMAIN sessions : sessions[n] = s /\ sessions' = Without(sessions, n)
    /\ Dropped(s)
    /\ rounds' = {r \in {[q EXCEPT !.told = @ \ {s}] : q \in rounds} :
                      \E u \in Range(sessions) \ {s} : u \notin r.told}

\* The client opens its stream and fetches the lists.
OpenStream(s) ==
    /\ phase[s] = "open"
    /\ ~stream[s]
    /\ stream' = [stream EXCEPT ![s] = TRUE]
    /\ known' = [known EXCEPT ![s] = Offered(s)]
    /\ UNCHANGED <<registry, phase, sessions, copies, answered, missed, rounds>>

-----------------------------------------------------------------------------
\* The client fetches the list it was told of.
Fetched(s, list) ==
    [i \in Items |-> IF ListOf[i] = list THEN Offered(s)[i] ELSE known[s][i]]

\* The notification is sent, or dropped without a stream; the loop goes on, or it
\* has come to the end of the map.
Tell(round) ==
    LET s    == Head(Untold(round))
        next == [round EXCEPT !.told = @ \cup {s}]
    IN  /\ rounds' = (rounds \ {round}) \cup {r \in {next} : Untold(r) # <<>>}
        /\ known' = IF stream[s] THEN [known EXCEPT ![s] = Fetched(s, ListOf[round.item])]
                                 ELSE known
        /\ UNCHANGED <<registry, phase, sessions, copies, answered, missed, stream>>

Next ==
    \/ \E i \in Items : RegisterTool(i) \/ RegisterTemplate(i)
    \/ \E s \in Sessions :
           Create(s) \/ FailToCreate(s) \/ Open(s) \/ Reject(s) \/ Close(s) \/ OpenStream(s)
    \/ \E round \in rounds : Tell(round)

\* A round goes on when the library has settled the last notification.
Spec ==
    /\ Init /\ [][Next]_vars
    /\ WF_vars(\E round \in rounds : Tell(round))

-----------------------------------------------------------------------------
\* Whatever is registered is offered by every open session (app.ts:279), except
\* what was registered while the session was starting and not again since, a list
\* that was empty when its server was made, and a name that another item has.
OffersComplete ==
    \A s \in Range(sessions), i \in Registered :
        \/ Offered(s)[i] # 0
        \/ i \in missed[s]
        \/ ListOf[i] \notin answered[s]
        \/ \E j \in Items \ {i} : copies[s][j] # 0 /\ Name[j] = Name[i]

\* A client that keeps its stream comes to know all that its session offers: no
\* round ends, is cut short or is overtaken without telling it (app.ts:1007).
ClientsCatchUp ==
    \A s \in Sessions :
        (stream[s] /\ known[s] # Offered(s)) ~> (~stream[s] \/ known[s] = Offered(s))
=============================================================================

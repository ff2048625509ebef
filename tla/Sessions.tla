------------------------------ MODULE Sessions ------------------------------
(***************************************************************************)
(* The client sessions of an owner process: the sessions map and the /mcp  *)
(* routes of src/server/hono.ts, the SubscriptionRegistry, the updates     *)
(* sent to subscribers, and the owner's decision in run() of               *)
(* src/server/app.ts to shut down once its own stdio and every session     *)
(* have ended.                                                             *)
(*                                                                         *)
(* A session has no single owner: it ends when its stream is aborted, when *)
(* its transport handles a DELETE, or when the DELETE route returns, and   *)
(* requests routed to it before that are still carried out after it.  A    *)
(* step is the code between two awaits.                                    *)
(***************************************************************************)
EXTENDS Naturals, FiniteSets, Arrays, SequencesExt

CONSTANTS Sids,        \* the session ids, one for each initialize request
          OwnSid,      \* the session of the owner's own stdio proxy
          Uris, NoUri, \* the resources that clients subscribe to
          MaxRequests, \* bound on the requests of a session under way
          Updates      \* whether the program notifies of updates

ASSUME SessionsAssumption ==
    /\ IsFiniteSet(Sids)
    /\ OwnSid \in Sids
    /\ NoUri \notin Uris
    /\ MaxRequests \in Nat
    /\ Updates \in BOOLEAN

VARIABLES client,        \* whether each session's client is there
          opening,       \* initialize requests between connect and the
                         \* transport's onsessioninitialized
          sessions,      \* the keys of the sessions map, in its order
          stream,        \* the session's GET stream: none, open, or cut off
                         \* with its abort event still to come
          deleting,      \* how far a DELETE of the session has come
          requests,      \* (un)subscribe requests routed but not yet handled
          bySession,     \* SubscriptionRegistry.sessionSubscriptions
          byUri,         \* SubscriptionRegistry.uriSubscribers
          listed,        \* the keys of uriSubscribers
          activeSessions, totalSessions,   \* metrics
          update,        \* the call of notifyResourceUpdated under way
          server,        \* the owner: up, closing, closed, exited
          stdio          \* its stdio proxy: open, ending, closed

registry == <<bySession, byUri, listed>>
metrics == <<activeSessions, totalSessions>>
vars == <<client, opening, sessions, stream, deleting, requests, registry, metrics, update,
          server, stdio>>

Requests == [sid : Sids, uri : Uris, subscribe : BOOLEAN]
NoUpdate == [uri |-> NoUri, subscribers |-> {}, passed |-> {}, sent |-> {}]

TypeOK ==
    /\ client \in [Sids -> {"absent", "there", "gone"}]
    /\ opening \subseteq Sids
    /\ sessions \in Seq(Sids) /\ IsInjective(sessions)
    /\ stream \in [Sids -> {"none", "open", "cut"}]
    /\ deleting \in [Sids -> {"no", "asked", "answered"}]
    /\ requests \subseteq Requests
    /\ bySession \in [Sids -> SUBSET Uris]
    /\ byUri \in [Uris -> SUBSET Sids]
    /\ listed \subseteq Uris
    /\ activeSessions \in Nat
    /\ totalSessions \in Nat
    /\ update \in [uri : Uris \cup {NoUri}, subscribers : SUBSET Sids,
                   passed : SUBSET Sids, sent : SUBSET Sids]
    /\ server \in {"up", "closing", "closed", "exited"}
    /\ stdio \in {"open", "ending", "closed"}

Init ==
    /\ client = [s \in Sids |-> "absent"]
    /\ opening = {}
    /\ sessions = <<>>
    /\ stream = [s \in Sids |-> "none"]
    /\ deleting = [s \in Sids |-> "no"]
    /\ requests = {}
    /\ bySession = [s \in Sids |-> {}]
    /\ byUri = [u \in Uris |-> {}]
    /\ listed = {}
    /\ activeSessions = 0
    /\ totalSessions = 0
    /\ update = NoUpdate
    /\ server = "up"
    /\ stdio = "open"

Open(s) == s \in ToSet(sessions)
Listening == server \in {"up", "closing"}
Alive == server # "exited"

-----------------------------------------------------------------------------
\* SubscriptionRegistry.subscribe
Subscribe(s, u) ==
    /\ bySession' = [bySession EXCEPT ![s] = @ \cup {u}]
    /\ byUri' = [byUri EXCEPT ![u] = @ \cup {s}]
    /\ listed' = listed \cup {u}

\* SubscriptionRegistry.unsubscribe; the key of an empty set is deleted.
Unsubscribe(s, u) ==
    /\ bySession' = [bySession EXCEPT ![s] = @ \ {u}]
    /\ byUri' = [byUri EXCEPT ![u] = @ \ {s}]
    /\ listed' = IF byUri'[u] = {} THEN listed \ {u} ELSE listed

\* Mutant: every uri of the session is dropped from uriSubscribers.
BugDropUris(s) ==
    /\ bySession' = [bySession EXCEPT ![s] = {}]
    /\ byUri' = [u \in Uris |-> IF u \in bySession[s] THEN {} ELSE byUri[u]]
    /\ listed' = listed \ bySession[s]

\* Mutant: only the session's own set is deleted.
BugKeepUris(s) ==
    /\ bySession' = [bySession EXCEPT ![s] = {}]
    /\ UNCHANGED <<byUri, listed>>

\* SubscriptionRegistry.removeSession
RemoveSession(s) ==
    /\ bySession' = [bySession EXCEPT ![s] = {}]
    /\ byUri' = [u \in Uris |-> IF u \in bySession[s] THEN byUri[u] \ {s} ELSE byUri[u]]
    /\ listed' = listed \ {u \in bySession[s] : byUri[u] \subseteq {s}}

\* shutdown(): a second call returns at once.
ShutDown == server' = IF server = "up" THEN "closing" ELSE server

\* Mutant: nobody is told.
BugNotTold == UNCHANGED server

\* The onSessionClosed that run() passes, once the map has changed.
SessionClosed == IF stdio = "closed" /\ sessions' = <<>> THEN ShutDown ELSE UNCHANGED server

\* sessions.delete
DeleteKey(s) ==
    \/ /\ ~Open(s)
       /\ UNCHANGED sessions
    \/ \E n \in DOMAIN sessions :
          /\ sessions[n] = s
          /\ sessions' = Without(sessions, n)

\* sessions.delete, with the gauge set again and onSessionClosed called.
DropSession(s) ==
    /\ DeleteKey(s)
    /\ activeSessions' = Len(sessions')
    /\ SessionClosed
    /\ UNCHANGED totalSessions

\* The abort listener of a stream and onsessionclosed of a transport.
EndSession(s) ==
    \/ /\ Open(s)
       /\ DropSession(s)
       /\ RemoveSession(s)
    \/ /\ ~Open(s)
       /\ UNCHANGED <<sessions, metrics, registry, server>>

-----------------------------------------------------------------------------
\* POST /mcp with an initialize request, up to the await of connect.
Initialize(s) ==
    /\ Listening
    /\ client[s] = "absent"
    /\ client' = [client EXCEPT ![s] = "there"]
    /\ opening' = opening \cup {s}
    /\ UNCHANGED <<sessions, stream, deleting, requests, registry, metrics, update, server, stdio>>

\* The transport handles it and calls onsessioninitialized.
SessionInitialized(s) ==
    /\ Alive
    /\ s \in opening
    /\ opening' = opening \ {s}
    /\ sessions' = Append(sessions, s)
    /\ activeSessions' = Len(sessions')
    /\ totalSessions' = totalSessions + 1
    /\ UNCHANGED <<client, stream, deleting, requests, registry, update, server, stdio>>

\* GET /mcp: the transport has one stream of this kind for a session.
OpenStream(s) ==
    /\ Listening
    /\ client[s] = "there"
    /\ Open(s)
    /\ stream[s] = "none"
    /\ stream' = [stream EXCEPT ![s] = "open"]
    /\ UNCHANGED <<client, opening, sessions, deleting, requests, registry, metrics, update, server, stdio>>

\* The connection of the stream breaks while the client lives.
LoseStream(s) ==
    /\ stream[s] = "open"
    /\ stream' = [stream EXCEPT ![s] = "cut"]
    /\ UNCHANGED <<client, opening, sessions, deleting, requests, registry, metrics, update, server, stdio>>

\* A client goes without a DELETE, as the bridges do.
Disconnect(s) ==
    /\ client[s] = "there"
    /\ client' = [client EXCEPT ![s] = "gone"]
    /\ stream' = [stream EXCEPT ![s] = IF @ = "open" THEN "cut" ELSE @]

Leave(s) ==
    /\ s # OwnSid
    /\ Disconnect(s)
    /\ UNCHANGED <<opening, sessions, deleting, requests, registry, metrics, update, server, stdio>>

\* The abort listener that GET /mcp registered.
StreamAborted(s) ==
    /\ Alive
    /\ stream[s] = "cut"
    /\ stream' = [stream EXCEPT ![s] = "none"]
    /\ EndSession(s)
    /\ UNCHANGED <<client, opening, deleting, requests, update, stdio>>

\* POST /mcp of a session: the map is looked up, then the body is awaited.
Ask(r) ==
    /\ Listening
    /\ client[r.sid] = "there"
    /\ Open(r.sid)
    /\ Cardinality({q \in requests : q.sid = r.sid}) < MaxRequests
    /\ requests' = requests \cup {r}
    /\ UNCHANGED <<client, opening, sessions, stream, deleting, registry, metrics, update, server, stdio>>

\* The request handlers of the session's server.
Handle(r) ==
    /\ Alive
    /\ r \in requests
    /\ requests' = requests \ {r}
    /\ IF r.subscribe THEN Subscribe(r.sid, r.uri) ELSE Unsubscribe(r.sid, r.uri)
    /\ UNCHANGED <<client, opening, sessions, stream, deleting, metrics, update, server, stdio>>

\* DELETE /mcp, up to the await of the transport; the stdio proxy sends none.
Delete(s) ==
    /\ Listening
    /\ s # OwnSid
    /\ client[s] = "there"
    /\ Open(s)
    /\ deleting[s] = "no"
    /\ deleting' = [deleting EXCEPT ![s] = "asked"]
    /\ UNCHANGED <<client, opening, sessions, stream, requests, registry, metrics, update, server, stdio>>

\* The transport calls onsessionclosed and ends its streams.
TransportCloses(s) ==
    /\ Alive
    /\ deleting[s] = "asked"
    /\ deleting' = [deleting EXCEPT ![s] = "answered"]
    /\ stream' = [stream EXCEPT ![s] = IF @ = "open" THEN "none" ELSE @]
    /\ EndSession(s)
    /\ UNCHANGED <<client, opening, requests, update, stdio>>

\* The transport has returned, or thrown, or refused the request unseen.
DeleteReturns(s) ==
    /\ Alive
    /\ deleting[s] # "no"
    /\ deleting' = [deleting EXCEPT ![s] = "no"]
    /\ DropSession(s)
    /\ UNCHANGED <<client, opening, stream, requests, registry, update, stdio>>

-----------------------------------------------------------------------------
\* Mutant: the loop counts positions instead of following the map's iterator.
BugByPosition(passed) == SubSeq(sessions, Cardinality(passed) + 1, Len(sessions))

\* What the iterator of the sessions map still has to deliver: entries deleted
\* meanwhile are left out, new ones come at the end.
ToVisit(passed) == Only(sessions, Sids \ passed)

\* isSubscribed: by the copy taken at the start, by now, or for want of any.
IsSubscribed(s, u, subscribers) ==
    \/ s \in subscribers
    \/ u \in bySession[s]
    \/ subscribers = {}

\* notifyResourceUpdated goes on to the next session it sends to, or to the end.
GoOn(u, subscribers, passed, sent) ==
    LET rest == ToVisit(passed)
        wanted == {i \in DOMAIN rest : IsSubscribed(rest[i], u, subscribers)}
    IN  \/ /\ wanted = {}
           /\ update' = NoUpdate
        \/ \E i \in wanted :
              /\ \A j \in wanted : i <= j
              /\ update' = [uri |-> u, subscribers |-> subscribers,
                            passed |-> passed \cup {rest[j] : j \in 1..i},
                            sent |-> sent \cup {rest[i]}]

\* The program calls notifyResourceUpdated.
Notify(u) ==
    /\ Updates /\ Alive
    /\ update.uri = NoUri
    /\ GoOn(u, byUri[u], {}, {})
    /\ UNCHANGED <<client, opening, sessions, stream, deleting, requests, registry, metrics, server, stdio>>

\* sendResourceUpdated has settled, one way or the other.
Sent ==
    /\ Alive
    /\ update.uri # NoUri
    /\ GoOn(update.uri, update.subscribers, update.passed, update.sent)
    /\ UNCHANGED <<client, opening, sessions, stream, deleting, requests, registry, metrics, server, stdio>>

-----------------------------------------------------------------------------
\* The owner's stdin ends: its proxy closes both transports.
StdioEnds ==
    /\ Alive
    /\ stdio = "open"
    /\ stdio' = "ending"
    /\ IF client[OwnSid] = "there" THEN Disconnect(OwnSid) ELSE UNCHANGED <<client, stream>>
    /\ UNCHANGED <<opening, sessions, deleting, requests, registry, metrics, update, server>>

\* run() after the await of the proxy's `done'.
LeaveIfAlone == IF sessions = <<>> THEN ShutDown ELSE UNCHANGED server

StdioDone ==
    /\ Alive
    /\ stdio = "ending"
    /\ stdio' = "closed"
    /\ LeaveIfAlone
    /\ UNCHANGED <<client, opening, sessions, stream, deleting, requests, registry, metrics, update>>

\* httpHandle.close(): every connection is cut.
CloseHttp ==
    /\ server = "closing"
    /\ server' = "closed"
    /\ stream' = [s \in Sids |-> IF stream[s] = "open" THEN "cut" ELSE stream[s]]
    /\ UNCHANGED <<client, opening, sessions, deleting, requests, registry, metrics, update, stdio>>

Exit ==
    /\ server = "closed"
    /\ server' = "exited"
    /\ UNCHANGED <<client, opening, sessions, stream, deleting, requests, registry, metrics, update, stdio>>

\* What the owner does by itself.
ServerStep ==
    \/ \E s \in Sids : SessionInitialized(s) \/ StreamAborted(s) \/ TransportCloses(s)
    \/ \E s \in Sids : DeleteReturns(s)
    \/ \E r \in requests : Handle(r)
    \/ Sent
    \/ StdioDone \/ CloseHttp \/ Exit

ClientStep ==
    \/ \E s \in Sids : Initialize(s) \/ OpenStream(s) \/ LoseStream(s) \/ Leave(s) \/ Delete(s)
    \/ \E r \in Requests : Ask(r)
    \/ \E u \in Uris : Notify(u)
    \/ StdioEnds

Next == ServerStep \/ ClientStep

\* The event loop delivers what has arrived; clients and the program may idle.
Spec ==
    /\ Init
    /\ [][Next]_vars
    /\ \A s \in Sids :
          /\ WF_vars(SessionInitialized(s)) /\ WF_vars(StreamAborted(s))
          /\ WF_vars(DeleteReturns(s))
    /\ WF_vars(StdioDone) /\ WF_vars(CloseHttp) /\ WF_vars(Exit)

-----------------------------------------------------------------------------
\* The two maps of the SubscriptionRegistry tell the same story, and a uri is
\* listed exactly while it has subscribers, whichever of the three ways a
\* session ended and whatever request came late.
MapsAgree ==
    /\ \A s \in Sids, u \in Uris : u \in bySession[s] <=> s \in byUri[u]
    /\ listed = {u \in Uris : byUri[u] # {}}

\* An owner without stdio and without sessions is on its way out: whichever
\* handler removes the last session, nobody is left to notice later.
EmptyOwnerLeaves == stdio = "closed" /\ sessions = <<>> => server # "up"

\* The end of one session takes no subscription away from another that is open.
OthersStaySubscribed ==
    [][\A s \in ToSet(sessions') : \A u \in bySession[s] :
          [sid |-> s, uri |-> u, subscribe |-> FALSE] \notin requests
             => u \in bySession'[s] /\ s \in byUri'[u]]_vars

\* Every session that was subscribed when an update began and is still open when
\* it ends was sent the update, however the map changed under the loop.
SubscribersAreSent ==
    [][update.uri # NoUri /\ update'.uri = NoUri
          => update.subscribers \cap ToSet(sessions) \subseteq update.sent]_vars

\* A session whose client went without a stream that could tell the server.
Zombie(s) == Open(s) /\ client[s] = "gone" /\ stream[s] = "none" /\ deleting[s] = "no"

\* Once the owner's stdio has ended and its clients have gone it exits.  This
\* needs a stream for each of them: a client that goes between its initialize
\* request and its GET leaves a session nobody ever removes.
OwnerExits ==
    stdio = "closed" /\ (\A s \in Sids : client[s] # "there")
        ~> \/ server = "exited"
           \/ \E s \in Sids : Zombie(s) \/ client[s] = "there"
=============================================================================

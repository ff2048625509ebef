--------------------------- MODULE SessionsProofs ---------------------------
(***************************************************************************)
(* What the routes guarantee of sessions and subscriptions, for any number *)
(* of sessions, resources and requests under way.                          *)
(***************************************************************************)
EXTENDS Sessions, ArrayProofs

\* The two maps, and the keys of the second.
SubscriptionsOK ==
    /\ bySession \in [Sids -> SUBSET Uris]
    /\ byUri \in [Uris -> SUBSET Sids]
    /\ requests \subseteq Requests
    /\ MapsAgree

\* What ends a session leaves the maps right.
LEMMA RemoveSessionAgrees ==
    ASSUME SubscriptionsOK, NEW s \in Sids, RemoveSession(s)
    PROVE  /\ bySession' \in [Sids -> SUBSET Uris] /\ byUri' \in [Uris -> SUBSET Sids]
           /\ MapsAgree'
<1> USE DEF SubscriptionsOK, MapsAgree
<1>1. bySession' \in [Sids -> SUBSET Uris] /\ byUri' \in [Uris -> SUBSET Sids]
  BY DEF RemoveSession
<1>2. \A t \in Sids, u \in Uris : t \in byUri'[u] <=> t \in byUri[u] /\ t # s
  BY DEF RemoveSession
<1>3. \A t \in Sids, u \in Uris : u \in bySession'[t] <=> u \in bySession[t] /\ t # s
  BY DEF RemoveSession
<1>4. listed' = {u \in Uris : byUri'[u] # {}}
  <2>1. listed' = listed \ {u \in bySession[s] : byUri[u] \subseteq {s}}
    BY DEF RemoveSession
  <2>2. ASSUME NEW u \in Uris
        PROVE  u \in listed' <=> byUri'[u] # {}
    <3>1. byUri'[u] = byUri[u] \ {s}
      BY DEF RemoveSession
    <3>2. u \in bySession[s] <=> s \in byUri[u]
      OBVIOUS
    <3>3. QED
      BY <2>1, <3>1, <3>2
  <2>3. listed' \subseteq Uris
    BY <2>1
  <2>4. QED
    BY <2>2, <2>3
<1>5. QED
  BY <1>1, <1>2, <1>3, <1>4

LEMMA SubscribeAgrees ==
    ASSUME SubscriptionsOK, NEW s \in Sids, NEW u \in Uris, Subscribe(s, u) \/ Unsubscribe(s, u)
    PROVE  /\ bySession' \in [Sids -> SUBSET Uris] /\ byUri' \in [Uris -> SUBSET Sids]
           /\ MapsAgree'
BY DEF SubscriptionsOK, MapsAgree, Subscribe, Unsubscribe

LEMMA StepSubscriptions ==
    ASSUME SubscriptionsOK, [Next]_vars
    PROVE  SubscriptionsOK'
<1>1. ASSUME NEW s \in Sids, EndSession(s), UNCHANGED requests
      PROVE  SubscriptionsOK'
  <2>1. CASE RemoveSession(s)
    BY <1>1, <2>1, RemoveSessionAgrees DEF SubscriptionsOK
  <2>2. CASE UNCHANGED registry
    BY <1>1, <2>2 DEF SubscriptionsOK, registry, MapsAgree
  <2>3. QED
    BY <1>1, <2>1, <2>2 DEF EndSession
<1>2. ASSUME NEW s \in Sids, StreamAborted(s) \/ TransportCloses(s)
      PROVE  SubscriptionsOK'
  BY <1>1, <1>2 DEF StreamAborted, TransportCloses
<1>3. ASSUME NEW r \in requests, Handle(r)
      PROVE  SubscriptionsOK'
  <2>1. r.sid \in Sids /\ r.uri \in Uris
    BY DEF SubscriptionsOK, Requests
  <2>2. Subscribe(r.sid, r.uri) \/ Unsubscribe(r.sid, r.uri)
    BY <1>3 DEF Handle
  <2>3. requests' \subseteq requests
    BY <1>3 DEF Handle
  <2>4. QED
    BY <2>1, <2>2, <2>3, SubscribeAgrees DEF SubscriptionsOK
<1>4. ASSUME NEW r \in Requests, Ask(r)
      PROVE  SubscriptionsOK'
  BY <1>4 DEF Ask, SubscriptionsOK, MapsAgree, registry
<1>5. ASSUME UNCHANGED <<registry, requests>>
      PROVE  SubscriptionsOK'
  BY <1>5 DEF SubscriptionsOK, MapsAgree, registry
<1>6. ASSUME NEW s \in Sids, \/ SessionInitialized(s) \/ DeleteReturns(s) \/ Initialize(s) \/ OpenStream(s)
                             \/ LoseStream(s) \/ Leave(s) \/ Delete(s)
      PROVE  SubscriptionsOK'
  BY <1>5, <1>6 DEF SessionInitialized, DeleteReturns, Initialize, OpenStream, LoseStream, Leave, Delete
<1>7. ASSUME NEW u \in Uris, Notify(u)
      PROVE  SubscriptionsOK'
  BY <1>5, <1>7 DEF Notify
<1>8. CASE Sent \/ StdioDone \/ CloseHttp \/ Exit \/ StdioEnds \/ UNCHANGED vars
  BY <1>5, <1>8 DEF Sent, StdioDone, CloseHttp, Exit, StdioEnds, vars
<1>9. QED
  BY <1>2, <1>3, <1>4, <1>6, <1>7, <1>8 DEF Next, ServerStep, ClientStep

LEMMA AlwaysSubscriptions == Spec => []SubscriptionsOK
<1>1. Init => SubscriptionsOK
  BY DEF Init, SubscriptionsOK, MapsAgree
<1>2. QED
  BY <1>1, StepSubscriptions, PTL DEF Spec

\* The two maps of the SubscriptionRegistry always agree, whatever requests come
\* late and however often a session ends.
THEOREM MapsAlwaysAgree == Spec => []MapsAgree
BY AlwaysSubscriptions, PTL DEF SubscriptionsOK

-----------------------------------------------------------------------------
\* The sessions map, its gauge, and an owner that nobody keeps.
SessionsOK ==
    /\ sessions \in Seq(Sids) /\ Injective(sessions)
    /\ opening \subseteq Sids
    /\ \A s \in opening : client[s] # "absent" /\ ~Open(s)
    /\ client \in [Sids -> {"absent", "there", "gone"}]
    /\ \A s \in Sids : Open(s) => client[s] # "absent"
    /\ activeSessions = Len(sessions)
    /\ EmptyOwnerLeaves

LEMMA OpenIsElement ==
    ASSUME NEW s
    PROVE  Open(s) <=> s \in Elements(sessions)
BY DEF Open, ToSet, Elements

\* sessions.delete takes one session out and keeps the rest.
LEMMA DeleteKeyElements ==
    ASSUME sessions \in Seq(Sids), Injective(sessions), NEW s \in Sids, DeleteKey(s)
    PROVE  /\ sessions' \in Seq(Sids) /\ Injective(sessions')
           /\ Elements(sessions') = Elements(sessions) \ {s}
<1>1. CASE ~Open(s) /\ UNCHANGED sessions
  BY <1>1, OpenIsElement
<1>2. ASSUME NEW n \in DOMAIN sessions, sessions[n] = s, sessions' = Without(sessions, n)
      PROVE  /\ sessions' \in Seq(Sids) /\ Injective(sessions')
             /\ Elements(sessions') = Elements(sessions) \ {s}
  BY <1>2, WithoutProperties, WithoutElements
<1>3. QED
  BY <1>1, <1>2 DEF DeleteKey

\* The end of a session sets the gauge, and tells the owner when it was the last.
LEMMA DropSessionOK ==
    ASSUME SessionsOK, NEW s \in Sids, DropSession(s), UNCHANGED <<client, opening, stdio>>
    PROVE  SessionsOK' /\ Elements(sessions') = Elements(sessions) \ {s}
<1>1. /\ sessions' \in Seq(Sids) /\ Injective(sessions')
      /\ Elements(sessions') = Elements(sessions) \ {s}
  BY DeleteKeyElements DEF DropSession, SessionsOK
<1>2. \A t : Open(t)' <=> t \in Elements(sessions')
  BY DEF Open, ToSet, Elements
<1>3. activeSessions' = Len(sessions')
  BY DEF DropSession
<1>4. EmptyOwnerLeaves'
  BY DEF DropSession, SessionClosed, ShutDown, EmptyOwnerLeaves, SessionsOK
<1>5. QED
  BY <1>1, <1>2, <1>3, <1>4, OpenIsElement DEF SessionsOK

LEMMA StepSessions ==
    ASSUME SessionsOK, [Next]_vars
    PROVE  SessionsOK'
<1>1. ASSUME UNCHANGED <<sessions, metrics, opening, client, server, stdio>>
      PROVE  SessionsOK'
  BY <1>1 DEF SessionsOK, EmptyOwnerLeaves, Open, metrics
<1>2. ASSUME NEW s \in Sids, EndSession(s), UNCHANGED <<client, opening, stdio>>
      PROVE  SessionsOK'
  BY <1>1, <1>2, DropSessionOK DEF EndSession
<1>3. ASSUME NEW s \in Sids, StreamAborted(s) \/ TransportCloses(s) \/ DeleteReturns(s)
      PROVE  SessionsOK'
  BY <1>2, <1>3, DropSessionOK DEF StreamAborted, TransportCloses, DeleteReturns
<1>4. ASSUME NEW s \in Sids, SessionInitialized(s)
      PROVE  SessionsOK'
  <2>1. /\ s \in opening /\ sessions' = Append(sessions, s) /\ activeSessions' = Len(sessions')
        /\ opening' = opening \ {s} /\ UNCHANGED <<client, server, stdio>>
    BY <1>4 DEF SessionInitialized
  <2>2. /\ sessions' \in Seq(Sids) /\ Injective(sessions')
        /\ Elements(sessions') = Elements(sessions) \cup {s} /\ sessions' # <<>>
    BY <2>1, AppendElements, AppendProperties, OpenIsElement DEF SessionsOK
  <2>3. \A t : Open(t)' <=> t \in Elements(sessions')
    BY DEF Open, ToSet, Elements
  <2>4. QED
    BY <2>1, <2>2, <2>3, OpenIsElement DEF SessionsOK, EmptyOwnerLeaves
<1>5. ASSUME NEW s \in Sids, Initialize(s)
      PROVE  SessionsOK'
  BY <1>5 DEF Initialize, SessionsOK, Open, metrics, EmptyOwnerLeaves
<1>6. ASSUME NEW s \in Sids, Disconnect(s), UNCHANGED <<sessions, metrics, opening, server>>,
             UNCHANGED stdio \/ stdio' = "ending"
      PROVE  SessionsOK'
  BY <1>6 DEF Disconnect, SessionsOK, Open, metrics, EmptyOwnerLeaves
<1>7. ASSUME NEW s \in Sids, OpenStream(s) \/ LoseStream(s) \/ Leave(s) \/ Delete(s)
      PROVE  SessionsOK'
  BY <1>1, <1>6, <1>7 DEF OpenStream, LoseStream, Leave, Delete
<1>8. ASSUME NEW r, Handle(r) \/ Ask(r)
      PROVE  SessionsOK'
  BY <1>1, <1>8 DEF Handle, Ask
<1>9. ASSUME NEW u \in Uris, Notify(u)
      PROVE  SessionsOK'
  BY <1>1, <1>9 DEF Notify
<1>10. CASE StdioEnds
  <2>1. stdio' = "ending" /\ UNCHANGED <<opening, sessions, metrics, server>> /\ OwnSid \in Sids
    BY <1>10, SessionsAssumption DEF StdioEnds
  <2>2. CASE UNCHANGED client
    BY <2>1, <2>2 DEF SessionsOK, Open, metrics, EmptyOwnerLeaves
  <2>3. QED
    BY <1>6, <1>10, <2>1, <2>2 DEF StdioEnds
<1>11. CASE StdioDone
  BY <1>11 DEF StdioDone, LeaveIfAlone, ShutDown, SessionsOK, Open, metrics,
     EmptyOwnerLeaves
<1>12. CASE CloseHttp \/ Exit
  BY <1>12 DEF CloseHttp, Exit, SessionsOK, Open, metrics, EmptyOwnerLeaves
<1>13. CASE Sent \/ UNCHANGED vars
  BY <1>1, <1>13 DEF Sent, vars
<1>14. QED
  BY <1>3, <1>4, <1>5, <1>7, <1>8, <1>9, <1>10, <1>11, <1>12, <1>13 DEF Next, ServerStep, ClientStep

LEMMA AlwaysSessions == Spec => []SessionsOK
<1>1. Init => SessionsOK
  BY EmptySeq DEF Init, SessionsOK, Injective, Open, ToSet, EmptyOwnerLeaves
<1>2. QED
  BY <1>1, StepSessions, PTL DEF Spec

\* No owner without stdio and sessions stays up.
THEOREM EmptyOwnersLeave == Spec => []EmptyOwnerLeaves
BY AlwaysSessions, PTL DEF SessionsOK

\* The end of a session takes no other's subscription with it, and nothing but its
\* own request takes a subscription from a session that is open.
THEOREM SubscriptionsStay == Spec => OthersStaySubscribed
<1> DEFINE Stays == \A s \in ToSet(sessions') : \A u \in bySession[s] :
                       [sid |-> s, uri |-> u, subscribe |-> FALSE] \notin requests
                          => u \in bySession'[s] /\ s \in byUri'[u]
<1>1. SubscriptionsOK /\ SubscriptionsOK' /\ SessionsOK /\ SessionsOK' /\ [Next]_vars => Stays
  <2> SUFFICES ASSUME SubscriptionsOK, SubscriptionsOK', SessionsOK, SessionsOK', [Next]_vars,
                      NEW s \in Elements(sessions'), NEW u \in bySession[s],
                      [sid |-> s, uri |-> u, subscribe |-> FALSE] \notin requests
               PROVE  u \in bySession'[s]
    BY ElementOfSeq DEF SubscriptionsOK, MapsAgree, ToSet, Elements, SessionsOK
  <2>1. s \in Sids
    BY DEF SessionsOK, Elements
  <2>2. ASSUME NEW t \in Sids, EndSession(t), UNCHANGED <<client, opening, stdio>>
        PROVE  u \in bySession'[s]
    <3>1. CASE DropSession(t) /\ RemoveSession(t)
      <4>1. s # t
        BY <2>2, <3>1, DropSessionOK
      <4>2. QED
        BY <2>1, <3>1, <4>1 DEF RemoveSession, SubscriptionsOK
    <3>2. QED
      BY <2>2, <3>1 DEF EndSession, registry
  <2>3. ASSUME NEW t \in Sids, StreamAborted(t) \/ TransportCloses(t)
        PROVE  u \in bySession'[s]
    BY <2>2, <2>3 DEF StreamAborted, TransportCloses
  <2>4. ASSUME NEW r \in requests, Handle(r)
        PROVE  u \in bySession'[s]
    <3>1. r.sid \in Sids /\ r.uri \in Uris /\ r.subscribe \in BOOLEAN
          /\ r = [sid |-> r.sid, uri |-> r.uri, subscribe |-> r.subscribe]
      BY DEF SubscriptionsOK, Requests
    <3>2. CASE Subscribe(r.sid, r.uri)
      BY <2>1, <3>1, <3>2 DEF Subscribe, SubscriptionsOK
    <3>3. CASE ~r.subscribe /\ Unsubscribe(r.sid, r.uri)
      <4>1. ~(r.sid = s /\ r.uri = u)
        BY <3>1, <3>3
      <4>2. QED
        BY <2>1, <3>1, <3>3, <4>1 DEF Unsubscribe, SubscriptionsOK
    <3>4. QED
      BY <2>4, <3>2, <3>3 DEF Handle
  <2>5. CASE UNCHANGED bySession
    BY <2>5
  <2>6. ASSUME NEW t \in Sids, \/ SessionInitialized(t) \/ DeleteReturns(t) \/ Initialize(t)
                               \/ OpenStream(t) \/ LoseStream(t) \/ Leave(t) \/ Delete(t)
        PROVE  UNCHANGED bySession
    BY <2>6 DEF SessionInitialized, DeleteReturns, Initialize, OpenStream, LoseStream, Leave,
       Delete, registry
  <2>7. ASSUME NEW r \in Requests, Ask(r)
        PROVE  UNCHANGED bySession
    BY <2>7 DEF Ask, registry
  <2>8. ASSUME NEW w \in Uris, Notify(w)
        PROVE  UNCHANGED bySession
    BY <2>8 DEF Notify, registry
  <2>9. ASSUME Sent \/ StdioDone \/ CloseHttp \/ Exit \/ StdioEnds \/ UNCHANGED vars
        PROVE  UNCHANGED bySession
    BY <2>9 DEF Sent, StdioDone, CloseHttp, Exit, StdioEnds, vars, registry
  <2>10. QED
    BY <2>3, <2>4, <2>5, <2>6, <2>7, <2>8, <2>9 DEF Next, ServerStep, ClientStep
<1>2. QED
  BY <1>1, AlwaysSubscriptions, AlwaysSessions, PTL DEF Spec, OthersStaySubscribed
-----------------------------------------------------------------------------
\* Of the sessions that an update has passed, it was sent to every subscriber.
UpdateOK ==
    update.uri # NoUri => update.subscribers \cap update.passed \subseteq update.sent

\* The sessions still to visit are the open ones that were not passed.
LEMMA VisitedElements ==
    ASSUME sessions \in Seq(Sids), NEW passed
    PROVE  Elements(ToVisit(passed)) = Elements(sessions) \ passed
<1>1. Elements(sessions) \subseteq Sids
  BY DEF Elements
<1>2. Elements(ToVisit(passed)) = Elements(sessions) \cap (Sids \ passed)
  BY OnlyElements DEF ToVisit
<1>3. QED
  BY <1>1, <1>2

\* The loop passes over nobody who is subscribed, and ends when nobody is left.
LEMMA GoOnSends ==
    ASSUME sessions \in Seq(Sids), NEW u, NEW subscribers, NEW passed, NEW sent,
           subscribers \cap passed \subseteq sent,
           GoOn(u, subscribers, passed, sent)
    PROVE  \/ /\ update' = NoUpdate
              /\ subscribers \cap Elements(sessions) \subseteq sent
           \/ update'.uri = u /\ UpdateOK'
<1> DEFINE rest == ToVisit(passed)
           wanted == {i \in DOMAIN rest : IsSubscribed(rest[i], u, subscribers)}
<1>1. rest \in Seq(Sids) /\ DOMAIN rest = 1 .. Len(rest) /\ Len(rest) \in Nat
  BY OnlyElements, LenProperties DEF ToVisit
<1>2. Elements(rest) = Elements(sessions) \ passed
  BY VisitedElements
<1>3. \/ wanted = {} /\ update' = NoUpdate
      \/ \E i \in wanted :
            /\ \A j \in wanted : i <= j
            /\ update' = [uri |-> u, subscribers |-> subscribers,
                          passed |-> passed \cup {rest[j] : j \in 1..i},
                          sent |-> sent \cup {rest[i]}]
  BY DEF GoOn
<1>4. ASSUME NEW j \in DOMAIN rest, rest[j] \in subscribers
      PROVE  j \in wanted
  BY <1>4 DEF IsSubscribed
<1> HIDE DEF rest
<1>5. CASE wanted = {} /\ update' = NoUpdate
  <2>1. subscribers \cap Elements(rest) = {}
    BY <1>4, <1>5 DEF Elements
  <2>2. QED
    BY <1>2, <1>5, <2>1
<1>6. ASSUME NEW i \in wanted, \A j \in wanted : i <= j,
             update' = [uri |-> u, subscribers |-> subscribers,
                        passed |-> passed \cup {rest[j] : j \in 1..i},
                        sent |-> sent \cup {rest[i]}]
      PROVE  update'.uri = u /\ UpdateOK'
  <2>1. i \in DOMAIN rest /\ i \in Nat
    BY <1>1
  <2>2. ASSUME NEW j \in 1 .. i, rest[j] \in subscribers
        PROVE  j = i
    <3>1. j \in DOMAIN rest
      BY <1>1, <2>1
    <3>2. i <= j
      BY <1>4, <1>6, <2>2, <3>1
    <3>3. QED
      BY <2>1, <3>2
  <2> HIDE DEF wanted
  <2>3. subscribers \cap (passed \cup {rest[j] : j \in 1..i}) \subseteq sent \cup {rest[i]}
    BY <2>2
  <2>4. QED
    BY <1>6, <2>3 DEF UpdateOK
<1>7. QED
  BY <1>3, <1>5, <1>6

\* What a step does to the update under way.
LEMMA StepUpdate ==
    ASSUME UpdateOK, sessions \in Seq(Sids), [Next]_vars
    PROVE  /\ UpdateOK'
           /\ update.uri # NoUri /\ update'.uri = NoUri
                 => update.subscribers \cap Elements(sessions) \subseteq update.sent
<1>1. ASSUME NEW u \in Uris, Notify(u)
      PROVE  update.uri = NoUri /\ UpdateOK'
  <2>1. update' = NoUpdate \/ UpdateOK'
    BY <1>1, GoOnSends DEF Notify
  <2>2. QED
    BY <1>1, <2>1 DEF Notify, UpdateOK, NoUpdate
<1>2. CASE Sent
  <2>1. /\ update.uri # NoUri /\ GoOn(update.uri, update.subscribers, update.passed, update.sent)
        /\ update.subscribers \cap update.passed \subseteq update.sent
    BY <1>2 DEF Sent, UpdateOK
  <2>2. \/ /\ update' = NoUpdate
           /\ update.subscribers \cap Elements(sessions) \subseteq update.sent
        \/ update'.uri = update.uri /\ UpdateOK'
    BY <2>1, GoOnSends
  <2>3. QED
    BY <2>1, <2>2 DEF UpdateOK, NoUpdate
<1>3. ASSUME NEW s \in Sids, \/ SessionInitialized(s) \/ StreamAborted(s) \/ TransportCloses(s)
                             \/ DeleteReturns(s) \/ Initialize(s) \/ OpenStream(s)
                             \/ LoseStream(s) \/ Leave(s) \/ Delete(s)
      PROVE  UNCHANGED update
  BY <1>3 DEF SessionInitialized, StreamAborted, TransportCloses, DeleteReturns, Initialize,
     OpenStream, LoseStream, Leave, Delete
<1>4. ASSUME NEW r, Handle(r) \/ Ask(r)
      PROVE  UNCHANGED update
  BY <1>4 DEF Handle, Ask
<1>5. ASSUME StdioDone \/ CloseHttp \/ Exit \/ StdioEnds \/ UNCHANGED vars
      PROVE  UNCHANGED update
  BY <1>5 DEF StdioDone, CloseHttp, Exit, StdioEnds, vars
<1>6. ASSUME UNCHANGED update
      PROVE  UpdateOK'
  BY <1>6 DEF UpdateOK
<1>7. QED
  BY <1>1, <1>2, <1>3, <1>4, <1>5, <1>6 DEF Next, ServerStep, ClientStep

\* However the map changes under the loop of notifyResourceUpdated, a session that was
\* subscribed when it began and is open when it ends was sent the update.
THEOREM SubscribersGetUpdates == Spec => SubscribersAreSent
<1> DEFINE Gets == update.uri # NoUri /\ update'.uri = NoUri
                      => update.subscribers \cap ToSet(sessions) \subseteq update.sent
<1>1. Init => UpdateOK
  BY DEF Init, UpdateOK, NoUpdate
<1>2. UpdateOK /\ SessionsOK /\ [Next]_vars => UpdateOK'
  BY StepUpdate DEF SessionsOK
<1>3. UpdateOK /\ SessionsOK /\ [Next]_vars => Gets
  BY StepUpdate DEF SessionsOK, ToSet, Elements
<1>4. QED
  BY <1>1, <1>2, <1>3, AlwaysSessions, PTL DEF Spec, SubscribersAreSent

-----------------------------------------------------------------------------
\* Streams, the DELETE requests, the update and the owner.
RoutesTyped ==
    /\ stream \in [Sids -> {"none", "open", "cut"}]
    /\ deleting \in [Sids -> {"no", "asked", "answered"}]
    /\ totalSessions \in Nat
    /\ server \in {"up", "closing", "closed", "exited"}
    /\ stdio \in {"open", "ending", "closed"}

UpdateTyped ==
    update \in [uri : Uris \cup {NoUri}, subscribers : SUBSET Sids,
               passed : SUBSET Sids, sent : SUBSET Sids]

LEMMA StepRoutes ==
    ASSUME RoutesTyped, [Next]_vars
    PROVE  RoutesTyped'
<1> USE DEF RoutesTyped
<1>1. ASSUME NEW s, EndSession(s) \/ DropSession(s)
      PROVE  totalSessions' \in Nat /\ server' \in {"up", "closing", "closed", "exited"}
  BY <1>1 DEF EndSession, DropSession, SessionClosed, ShutDown, metrics
<1>2. ASSUME NEW s \in Sids, StreamAborted(s) \/ TransportCloses(s) \/ DeleteReturns(s)
      PROVE  RoutesTyped'
  BY <1>1, <1>2 DEF StreamAborted, TransportCloses, DeleteReturns
<1>3. ASSUME NEW s \in Sids, SessionInitialized(s)
      PROVE  RoutesTyped'
  BY <1>3 DEF SessionInitialized
<1>4. ASSUME NEW s \in Sids, Initialize(s) \/ OpenStream(s) \/ LoseStream(s) \/ Delete(s)
      PROVE  RoutesTyped'
  BY <1>4 DEF Initialize, OpenStream, LoseStream, Delete, metrics
<1>5. ASSUME NEW s \in Sids, Leave(s)
      PROVE  RoutesTyped'
  BY <1>5 DEF Leave, Disconnect, metrics
<1>6. ASSUME NEW r, Handle(r) \/ Ask(r)
      PROVE  RoutesTyped'
  BY <1>6 DEF Handle, Ask, metrics
<1>7. ASSUME NEW u, Notify(u)
      PROVE  RoutesTyped'
  BY <1>7 DEF Notify, metrics
<1>8. CASE Sent \/ UNCHANGED vars
  BY <1>8 DEF Sent, vars, metrics
<1>9. CASE StdioEnds \/ StdioDone \/ CloseHttp \/ Exit
  BY <1>9, SessionsAssumption
  DEF StdioEnds, StdioDone, LeaveIfAlone, ShutDown, CloseHttp, Exit, Disconnect, metrics
<1>10. QED
  BY <1>2, <1>3, <1>4, <1>5, <1>6, <1>7, <1>8, <1>9 DEF Next, ServerStep, ClientStep

LEMMA StepUpdateTyped ==
    ASSUME SubscriptionsOK, SessionsOK, UpdateTyped, [Next]_vars
    PROVE  UpdateTyped'
<1>1. ASSUME NEW u \in Uris \cup {NoUri}, NEW subscribers \in SUBSET Sids,
             NEW passed \in SUBSET Sids, NEW sent \in SUBSET Sids,
             GoOn(u, subscribers, passed, sent)
      PROVE  UpdateTyped'
  <2> DEFINE rest == ToVisit(passed)
  <2>1. rest \in Seq(Sids)
    BY OnlyElements DEF ToVisit, SessionsOK
  <2>2. \A j \in DOMAIN rest : rest[j] \in Sids
    BY <2>1, ElementOfSeq, LenProperties
  <2>3. \/ update' = NoUpdate
        \/ \E i \in DOMAIN rest :
              update' = [uri |-> u, subscribers |-> subscribers,
                         passed |-> passed \cup {rest[j] : j \in 1..i},
                         sent |-> sent \cup {rest[i]}]
    BY <1>1 DEF GoOn
  <2>4. \A i \in DOMAIN rest : \A j \in 1..i : j \in DOMAIN rest
    BY <2>1, LenProperties
  <2> HIDE DEF rest
  <2>5. QED
    BY <2>2, <2>3, <2>4 DEF NoUpdate, UpdateTyped
<1>2. ASSUME NEW u \in Uris, Notify(u)
      PROVE  UpdateTyped'
  BY <1>1, <1>2 DEF Notify, SubscriptionsOK
<1>3. CASE Sent
  BY <1>1, <1>3 DEF Sent, UpdateTyped
<1>4. ASSUME NEW s \in Sids, \/ SessionInitialized(s) \/ StreamAborted(s) \/ TransportCloses(s)
                             \/ DeleteReturns(s) \/ Initialize(s) \/ OpenStream(s)
                             \/ LoseStream(s) \/ Leave(s) \/ Delete(s)
      PROVE  UNCHANGED update
  BY <1>4 DEF SessionInitialized, StreamAborted, TransportCloses, DeleteReturns, Initialize,
     OpenStream, LoseStream, Leave, Delete
<1>5. ASSUME NEW r, Handle(r) \/ Ask(r)
      PROVE  UNCHANGED update
  BY <1>5 DEF Handle, Ask
<1>6. ASSUME StdioDone \/ CloseHttp \/ Exit \/ StdioEnds \/ UNCHANGED vars
      PROVE  UNCHANGED update
  BY <1>6 DEF StdioDone, CloseHttp, Exit, StdioEnds, vars
<1>7. ASSUME UNCHANGED update
      PROVE  UpdateTyped'
  BY <1>7 DEF UpdateTyped
<1>8. QED
  BY <1>2, <1>3, <1>4, <1>5, <1>6, <1>7 DEF Next, ServerStep, ClientStep

\* The variables of Sessions keep their types: the map has each session once, the
\* gauge is a number, and an update goes to sessions only.
THEOREM TypeCorrect == Spec => []TypeOK
<1>1. Init => RoutesTyped /\ UpdateTyped
  BY DEF Init, RoutesTyped, UpdateTyped, NoUpdate
<1>2. SubscriptionsOK /\ SessionsOK /\ RoutesTyped /\ UpdateTyped => TypeOK
  <2> SUFFICES ASSUME SubscriptionsOK, SessionsOK, RoutesTyped, UpdateTyped PROVE TypeOK
    OBVIOUS
  <2>1. activeSessions \in Nat /\ IsInjective(sessions)
    BY LenProperties DEF SessionsOK, Injective, IsInjective
  <2>2. listed \subseteq Uris
    BY DEF SubscriptionsOK, MapsAgree
  <2>3. QED
    BY <2>1, <2>2 DEF SubscriptionsOK, SessionsOK, RoutesTyped, UpdateTyped, TypeOK
<1>3. QED
  BY <1>1, <1>2, StepRoutes, StepUpdateTyped, AlwaysSubscriptions, AlwaysSessions, PTL DEF Spec
=============================================================================

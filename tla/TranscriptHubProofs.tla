-------------------------- MODULE TranscriptHubProofs --------------------------
(***************************************************************************)
(* TranscriptHub for any rooms, clients and sockets and any limits, and    *)
(* that it implements TranscriptFeed.  The argument: a socket with         *)
(* callbacks is the one its client holds, for the room the client wants    *)
(* (CallbacksAreHeld, HeldCallsBack); a subscriber is in the bucket of its *)
(* own room while its endpoint receives (SubscribedReceives); so whatever  *)
(* a connection carries, and what a broadcast still has to send, are turns *)
(* of the room of the socket, in their order, and newer than all that its  *)
(* client has shown (PendingIsNewest, WireInOrder).                        *)
(***************************************************************************)
EXTENDS TranscriptHub, SequenceTheorems, TLAPS

CallbacksAreHeld ==
    \A s \in Sockets, c \in Clients : handler[s] = c =>
        /\ ws[c] = s /\ target[s] = room[c] /\ timer[c] = NoKey
        /\ mounted[c] /\ tries[c] < MaxTries

RetryIsDue ==
    \A c \in Clients : timer[c] # NoKey =>
        /\ timer[c] = room[c] /\ ws[c] = NoSocket /\ state[c] = "disconnected"
        /\ mounted[c] /\ tries[c] < MaxTries

HeldCallsBack ==
    \A c \in Clients : ws[c] # NoSocket => handler[ws[c]] = c

Targeted ==
    \A s \in Sockets : endpoint[s] # "none" \/ handler[s] # NoClient => target[s] \in Keys

SubscribedReceives ==
    \A k \in Keys : \A s \in subs[k] : endpoint[s] = "receiving" /\ target[s] = k

StaleIsDown ==
    \A r \in Rooms : \A s \in stale[r] : ~up[s]

PendingIsNewest ==
    \A r \in Rooms : \A s \in pending[r] :
        /\ target[s] = r /\ said[r] > 0
        /\ \A i \in DOMAIN wire[s] : wire[s][i] < said[r]
        /\ \A c \in Clients : handler[s] = c => seen[c] < said[r]

WireInOrder ==
    \A s \in Sockets : \A i \in DOMAIN wire[s] :
        /\ target[s] \in Rooms
        /\ wire[s][i] <= said[target[s]]
        /\ \A j \in DOMAIN wire[s] : i < j => wire[s][i] < wire[s][j]
        /\ \A c \in Clients : handler[s] = c => seen[c] < wire[s][i]

SeenIsSaid ==
    \A c \in Clients : room[c] \in Rooms => seen[c] <= said[room[c]]

IInv ==
    /\ TypeOK
    /\ CallbacksAreHeld
    /\ RetryIsDue
    /\ HeldCallsBack
    /\ Targeted
    /\ SubscribedReceives
    /\ StaleIsDown
    /\ PendingIsNewest
    /\ WireInOrder
    /\ SeenIsSaid
    /\ LiveSocketSubscribed

LEMMA RoomsAreKeys ==
    /\ Rooms \subseteq Keys
    /\ \A r \in Rooms : LastSegment(r) \in Keys
    /\ NoKey \notin Rooms
BY HubAssumption DEF Keys

LEMMA InitIInv == Init => IInv
<1> SUFFICES ASSUME Init PROVE IInv
    OBVIOUS
<1>1. TypeOK
    BY HubAssumption DEF Init, TypeOK
<1>2. CallbacksAreHeld /\ RetryIsDue /\ HeldCallsBack /\ Targeted
    BY HubAssumption DEF Init, CallbacksAreHeld, RetryIsDue, HeldCallsBack, Targeted
<1>3. SubscribedReceives /\ StaleIsDown /\ PendingIsNewest
    BY DEF Init, SubscribedReceives, StaleIsDown, PendingIsNewest
<1>4. WireInOrder /\ SeenIsSaid /\ LiveSocketSubscribed
    BY RoomsAreKeys DEF Init, WireInOrder, SeenIsSaid, LiveSocketSubscribed
<1> QED
    BY <1>1, <1>2, <1>3, <1>4 DEF IInv

\* A turn is spoken; who subscribes to the room has yet to be sent it.
LEMMA BroadcastKeeps ==
    ASSUME IInv,
           NEW r \in Rooms,
           Broadcast(r)
    PROVE  IInv'
<1>1. TypeOK'
    BY HubAssumption, RoomsAreKeys DEF IInv, TypeOK, Broadcast, serverVars, linkVars,
           clientVars, screenVars
<1>2. CallbacksAreHeld'
    BY HubAssumption, RoomsAreKeys DEF IInv, TypeOK, CallbacksAreHeld, Broadcast,
           serverVars, linkVars, clientVars, screenVars
<1>3. RetryIsDue'
    BY HubAssumption, RoomsAreKeys DEF IInv, TypeOK, RetryIsDue, Broadcast, serverVars,
           linkVars, clientVars, screenVars
<1>4. HeldCallsBack'
    BY HubAssumption, RoomsAreKeys DEF IInv, TypeOK, HeldCallsBack, Broadcast,
           serverVars, linkVars, clientVars, screenVars
<1>5. Targeted'
    BY HubAssumption, RoomsAreKeys DEF IInv, TypeOK, Targeted, Broadcast, serverVars,
           linkVars, clientVars, screenVars
<1>6. SubscribedReceives'
    BY HubAssumption, RoomsAreKeys DEF IInv, TypeOK, SubscribedReceives, Broadcast,
           serverVars, linkVars, clientVars, screenVars
<1>7. StaleIsDown'
    BY HubAssumption, RoomsAreKeys DEF IInv, TypeOK, StaleIsDown, Broadcast, serverVars,
           linkVars, clientVars, screenVars
<1>8. PendingIsNewest'
    BY HubAssumption, RoomsAreKeys DEF IInv, TypeOK, PendingIsNewest, Broadcast,
           serverVars, linkVars, clientVars, screenVars, SubscribedReceives,
           WireInOrder, CallbacksAreHeld, SeenIsSaid
<1>9. WireInOrder'
    BY HubAssumption, RoomsAreKeys DEF IInv, TypeOK, WireInOrder, Broadcast, serverVars,
           linkVars, clientVars, screenVars
<1>10. SeenIsSaid'
    BY HubAssumption, RoomsAreKeys DEF IInv, TypeOK, SeenIsSaid, Broadcast, serverVars,
           linkVars, clientVars, screenVars
<1>11. LiveSocketSubscribed'
    BY HubAssumption, RoomsAreKeys DEF IInv, TypeOK, LiveSocketSubscribed, Broadcast,
           serverVars, linkVars, clientVars, screenVars
<1> QED
    BY <1>1, <1>2, <1>3, <1>4, <1>5, <1>6, <1>7, <1>8, <1>9, <1>10, <1>11 DEF IInv

\* What send_json adds to a connection.
LEMMA SentIsLast ==
    ASSUME IInv, NEW r \in Rooms, NEW s \in Sockets, SendReaches(r, s)
    PROVE  /\ wire' \in [Sockets -> Seq(1..MaxSaid)]
           /\ \A t \in Sockets : t # s => wire'[t] = wire[t]
           /\ Len(wire[s]) \in Nat /\ DOMAIN wire[s] = 1..Len(wire[s])
           /\ DOMAIN wire'[s] = 1..(Len(wire[s]) + 1)
           /\ \A i \in DOMAIN wire[s] : wire'[s][i] = wire[s][i]
           /\ wire'[s][Len(wire[s]) + 1] = said[r]
<1>1. wire[s] \in Seq(1..MaxSaid) /\ said[r] \in 1..MaxSaid
    BY HubAssumption DEF IInv, TypeOK, PendingIsNewest, SendReaches
<1>2. wire' = [wire EXCEPT ![s] = Append(wire[s], said[r])]
    BY DEF SendReaches
<1>3. /\ wire'[s] = Append(wire[s], said[r])
      /\ \A t \in Sockets : t # s => wire'[t] = wire[t]
    BY <1>2 DEF IInv, TypeOK
<1>4. Append(wire[s], said[r]) \in Seq(1..MaxSaid)
    BY <1>1
<1>5. wire' \in [Sockets -> Seq(1..MaxSaid)]
    BY <1>2, <1>4 DEF IInv, TypeOK
<1> QED
    BY <1>1, <1>3, <1>5

\* A subscriber is sent the newest turn.
LEMMA SendReachesKeeps ==
    ASSUME IInv,
           NEW r \in Rooms,
           NEW s \in Sockets,
           SendReaches(r, s)
    PROVE  IInv'
<1>1. TypeOK'
    BY SentIsLast DEF IInv, TypeOK, SendReaches, serverVars, clientVars, screenVars
<1>2. CallbacksAreHeld'
    BY HubAssumption, RoomsAreKeys DEF IInv, TypeOK, CallbacksAreHeld, SendReaches,
           serverVars, clientVars, screenVars
<1>3. RetryIsDue'
    BY HubAssumption, RoomsAreKeys DEF IInv, TypeOK, RetryIsDue, SendReaches,
           serverVars, clientVars, screenVars
<1>4. HeldCallsBack'
    BY HubAssumption, RoomsAreKeys DEF IInv, TypeOK, HeldCallsBack, SendReaches,
           serverVars, clientVars, screenVars
<1>5. Targeted'
    BY HubAssumption, RoomsAreKeys DEF IInv, TypeOK, Targeted, SendReaches, serverVars,
           clientVars, screenVars
<1>6. SubscribedReceives'
    BY HubAssumption, RoomsAreKeys DEF IInv, TypeOK, SubscribedReceives, SendReaches,
           serverVars, clientVars, screenVars
<1>7. StaleIsDown'
    BY HubAssumption, RoomsAreKeys DEF IInv, TypeOK, StaleIsDown, SendReaches,
           serverVars, clientVars, screenVars
<1>8. PendingIsNewest'
    <2>1. \A q \in Rooms, t \in Sockets : t \in pending'[q] =>
              t \in pending[q] /\ (t = s => q # r)
        BY DEF IInv, TypeOK, SendReaches
    <2>2. \A q \in Rooms : s \in pending'[q] => FALSE
        BY <2>1 DEF IInv, PendingIsNewest, SendReaches
    <2>3. \A q \in Rooms : pending'[q] \subseteq Sockets
        BY <1>1 DEF TypeOK
    <2>4. /\ \A t \in Sockets : t # s => wire'[t] = wire[t]
          /\ UNCHANGED <<said, target, handler, seen>>
        BY SentIsLast DEF SendReaches, screenVars
    <2> QED
        BY <2>1, <2>2, <2>3, <2>4 DEF IInv, PendingIsNewest
<1>9. WireInOrder'
    <2>1. /\ target[s] = r /\ said[r] \in 0..MaxSaid
          /\ \A i \in DOMAIN wire[s] : wire[s][i] < said[r]
          /\ \A c \in Clients : handler[s] = c => seen[c] < said[r]
        BY DEF IInv, TypeOK, PendingIsNewest, SendReaches
    <2>2. UNCHANGED <<said, target, handler, seen>>
        BY DEF SendReaches, screenVars
    <2>3. SUFFICES ASSUME NEW t \in Sockets, NEW i \in DOMAIN wire'[t]
                   PROVE  /\ target[t] \in Rooms
                          /\ wire'[t][i] <= said[target[t]]
                          /\ \A j \in DOMAIN wire'[t] : i < j => wire'[t][i] < wire'[t][j]
                          /\ \A c \in Clients : handler[t] = c => seen[c] < wire'[t][i]
        BY <2>2 DEF WireInOrder
    <2>4. CASE t # s
        BY <2>4, SentIsLast DEF IInv, WireInOrder
    <2>5. CASE t = s /\ i \in DOMAIN wire[s]
        <3>1. \A j \in DOMAIN wire'[s] : j \in DOMAIN wire[s] \/ j = Len(wire[s]) + 1
            BY SentIsLast, HubAssumption
        <3>2. /\ wire[s][i] <= said[target[s]]
              /\ \A j \in DOMAIN wire[s] : i < j => wire[s][i] < wire[s][j]
              /\ \A c \in Clients : handler[s] = c => seen[c] < wire[s][i]
            BY <2>5 DEF IInv, WireInOrder
        <3> QED
            BY <2>1, <2>5, <3>1, <3>2, SentIsLast
    <2>6. CASE t = s /\ i = Len(wire[s]) + 1
        <3>1. \A j \in DOMAIN wire'[s] : ~(i < j)
            BY <2>6, SentIsLast
        <3> QED
            BY <2>1, <2>6, <3>1, SentIsLast
    <2> QED
        BY <2>4, <2>5, <2>6, SentIsLast
<1>10. SeenIsSaid'
    BY HubAssumption, RoomsAreKeys DEF IInv, TypeOK, SeenIsSaid, SendReaches,
           serverVars, clientVars, screenVars
<1>11. LiveSocketSubscribed'
    BY HubAssumption, RoomsAreKeys DEF IInv, TypeOK, LiveSocketSubscribed, SendReaches,
           serverVars, clientVars, screenVars
<1> QED
    BY <1>1, <1>2, <1>3, <1>4, <1>5, <1>6, <1>7, <1>8, <1>9, <1>10, <1>11 DEF IInv

\* A send is lost.
LEMMA SendIsLostKeeps ==
    ASSUME IInv,
           NEW r \in Rooms,
           NEW s \in Sockets,
           SendIsLost(r, s)
    PROVE  IInv'
<1>1. TypeOK'
    BY HubAssumption, RoomsAreKeys DEF IInv, TypeOK, SendIsLost, serverVars, linkVars,
           clientVars, screenVars
<1>2. CallbacksAreHeld'
    BY HubAssumption, RoomsAreKeys DEF IInv, TypeOK, CallbacksAreHeld, SendIsLost,
           serverVars, linkVars, clientVars, screenVars
<1>3. RetryIsDue'
    BY HubAssumption, RoomsAreKeys DEF IInv, TypeOK, RetryIsDue, SendIsLost, serverVars,
           linkVars, clientVars, screenVars
<1>4. HeldCallsBack'
    BY HubAssumption, RoomsAreKeys DEF IInv, TypeOK, HeldCallsBack, SendIsLost,
           serverVars, linkVars, clientVars, screenVars
<1>5. Targeted'
    BY HubAssumption, RoomsAreKeys DEF IInv, TypeOK, Targeted, SendIsLost, serverVars,
           linkVars, clientVars, screenVars
<1>6. SubscribedReceives'
    BY HubAssumption, RoomsAreKeys DEF IInv, TypeOK, SubscribedReceives, SendIsLost,
           serverVars, linkVars, clientVars, screenVars
<1>7. StaleIsDown'
    <2>1. \A q \in Rooms : \A t \in stale'[q] : t \in stale[q] \/ t = s
        BY DEF IInv, TypeOK, SendIsLost
    <2> QED
        BY <2>1 DEF IInv, StaleIsDown, SendIsLost, linkVars
<1>8. PendingIsNewest'
    BY HubAssumption, RoomsAreKeys DEF IInv, TypeOK, PendingIsNewest, SendIsLost,
           serverVars, linkVars, clientVars, screenVars
<1>9. WireInOrder'
    BY HubAssumption, RoomsAreKeys DEF IInv, TypeOK, WireInOrder, SendIsLost,
           serverVars, linkVars, clientVars, screenVars
<1>10. SeenIsSaid'
    BY HubAssumption, RoomsAreKeys DEF IInv, TypeOK, SeenIsSaid, SendIsLost, serverVars,
           linkVars, clientVars, screenVars
<1>11. LiveSocketSubscribed'
    BY HubAssumption, RoomsAreKeys DEF IInv, TypeOK, LiveSocketSubscribed, SendIsLost,
           serverVars, linkVars, clientVars, screenVars
<1> QED
    BY <1>1, <1>2, <1>3, <1>4, <1>5, <1>6, <1>7, <1>8, <1>9, <1>10, <1>11 DEF IInv

\* Only sockets that are down are pruned.
LEMMA PruneKeeps ==
    ASSUME IInv,
           NEW r \in Rooms,
           Prune(r)
    PROVE  IInv'
<1>1. TypeOK'
    BY HubAssumption, RoomsAreKeys DEF IInv, TypeOK, Prune, linkVars, clientVars,
           screenVars
<1>2. CallbacksAreHeld'
    BY HubAssumption, RoomsAreKeys DEF IInv, TypeOK, CallbacksAreHeld, Prune, linkVars,
           clientVars, screenVars
<1>3. RetryIsDue'
    BY HubAssumption, RoomsAreKeys DEF IInv, TypeOK, RetryIsDue, Prune, linkVars,
           clientVars, screenVars
<1>4. HeldCallsBack'
    BY HubAssumption, RoomsAreKeys DEF IInv, TypeOK, HeldCallsBack, Prune, linkVars,
           clientVars, screenVars
<1>5. Targeted'
    BY HubAssumption, RoomsAreKeys DEF IInv, TypeOK, Targeted, Prune, linkVars,
           clientVars, screenVars
<1>6. SubscribedReceives'
    BY HubAssumption, RoomsAreKeys DEF IInv, TypeOK, SubscribedReceives, Prune,
           linkVars, clientVars, screenVars
<1>7. StaleIsDown'
    BY HubAssumption, RoomsAreKeys DEF IInv, TypeOK, StaleIsDown, Prune, linkVars,
           clientVars, screenVars
<1>8. PendingIsNewest'
    BY HubAssumption, RoomsAreKeys DEF IInv, TypeOK, PendingIsNewest, Prune, linkVars,
           clientVars, screenVars
<1>9. WireInOrder'
    BY HubAssumption, RoomsAreKeys DEF IInv, TypeOK, WireInOrder, Prune, linkVars,
           clientVars, screenVars
<1>10. SeenIsSaid'
    BY HubAssumption, RoomsAreKeys DEF IInv, TypeOK, SeenIsSaid, Prune, linkVars,
           clientVars, screenVars
<1>11. LiveSocketSubscribed'
    BY HubAssumption, RoomsAreKeys DEF IInv, TypeOK, LiveSocketSubscribed, Prune,
           linkVars, clientVars, screenVars, StaleIsDown
<1> QED
    BY <1>1, <1>2, <1>3, <1>4, <1>5, <1>6, <1>7, <1>8, <1>9, <1>10, <1>11 DEF IInv

\* accept, register, and the end of an endpoint.
LEMMA EndpointKeeps ==
    ASSUME IInv,
           NEW s \in Sockets,
           Endpoint(s)
    PROVE  IInv'
<1>1. TypeOK'
    <2> DEFINE Places == {"none", "connecting", "accepted", "receiving"}
    <2>1. UNCHANGED <<castVars, linkVars, clientVars, screenVars>>
        BY DEF Endpoint, Accept, RegisterSocket, EndpointEnds
    <2>2. CASE Accept(s)
        <3>1. \E label \in Places : GotoEndpoint(s, label)
            BY <2>2 DEF Accept
        <3>2. endpoint' \in [Sockets -> Places] /\ UNCHANGED subs
            BY <2>2, <3>1 DEF IInv, TypeOK, Accept, GotoEndpoint
        <3> QED
            BY <2>1, <3>2 DEF IInv, TypeOK, castVars, linkVars, clientVars, screenVars
    <2>3. CASE RegisterSocket(s)
        <3>1. target[s] \in Keys
            BY <2>3 DEF IInv, Targeted, RegisterSocket
        <3>2. endpoint' \in [Sockets -> Places] /\ subs' \in [Keys -> SUBSET Sockets]
            BY <2>3, <3>1 DEF IInv, TypeOK, RegisterSocket, GotoEndpoint
        <3> QED
            BY <2>1, <3>2 DEF IInv, TypeOK, castVars, linkVars, clientVars, screenVars
    <2>4. CASE EndpointEnds(s)
        <3>1. target[s] \in Keys
            BY <2>4 DEF IInv, Targeted, EndpointEnds
        <3>2. endpoint' \in [Sockets -> Places] /\ subs' \in [Keys -> SUBSET Sockets]
            BY <2>4, <3>1 DEF IInv, TypeOK, EndpointEnds, GotoEndpoint
        <3> QED
            BY <2>1, <3>2 DEF IInv, TypeOK, castVars, linkVars, clientVars, screenVars
    <2> QED
        BY <2>2, <2>3, <2>4 DEF Endpoint
<1>2. CallbacksAreHeld'
    BY HubAssumption, RoomsAreKeys DEF IInv, TypeOK, CallbacksAreHeld, Endpoint, Accept,
           RegisterSocket, EndpointEnds, GotoEndpoint, castVars, linkVars, clientVars,
           screenVars
<1>3. RetryIsDue'
    BY HubAssumption, RoomsAreKeys DEF IInv, TypeOK, RetryIsDue, Endpoint, Accept,
           RegisterSocket, EndpointEnds, GotoEndpoint, castVars, linkVars, clientVars,
           screenVars
<1>4. HeldCallsBack'
    BY HubAssumption, RoomsAreKeys DEF IInv, TypeOK, HeldCallsBack, Endpoint, Accept,
           RegisterSocket, EndpointEnds, GotoEndpoint, castVars, linkVars, clientVars,
           screenVars
<1>5. Targeted'
    BY HubAssumption, RoomsAreKeys DEF IInv, TypeOK, Targeted, Endpoint, Accept,
           RegisterSocket, EndpointEnds, GotoEndpoint, castVars, linkVars, clientVars,
           screenVars
<1>6. SubscribedReceives'
    BY HubAssumption, RoomsAreKeys DEF IInv, TypeOK, SubscribedReceives, Endpoint,
           Accept, RegisterSocket, EndpointEnds, GotoEndpoint, castVars, linkVars,
           clientVars, screenVars, Targeted
<1>7. StaleIsDown'
    BY HubAssumption, RoomsAreKeys DEF IInv, TypeOK, StaleIsDown, Endpoint, Accept,
           RegisterSocket, EndpointEnds, GotoEndpoint, castVars, linkVars, clientVars,
           screenVars
<1>8. PendingIsNewest'
    BY HubAssumption, RoomsAreKeys DEF IInv, TypeOK, PendingIsNewest, Endpoint, Accept,
           RegisterSocket, EndpointEnds, GotoEndpoint, castVars, linkVars, clientVars,
           screenVars
<1>9. WireInOrder'
    BY HubAssumption, RoomsAreKeys DEF IInv, TypeOK, WireInOrder, Endpoint, Accept,
           RegisterSocket, EndpointEnds, GotoEndpoint, castVars, linkVars, clientVars,
           screenVars
<1>10. SeenIsSaid'
    BY HubAssumption, RoomsAreKeys DEF IInv, TypeOK, SeenIsSaid, Endpoint, Accept,
           RegisterSocket, EndpointEnds, GotoEndpoint, castVars, linkVars, clientVars,
           screenVars
<1>11. LiveSocketSubscribed'
    BY HubAssumption, RoomsAreKeys DEF IInv, TypeOK, LiveSocketSubscribed, Endpoint,
           Accept, RegisterSocket, EndpointEnds, GotoEndpoint, castVars, linkVars,
           clientVars, screenVars, Targeted
<1> QED
    BY <1>1, <1>2, <1>3, <1>4, <1>5, <1>6, <1>7, <1>8, <1>9, <1>10, <1>11 DEF IInv

\* A connection breaks.
LEMMA ConnectionLostKeeps ==
    ASSUME IInv,
           NEW s \in Sockets,
           ConnectionLost(s)
    PROVE  IInv'
<1>1. TypeOK'
    BY HubAssumption, RoomsAreKeys DEF IInv, TypeOK, ConnectionLost, castVars,
           serverVars, clientVars, screenVars
<1>2. CallbacksAreHeld'
    BY HubAssumption, RoomsAreKeys DEF IInv, TypeOK, CallbacksAreHeld, ConnectionLost,
           castVars, serverVars, clientVars, screenVars
<1>3. RetryIsDue'
    BY HubAssumption, RoomsAreKeys DEF IInv, TypeOK, RetryIsDue, ConnectionLost,
           castVars, serverVars, clientVars, screenVars
<1>4. HeldCallsBack'
    BY HubAssumption, RoomsAreKeys DEF IInv, TypeOK, HeldCallsBack, ConnectionLost,
           castVars, serverVars, clientVars, screenVars
<1>5. Targeted'
    BY HubAssumption, RoomsAreKeys DEF IInv, TypeOK, Targeted, ConnectionLost, castVars,
           serverVars, clientVars, screenVars
<1>6. SubscribedReceives'
    BY HubAssumption, RoomsAreKeys DEF IInv, TypeOK, SubscribedReceives, ConnectionLost,
           castVars, serverVars, clientVars, screenVars
<1>7. StaleIsDown'
    BY HubAssumption, RoomsAreKeys DEF IInv, TypeOK, StaleIsDown, ConnectionLost,
           castVars, serverVars, clientVars, screenVars
<1>8. PendingIsNewest'
    BY HubAssumption, RoomsAreKeys DEF IInv, TypeOK, PendingIsNewest, ConnectionLost,
           castVars, serverVars, clientVars, screenVars
<1>9. WireInOrder'
    BY HubAssumption, RoomsAreKeys DEF IInv, TypeOK, WireInOrder, ConnectionLost,
           castVars, serverVars, clientVars, screenVars
<1>10. SeenIsSaid'
    BY HubAssumption, RoomsAreKeys DEF IInv, TypeOK, SeenIsSaid, ConnectionLost,
           castVars, serverVars, clientVars, screenVars
<1>11. LiveSocketSubscribed'
    BY HubAssumption, RoomsAreKeys DEF IInv, TypeOK, LiveSocketSubscribed,
           ConnectionLost, castVars, serverVars, clientVars, screenVars
<1> QED
    BY <1>1, <1>2, <1>3, <1>4, <1>5, <1>6, <1>7, <1>8, <1>9, <1>10, <1>11 DEF IInv

\* The server restarts.
LEMMA ServerRestartsKeeps ==
    ASSUME IInv,
           ServerRestarts
    PROVE  IInv'
<1>1. TypeOK'
    BY HubAssumption, RoomsAreKeys DEF IInv, TypeOK, ServerRestarts, clientVars,
           screenVars
<1>2. CallbacksAreHeld'
    BY HubAssumption, RoomsAreKeys DEF IInv, TypeOK, CallbacksAreHeld, ServerRestarts,
           clientVars, screenVars
<1>3. RetryIsDue'
    BY HubAssumption, RoomsAreKeys DEF IInv, TypeOK, RetryIsDue, ServerRestarts,
           clientVars, screenVars
<1>4. HeldCallsBack'
    BY HubAssumption, RoomsAreKeys DEF IInv, TypeOK, HeldCallsBack, ServerRestarts,
           clientVars, screenVars
<1>5. Targeted'
    BY HubAssumption, RoomsAreKeys DEF IInv, TypeOK, Targeted, ServerRestarts,
           clientVars, screenVars
<1>6. SubscribedReceives'
    BY HubAssumption, RoomsAreKeys DEF IInv, TypeOK, SubscribedReceives, ServerRestarts,
           clientVars, screenVars
<1>7. StaleIsDown'
    BY HubAssumption, RoomsAreKeys DEF IInv, TypeOK, StaleIsDown, ServerRestarts,
           clientVars, screenVars
<1>8. PendingIsNewest'
    BY HubAssumption, RoomsAreKeys DEF IInv, TypeOK, PendingIsNewest, ServerRestarts,
           clientVars, screenVars
<1>9. WireInOrder'
    BY HubAssumption, RoomsAreKeys DEF IInv, TypeOK, WireInOrder, ServerRestarts,
           clientVars, screenVars
<1>10. SeenIsSaid'
    BY HubAssumption, RoomsAreKeys DEF IInv, TypeOK, SeenIsSaid, ServerRestarts,
           clientVars, screenVars
<1>11. LiveSocketSubscribed'
    BY HubAssumption, RoomsAreKeys DEF IInv, TypeOK, LiveSocketSubscribed,
           ServerRestarts, clientVars, screenVars
<1> QED
    BY <1>1, <1>2, <1>3, <1>4, <1>5, <1>6, <1>7, <1>8, <1>9, <1>10, <1>11 DEF IInv

\* The socket a client opens was held by nothing.
LEMMA NewSocketIsUnused ==
    ASSUME \E s \in Sockets : Unused(s)
    PROVE  NewSocket \in Sockets /\ Unused(NewSocket)
BY DEF NewSocket

\* What openWebSocket does, point by point, when n is the new socket.
OpenedAs(c, k, n) ==
    /\ endpoint[n] = "none" /\ handler[n] = NoClient
    /\ \A r \in Rooms : n \notin pending[r] /\ n \notin stale[r]
    /\ \A d \in Clients : /\ ws'[d] = IF d = c THEN n ELSE ws[d]
                          /\ state'[d] = IF d = c THEN "connecting" ELSE state[d]
                          /\ timer'[d] = IF d = c THEN NoKey ELSE timer[d]
    /\ \A s \in Sockets :
          /\ handler'[s] = IF s = n THEN c ELSE IF s = ws[c] THEN NoClient ELSE handler[s]
          /\ wire'[s] = IF s = n \/ s = ws[c] THEN <<>> ELSE wire[s]
          /\ target'[s] = IF s = n THEN k ELSE target[s]
          /\ up'[s] = (s = n \/ (up[s] /\ s # ws[c]))
          /\ endpoint'[s] = IF s = n THEN "connecting" ELSE endpoint[s]

OpenedTypes ==
    /\ handler \in [Sockets -> Clients \cup {NoClient}]
    /\ wire \in [Sockets -> Seq(1..MaxSaid)]
    /\ target \in [Sockets -> Keys \cup {NoKey}]
    /\ up \in [Sockets -> BOOLEAN]
    /\ endpoint \in [Sockets -> {"none", "connecting", "accepted", "receiving"}]
    /\ ws \in [Clients -> Sockets \cup {NoSocket}]
    /\ state \in [Clients -> {"idle", "connecting", "connected", "disconnected", "error"}]
    /\ timer \in [Clients -> Keys \cup {NoKey}]

\* A socket that is let go has a type-correct remainder.
LEMMA LetGoTypes ==
    ASSUME TypeOK, NEW s
    PROVE  /\ WithoutCallbacks(s) \in [Sockets -> Clients \cup {NoClient}]
           /\ Drained(s) \in [Sockets -> Seq(1..MaxSaid)]
           /\ Dropped(s) \in [Sockets -> BOOLEAN]
<1>1. WithoutCallbacks(s) \in [Sockets -> Clients \cup {NoClient}]
    BY DEF TypeOK, WithoutCallbacks
<1>2. Drained(s) \in [Sockets -> Seq(1..MaxSaid)]
    <2>1. <<>> \in Seq(1..MaxSaid)
        BY EmptySeq
    <2>2. \A t \in Sockets : wire[t] \in Seq(1..MaxSaid)
        BY DEF TypeOK
    <2>3. \A t \in Sockets : (IF t = s THEN <<>> ELSE wire[t]) \in Seq(1..MaxSaid)
        BY <2>1, <2>2
    <2> QED
        BY <2>3 DEF Drained
<1>3. Dropped(s) \in [Sockets -> BOOLEAN]
    BY DEF Dropped
<1> QED
    BY <1>1, <1>2, <1>3

LEMMA Opened ==
    ASSUME IInv, NEW c \in Clients, NEW k \in Keys, OpenWebSocket(c, k)
    PROVE  (\E n \in Sockets : OpenedAs(c, k, n)) /\ OpenedTypes'
<1> DEFINE n == NewSocket
<1>1. n \in Sockets /\ Unused(n)
    BY NewSocketIsUnused DEF OpenWebSocket
<1>2. /\ endpoint[n] = "none" /\ handler[n] = NoClient
      /\ \A r \in Rooms : n \notin pending[r] /\ n \notin stale[r]
    BY <1>1 DEF Unused, InCast
<1>3. /\ ws' = [ws EXCEPT ![c] = n]
      /\ handler' = [WithoutCallbacks(ws[c]) EXCEPT ![n] = c]
      /\ wire' = [Drained(ws[c]) EXCEPT ![n] = <<>>]
      /\ target' = [target EXCEPT ![n] = k]
      /\ up' = [Dropped(ws[c]) EXCEPT ![n] = TRUE]
      /\ endpoint' = [endpoint EXCEPT ![n] = "connecting"]
      /\ state' = [state EXCEPT ![c] = "connecting"]
      /\ timer' = [timer EXCEPT ![c] = NoKey]
    BY DEF OpenWebSocket
<1> HIDE DEF n
<1>4. /\ WithoutCallbacks(ws[c]) \in [Sockets -> Clients \cup {NoClient}]
      /\ Drained(ws[c]) \in [Sockets -> Seq(1..MaxSaid)]
      /\ Dropped(ws[c]) \in [Sockets -> BOOLEAN]
    BY LetGoTypes DEF IInv
<1>5. \A d \in Clients : /\ ws'[d] = IF d = c THEN n ELSE ws[d]
                         /\ state'[d] = IF d = c THEN "connecting" ELSE state[d]
                         /\ timer'[d] = IF d = c THEN NoKey ELSE timer[d]
    BY <1>3 DEF IInv, TypeOK
<1>6. /\ ws' \in [Clients -> Sockets \cup {NoSocket}]
      /\ state' \in [Clients -> {"idle", "connecting", "connected",
                                 "disconnected", "error"}]
      /\ timer' \in [Clients -> Keys \cup {NoKey}]
    BY <1>1, <1>3 DEF IInv, TypeOK
<1>7. /\ \A s \in Sockets : handler'[s] = IF s = n THEN c
                                          ELSE IF s = ws[c] THEN NoClient ELSE handler[s]
      /\ handler' \in [Sockets -> Clients \cup {NoClient}]
    BY <1>1, <1>3, <1>4 DEF WithoutCallbacks
<1>8. \A s \in Sockets : wire'[s] = IF s = n \/ s = ws[c] THEN <<>> ELSE wire[s]
    BY <1>1, <1>3, <1>4 DEF Drained
<1>9. wire' \in [Sockets -> Seq(1..MaxSaid)]
    <2>1. <<>> \in Seq(1..MaxSaid)
        BY EmptySeq
    <2> QED
        BY <1>3, <1>4, <2>1
<1>10. /\ \A s \in Sockets : up'[s] = (s = n \/ (up[s] /\ s # ws[c]))
       /\ up' \in [Sockets -> BOOLEAN]
    BY <1>1, <1>3, <1>4 DEF Dropped
<1>11. /\ \A s \in Sockets :
             /\ target'[s] = IF s = n THEN k ELSE target[s]
             /\ endpoint'[s] = IF s = n THEN "connecting" ELSE endpoint[s]
       /\ target' \in [Sockets -> Keys \cup {NoKey}]
       /\ endpoint' \in [Sockets -> {"none", "connecting", "accepted", "receiving"}]
    BY <1>1, <1>3 DEF IInv, TypeOK
<1>12. OpenedAs(c, k, n)
    BY <1>2, <1>5, <1>7, <1>8, <1>10, <1>11 DEF OpenedAs
<1>13. OpenedTypes'
    BY <1>6, <1>7, <1>9, <1>10, <1>11 DEF OpenedTypes
<1> QED
    BY <1>1, <1>12, <1>13

\* A socket is opened for the room the client wants from now on.
LEMMA OpenKeeps ==
    ASSUME IInv, NEW c \in Clients, NEW k \in Keys, OpenWebSocket(c, k),
           UNCHANGED <<said, pending, stale, subs, mounted>>,
           mounted[c],
           tries' \in [Clients -> 0..MaxTries], tries'[c] < MaxTries,
           room' \in [Clients -> Keys \cup {NoKey}], room'[c] = k,
           seen' \in [Clients -> 0..MaxSaid],
           k \in Rooms => seen'[c] <= said[k],
           \A d \in Clients : d # c => UNCHANGED <<tries[d], room[d], seen[d]>>,
           manual' \in [Clients -> BOOLEAN], shown' \in [Clients -> Seq(1..MaxSaid)]
    PROVE  IInv'
<1>1. PICK n \in Sockets : OpenedAs(c, k, n)
    BY Opened
<1>2. TypeOK'
    BY Opened DEF IInv, TypeOK, OpenedTypes
<1>3. \A s \in Sockets, d \in Clients :
          s # n /\ handler'[s] = d => handler[s] = d /\ d # c /\ s # ws[c]
    BY <1>1, HubAssumption DEF IInv, CallbacksAreHeld, OpenedAs
<1>4. \A s \in Sockets : s # n => target'[s] = target[s] /\ endpoint'[s] = endpoint[s]
    BY <1>1 DEF OpenedAs
<1>5. \A d \in Clients : d # c => /\ ws'[d] = ws[d] /\ state'[d] = state[d]
                                  /\ timer'[d] = timer[d] /\ mounted'[d] = mounted[d]
                                  /\ tries'[d] = tries[d] /\ room'[d] = room[d]
                                  /\ seen'[d] = seen[d]
    BY <1>1 DEF OpenedAs
<1>6. /\ handler'[n] = c /\ target'[n] = k /\ wire'[n] = <<>>
      /\ ws'[c] = n /\ timer'[c] = NoKey
    BY <1>1 DEF OpenedAs
<1>7. CallbacksAreHeld'
    <2> SUFFICES ASSUME NEW s \in Sockets, NEW d \in Clients, handler'[s] = d
                 PROVE  /\ ws'[d] = s /\ target'[s] = room'[d] /\ timer'[d] = NoKey
                        /\ mounted'[d] /\ tries'[d] < MaxTries
        BY DEF CallbacksAreHeld
    <2>1. CASE s = n
        BY <1>6, <2>1
    <2>2. CASE s # n
        <3>1. handler[s] = d /\ d # c
            BY <1>3, <2>2
        <3>2. /\ ws[d] = s /\ target[s] = room[d] /\ timer[d] = NoKey
              /\ mounted[d] /\ tries[d] < MaxTries
            BY <3>1 DEF IInv, CallbacksAreHeld
        <3> QED
            BY <1>4, <1>5, <2>2, <3>1, <3>2
    <2> QED
        BY <2>1, <2>2
<1>8. RetryIsDue'
    <2> SUFFICES ASSUME NEW d \in Clients, timer'[d] # NoKey
                 PROVE  /\ timer'[d] = room'[d] /\ ws'[d] = NoSocket
                        /\ state'[d] = "disconnected"
                        /\ mounted'[d] /\ tries'[d] < MaxTries
        BY DEF RetryIsDue
    <2>1. d # c /\ timer[d] # NoKey
        BY <1>5, <1>6
    <2>2. /\ timer[d] = room[d] /\ ws[d] = NoSocket /\ state[d] = "disconnected"
          /\ mounted[d] /\ tries[d] < MaxTries
        BY <2>1 DEF IInv, RetryIsDue
    <2> QED
        BY <1>5, <2>1, <2>2
<1>9. HeldCallsBack'
    <2> SUFFICES ASSUME NEW d \in Clients, ws'[d] # NoSocket
                 PROVE  handler'[ws'[d]] = d
        BY DEF HeldCallsBack
    <2>1. CASE d = c
        BY <1>6, <2>1
    <2>2. CASE d # c
        <3>1. ws'[d] = ws[d] /\ ws[d] \in Sockets /\ handler[ws[d]] = d
            BY <1>5, <2>2 DEF IInv, TypeOK, HeldCallsBack
        <3>2. ws[d] # n
            BY <1>1, <3>1, HubAssumption DEF OpenedAs
        <3>3. ws[d] # ws[c]
            BY <2>2, <3>1 DEF IInv, HeldCallsBack
        <3> QED
            BY <1>1, <3>1, <3>2, <3>3 DEF OpenedAs
    <2> QED
        BY <2>1, <2>2
<1>10. Targeted'
    BY <1>1 DEF IInv, Targeted, OpenedAs
<1>11. n \notin UNION {subs[q] : q \in Keys}
    BY <1>1 DEF IInv, SubscribedReceives, OpenedAs
<1>12. SubscribedReceives'
    BY <1>4, <1>11 DEF IInv, TypeOK, SubscribedReceives
<1>13. StaleIsDown'
    <2> SUFFICES ASSUME NEW r \in Rooms, NEW s \in stale[r]
                 PROVE  ~up'[s]
        BY DEF StaleIsDown
    <2>1. s \in Sockets /\ s # n
        BY <1>1 DEF IInv, TypeOK, OpenedAs
    <2> QED
        BY <1>1, <2>1 DEF IInv, StaleIsDown, OpenedAs
<1>14. \A s \in Sockets : s # n => wire'[s] = <<>> \/ wire'[s] = wire[s]
    BY <1>1 DEF OpenedAs
<1>15. PendingIsNewest'
    <2> SUFFICES ASSUME NEW r \in Rooms, NEW s \in pending[r]
                 PROVE  /\ target'[s] = r /\ said[r] > 0
                        /\ \A i \in DOMAIN wire'[s] : wire'[s][i] < said[r]
                        /\ \A d \in Clients : handler'[s] = d => seen'[d] < said[r]
        BY DEF PendingIsNewest
    <2>1. s \in Sockets /\ s # n
        BY <1>1 DEF IInv, TypeOK, OpenedAs
    <2>2. /\ target[s] = r /\ said[r] > 0
          /\ \A i \in DOMAIN wire[s] : wire[s][i] < said[r]
          /\ \A d \in Clients : handler[s] = d => seen[d] < said[r]
        BY DEF IInv, PendingIsNewest
    <2>3. \A i \in DOMAIN wire'[s] : wire'[s][i] < said[r]
        <3>1. CASE wire'[s] = <<>>
            BY <3>1
        <3>2. CASE wire'[s] = wire[s]
            BY <2>2, <3>2
        <3> QED
            BY <1>14, <2>1, <3>1, <3>2
    <2>4. \A d \in Clients : handler'[s] = d => seen'[d] < said[r]
        <3> SUFFICES ASSUME NEW d \in Clients, handler'[s] = d
                     PROVE  seen'[d] < said[r]
            OBVIOUS
        <3>1. handler[s] = d /\ d # c
            BY <1>3, <2>1
        <3> QED
            BY <1>5, <2>2, <3>1
    <2> QED
        BY <1>4, <2>1, <2>2, <2>3, <2>4
<1>16. WireInOrder'
    <2> SUFFICES ASSUME NEW s \in Sockets, NEW i \in DOMAIN wire'[s]
                 PROVE  /\ target'[s] \in Rooms
                        /\ wire'[s][i] <= said[target'[s]]
                        /\ \A j \in DOMAIN wire'[s] : i < j => wire'[s][i] < wire'[s][j]
                        /\ \A d \in Clients : handler'[s] = d => seen'[d] < wire'[s][i]
        BY DEF WireInOrder
    <2>1. s # n /\ wire'[s] = wire[s]
        BY <1>6, <1>14
    <2>2. /\ target[s] \in Rooms
          /\ wire[s][i] <= said[target[s]]
          /\ \A j \in DOMAIN wire[s] : i < j => wire[s][i] < wire[s][j]
          /\ \A d \in Clients : handler[s] = d => seen[d] < wire[s][i]
        BY <2>1 DEF IInv, WireInOrder
    <2> QED
        BY <1>3, <1>4, <1>5, <2>1, <2>2
<1>17. SeenIsSaid'
    BY <1>5 DEF IInv, SeenIsSaid
<1>18. LiveSocketSubscribed'
    BY <1>1 DEF IInv, LiveSocketSubscribed, OpenedAs
<1> QED
    BY <1>2, <1>7, <1>8, <1>9, <1>10, <1>12, <1>13, <1>15, <1>16, <1>17, <1>18 DEF IInv

\* connect, by either name.
LEMMA ConnectKeeps ==
    ASSUME IInv, NEW c \in Clients, NEW k \in Keys, Connect(c, k)
    PROVE  IInv'
<1>1. OpenWebSocket(c, k) /\ mounted[c]
    BY DEF Connect
<1>2. UNCHANGED <<said, pending, stale, subs, mounted>>
    BY DEF Connect, castVars
<1>3. /\ tries' \in [Clients -> 0..MaxTries] /\ tries'[c] < MaxTries
      /\ room' \in [Clients -> Keys \cup {NoKey}] /\ room'[c] = k
      /\ manual' \in [Clients -> BOOLEAN]
    BY HubAssumption DEF IInv, TypeOK, Connect
<1>4. shown' \in [Clients -> Seq(1..MaxSaid)]
    <2>1. <<>> \in Seq(1..MaxSaid)
        BY EmptySeq
    <2> QED
        BY <2>1 DEF IInv, TypeOK, Connect
<1>5. Spoken(k) \in 0..MaxSaid /\ (k \in Rooms => Spoken(k) = said[k])
    BY HubAssumption DEF IInv, TypeOK, Spoken
<1>6. seen' \in [Clients -> 0..MaxSaid] /\ seen'[c] = Spoken(k)
    BY <1>5 DEF IInv, TypeOK, Connect
<1>7. k \in Rooms => seen'[c] <= said[k]
    BY <1>5, <1>6, HubAssumption
<1>8. \A d \in Clients : d # c => UNCHANGED <<tries[d], room[d], seen[d]>>
    BY DEF IInv, TypeOK, Connect
<1> QED
    BY <1>1, <1>2, <1>3, <1>4, <1>6, <1>7, <1>8, OpenKeeps

\* A retry opens a socket, or is given up.
LEMMA TimerFiresKeeps ==
    ASSUME IInv, NEW c \in Clients, TimerFires(c)
    PROVE  IInv'
<1>1. UNCHANGED <<said, pending, stale, room, tries, manual, mounted, shown, seen>>
    BY DEF TimerFires, castVars, screenVars
<1>2. CASE mounted[c] /\ room[c] = timer[c]
    <2>1. OpenWebSocket(c, timer[c]) /\ UNCHANGED subs
        BY <1>2 DEF TimerFires
    <2>2. timer[c] \in Keys /\ tries[c] < MaxTries
        BY DEF IInv, TypeOK, RetryIsDue, TimerFires
    <2>3. timer[c] \in Rooms => seen[c] <= said[timer[c]]
        BY <1>2 DEF IInv, SeenIsSaid
    <2>4. /\ tries' \in [Clients -> 0..MaxTries]
          /\ room' \in [Clients -> Keys \cup {NoKey}]
          /\ seen' \in [Clients -> 0..MaxSaid]
          /\ manual' \in [Clients -> BOOLEAN]
          /\ shown' \in [Clients -> Seq(1..MaxSaid)]
        BY <1>1 DEF IInv, TypeOK
    <2> QED
        BY <1>1, <1>2, <2>1, <2>2, <2>3, <2>4, OpenKeeps
<1>3. CASE ~(mounted[c] /\ room[c] = timer[c])
    BY <1>3 DEF IInv, RetryIsDue, TimerFires
<1> QED
    BY <1>2, <1>3

\* A client lets the socket it holds go: nothing else of it changes but what its
\* state says of the retry.
LEMMA LetGoKeeps ==
    ASSUME IInv, NEW c \in Clients,
           UNCHANGED <<castVars, serverVars, target>>,
           handler' = WithoutCallbacks(ws[c]), wire' = Drained(ws[c]),
           up' \in [Sockets -> BOOLEAN],
           \A s \in Sockets : up'[s] => up[s],
           ws' = [ws EXCEPT ![c] = NoSocket],
           room' \in [Clients -> Keys \cup {NoKey}], room'[c] \in {room[c], NoKey},
           timer' \in [Clients -> Keys \cup {NoKey}],
           tries' \in [Clients -> 0..MaxTries],
           mounted' \in [Clients -> BOOLEAN],
           manual' \in [Clients -> BOOLEAN],
           state' \in [Clients -> {"idle", "connecting", "connected",
                                   "disconnected", "error"}],
           timer'[c] # NoKey =>
              /\ timer'[c] = room'[c] /\ state'[c] = "disconnected"
              /\ mounted'[c] /\ tries'[c] < MaxTries,
           \A d \in Clients : d # c =>
              UNCHANGED <<room[d], timer[d], tries[d], mounted[d], state[d]>>,
           UNCHANGED seen, shown' \in [Clients -> Seq(1..MaxSaid)]
    PROVE  IInv'
<1>1. TypeOK'
    <2>1. /\ handler' \in [Sockets -> Clients \cup {NoClient}]
          /\ wire' \in [Sockets -> Seq(1..MaxSaid)]
        BY LetGoTypes DEF IInv
    <2>2. ws' \in [Clients -> Sockets \cup {NoSocket}]
        BY DEF IInv, TypeOK
    <2> QED
        BY <2>1, <2>2 DEF IInv, TypeOK, castVars, serverVars
<1>2. \A s \in Sockets : handler'[s] = IF s = ws[c] THEN NoClient ELSE handler[s]
    BY DEF WithoutCallbacks
<1>3. \A s \in Sockets : wire'[s] = IF s = ws[c] THEN <<>> ELSE wire[s]
    BY DEF Drained
<1>4. \A d \in Clients : ws'[d] = IF d = c THEN NoSocket ELSE ws[d]
    BY DEF IInv, TypeOK
<1>5. \A s \in Sockets, d \in Clients : handler'[s] = d => handler[s] = d /\ d # c
    <2> SUFFICES ASSUME NEW s \in Sockets, NEW d \in Clients, handler'[s] = d
                 PROVE  handler[s] = d /\ d # c
        OBVIOUS
    <2>1. s # ws[c] /\ handler[s] = d
        BY <1>2, HubAssumption
    <2>2. CallbacksAreHeld
        BY DEF IInv
    <2>3. ws[d] = s
        BY <2>1, <2>2 DEF CallbacksAreHeld
    <2> QED
        BY <2>1, <2>3
<1>6. CallbacksAreHeld'
    <2> SUFFICES ASSUME NEW s \in Sockets, NEW d \in Clients, handler'[s] = d
                 PROVE  /\ ws'[d] = s /\ target'[s] = room'[d] /\ timer'[d] = NoKey
                        /\ mounted'[d] /\ tries'[d] < MaxTries
        BY DEF CallbacksAreHeld
    <2>1. handler[s] = d /\ d # c
        BY <1>5
    <2>2. /\ ws[d] = s /\ target[s] = room[d] /\ timer[d] = NoKey
          /\ mounted[d] /\ tries[d] < MaxTries
        BY <2>1 DEF IInv, CallbacksAreHeld
    <2> QED
        BY <1>4, <2>1, <2>2
<1>7. RetryIsDue'
    <2> SUFFICES ASSUME NEW d \in Clients, timer'[d] # NoKey
                 PROVE  /\ timer'[d] = room'[d] /\ ws'[d] = NoSocket
                        /\ state'[d] = "disconnected"
                        /\ mounted'[d] /\ tries'[d] < MaxTries
        BY DEF RetryIsDue
    <2>1. CASE d = c
        BY <1>4, <2>1
    <2>2. CASE d # c
        <3>1. timer[d] # NoKey
            BY <2>2
        <3>2. /\ timer[d] = room[d] /\ ws[d] = NoSocket /\ state[d] = "disconnected"
              /\ mounted[d] /\ tries[d] < MaxTries
            BY <3>1 DEF IInv, RetryIsDue
        <3> QED
            BY <1>4, <2>2, <3>2
    <2> QED
        BY <2>1, <2>2
<1>8. HeldCallsBack'
    <2> SUFFICES ASSUME NEW d \in Clients, ws'[d] # NoSocket
                 PROVE  handler'[ws'[d]] = d
        BY DEF HeldCallsBack
    <2>1. d # c /\ ws'[d] = ws[d] /\ ws[d] \in Sockets /\ handler[ws[d]] = d
        BY <1>4 DEF IInv, TypeOK, HeldCallsBack
    <2>2. ws[d] # ws[c]
        BY <2>1 DEF IInv, HeldCallsBack
    <2> QED
        BY <1>2, <2>1, <2>2
<1>9. Targeted'
    BY <1>2 DEF IInv, Targeted, serverVars
<1>10. SubscribedReceives'
    BY DEF IInv, SubscribedReceives, serverVars
<1>11. StaleIsDown'
    BY DEF IInv, TypeOK, StaleIsDown, castVars
<1>12. PendingIsNewest'
    <2> SUFFICES ASSUME NEW r \in Rooms, NEW s \in pending[r]
                 PROVE  /\ target[s] = r /\ said[r] > 0
                        /\ \A i \in DOMAIN wire'[s] : wire'[s][i] < said[r]
                        /\ \A d \in Clients : handler'[s] = d => seen[d] < said[r]
        BY DEF PendingIsNewest, castVars
    <2>1. s \in Sockets
        BY DEF IInv, TypeOK
    <2>2. /\ target[s] = r /\ said[r] > 0
          /\ \A i \in DOMAIN wire[s] : wire[s][i] < said[r]
          /\ \A d \in Clients : handler[s] = d => seen[d] < said[r]
        BY DEF IInv, PendingIsNewest
    <2>3. \A i \in DOMAIN wire'[s] : wire'[s][i] < said[r]
        <3>1. CASE s = ws[c]
            BY <1>3, <2>1, <3>1
        <3>2. CASE s # ws[c]
            BY <1>3, <2>1, <2>2, <3>2
        <3> QED
            BY <3>1, <3>2
    <2> QED
        BY <1>5, <2>1, <2>2, <2>3
<1>13. WireInOrder'
    <2> SUFFICES ASSUME NEW s \in Sockets, NEW i \in DOMAIN wire'[s]
                 PROVE  /\ target[s] \in Rooms
                        /\ wire'[s][i] <= said[target[s]]
                        /\ \A j \in DOMAIN wire'[s] : i < j => wire'[s][i] < wire'[s][j]
                        /\ \A d \in Clients : handler'[s] = d => seen[d] < wire'[s][i]
        BY DEF WireInOrder, castVars
    <2>1. wire'[s] = wire[s]
        BY <1>3
    <2> QED
        BY <1>5, <2>1 DEF IInv, WireInOrder
<1>14. SeenIsSaid'
    <2> SUFFICES ASSUME NEW d \in Clients, room'[d] \in Rooms
                 PROVE  seen[d] <= said[room'[d]]
        BY DEF SeenIsSaid, castVars
    <2>1. room'[d] = room[d]
        BY RoomsAreKeys
    <2> QED
        BY <2>1 DEF IInv, SeenIsSaid
<1>15. LiveSocketSubscribed'
    BY DEF IInv, LiveSocketSubscribed, serverVars
<1> QED
    BY <1>1, <1>6, <1>7, <1>8, <1>9, <1>10, <1>11, <1>12, <1>13, <1>14, <1>15 DEF IInv

\* disconnect.
LEMMA DisconnectKeeps ==
    ASSUME IInv, NEW c \in Clients, Disconnect(c)
    PROVE  IInv'
<1>1. /\ UNCHANGED <<castVars, serverVars, target>>
      /\ handler' = WithoutCallbacks(ws[c]) /\ wire' = Drained(ws[c])
      /\ ws' = [ws EXCEPT ![c] = NoSocket]
      /\ UNCHANGED seen
    BY DEF Disconnect, screenVars
<1>2. up' \in [Sockets -> BOOLEAN] /\ \A s \in Sockets : up'[s] => up[s]
    BY DEF Disconnect, Dropped
<1>3. /\ room' \in [Clients -> Keys \cup {NoKey}] /\ room'[c] = NoKey
      /\ timer' \in [Clients -> Keys \cup {NoKey}] /\ timer'[c] = NoKey
      /\ \A d \in Clients : d # c => UNCHANGED <<room[d], timer[d]>>
    BY DEF IInv, TypeOK, Disconnect
<1>4. /\ tries' \in [Clients -> 0..MaxTries]
      /\ \A d \in Clients : d # c => UNCHANGED tries[d]
    BY HubAssumption DEF IInv, TypeOK, Disconnect
<1>5. /\ mounted' \in [Clients -> BOOLEAN]
      /\ manual' \in [Clients -> BOOLEAN]
      /\ state' \in [Clients -> {"idle", "connecting", "connected",
                                 "disconnected", "error"}]
      /\ shown' \in [Clients -> Seq(1..MaxSaid)]
      /\ \A d \in Clients : d # c => UNCHANGED <<mounted[d], state[d]>>
    BY DEF IInv, TypeOK, Disconnect, screenVars
<1> QED
    BY <1>1, <1>2, <1>3, <1>4, <1>5, LetGoKeeps

\* The effect's cleanup.
LEMMA UnmountKeeps ==
    ASSUME IInv, NEW c \in Clients, Unmount(c)
    PROVE  IInv'
<1>1. /\ UNCHANGED <<castVars, serverVars, target>>
      /\ handler' = WithoutCallbacks(ws[c]) /\ wire' = Drained(ws[c])
      /\ ws' = [ws EXCEPT ![c] = NoSocket]
      /\ UNCHANGED seen
    BY DEF Unmount, screenVars
<1>2. up' \in [Sockets -> BOOLEAN] /\ \A s \in Sockets : up'[s] => up[s]
    BY DEF Unmount, Dropped
<1>3. /\ room' \in [Clients -> Keys \cup {NoKey}] /\ room'[c] = room[c]
      /\ timer' \in [Clients -> Keys \cup {NoKey}] /\ timer'[c] = NoKey
      /\ \A d \in Clients : d # c => UNCHANGED <<room[d], timer[d]>>
    BY DEF IInv, TypeOK, Unmount
<1>4. /\ mounted' \in [Clients -> BOOLEAN]
      /\ tries' \in [Clients -> 0..MaxTries]
      /\ manual' \in [Clients -> BOOLEAN]
      /\ state' \in [Clients -> {"idle", "connecting", "connected",
                                 "disconnected", "error"}]
      /\ shown' \in [Clients -> Seq(1..MaxSaid)]
      /\ \A d \in Clients : d # c => UNCHANGED <<tries[d], mounted[d], state[d]>>
    BY DEF IInv, TypeOK, Unmount, screenVars
<1> QED
    BY <1>1, <1>2, <1>3, <1>4, LetGoKeeps

\* What onclose lets go is the socket its client holds.
LEMMA ClosedKeeps ==
    ASSUME IInv, NEW s \in Sockets, Closed(s),
           timer' \in [Clients -> Keys \cup {NoKey}],
           tries' \in [Clients -> 0..MaxTries],
           state' \in [Clients -> {"idle", "connecting", "connected",
                                   "disconnected", "error"}],
           timer'[handler[s]] # NoKey =>
              /\ timer'[handler[s]] = target[s]
              /\ state'[handler[s]] = "disconnected" /\ tries'[handler[s]] < MaxTries,
           \A d \in Clients : d # handler[s] =>
              UNCHANGED <<timer[d], tries[d], state[d]>>
    PROVE  IInv'
<1> DEFINE c == handler[s]
<1>1. c \in Clients /\ ws[c] = s /\ target[s] = room[c] /\ mounted[c]
    BY DEF IInv, TypeOK, CallbacksAreHeld, Closed
<1>2. /\ UNCHANGED <<castVars, serverVars, target>>
      /\ handler' = WithoutCallbacks(ws[c]) /\ wire' = Drained(ws[c])
      /\ ws' = [ws EXCEPT ![c] = NoSocket]
      /\ UNCHANGED <<up, room, manual, mounted, shown, seen>>
    BY <1>1 DEF Closed, screenVars
<1>3. /\ up' \in [Sockets -> BOOLEAN] /\ \A t \in Sockets : up'[t] => up[t]
      /\ room' \in [Clients -> Keys \cup {NoKey}]
      /\ mounted' \in [Clients -> BOOLEAN]
      /\ manual' \in [Clients -> BOOLEAN]
      /\ shown' \in [Clients -> Seq(1..MaxSaid)]
    BY <1>2 DEF IInv, TypeOK
<1>4. timer'[c] # NoKey => /\ timer'[c] = room'[c] /\ state'[c] = "disconnected"
                           /\ mounted'[c] /\ tries'[c] < MaxTries
    BY <1>1, <1>2
<1>5. \A d \in Clients : d # c =>
          UNCHANGED <<room[d], timer[d], tries[d], mounted[d], state[d]>>
    BY <1>2
<1>6. room'[c] \in {room[c], NoKey}
    BY <1>2
<1> HIDE DEF c
<1>7. /\ tries' \in [Clients -> 0..MaxTries]
      /\ timer' \in [Clients -> Keys \cup {NoKey}]
      /\ state' \in [Clients -> {"idle", "connecting", "connected",
                                 "disconnected", "error"}]
    OBVIOUS
<1> QED
    BY <1>1, <1>2, <1>3, <1>4, <1>5, <1>6, <1>7, LetGoKeeps

\* onclose, without and with a retry.
LEMMA OnCloseKeeps ==
    ASSUME IInv, NEW s \in Sockets, OnNormalClose(s) \/ OnAbnormalClose(s)
    PROVE  IInv'
<1> DEFINE c == handler[s]
<1>1. c \in Clients /\ timer[c] = NoKey /\ tries[c] < MaxTries /\ Closed(s)
    BY DEF IInv, TypeOK, CallbacksAreHeld, OnNormalClose, OnAbnormalClose, Closed
<1>2. CASE OnNormalClose(s)
    <2>1. /\ timer' \in [Clients -> Keys \cup {NoKey}]
          /\ tries' \in [Clients -> 0..MaxTries]
          /\ state' \in [Clients -> {"idle", "connecting", "connected",
                                     "disconnected", "error"}]
          /\ timer'[c] = NoKey
          /\ \A d \in Clients : d # c => UNCHANGED <<timer[d], tries[d], state[d]>>
        BY <1>1, <1>2 DEF IInv, TypeOK, OnNormalClose
    <2> QED
        BY <1>1, <2>1, ClosedKeeps
<1>3. CASE OnAbnormalClose(s)
    <2> DEFINE gaveUp == tries[c] + 1 >= MaxTries
               wanted == room[c] = target[s]
    <2>1. target[s] \in Keys
        BY <1>1, HubAssumption DEF IInv, Targeted
    <2>2. /\ tries' = [tries EXCEPT ![c] = @ + 1]
          /\ state' = [state EXCEPT ![c] =
                 IF wanted /\ gaveUp THEN "error" ELSE "disconnected"]
          /\ timer' = [timer EXCEPT ![c] = IF wanted /\ ~gaveUp THEN target[s] ELSE @]
        BY <1>3 DEF OnAbnormalClose
    <2>3. /\ tries' \in [Clients -> 0..MaxTries] /\ tries'[c] = tries[c] + 1
          /\ \A d \in Clients : d # c => UNCHANGED tries[d]
        BY <1>1, <2>2, HubAssumption DEF IInv, TypeOK
    <2>4. /\ state' \in [Clients -> {"idle", "connecting", "connected",
                                     "disconnected", "error"}]
          /\ state'[c] = IF wanted /\ gaveUp THEN "error" ELSE "disconnected"
          /\ \A d \in Clients : d # c => UNCHANGED state[d]
        BY <1>1, <2>2 DEF IInv, TypeOK
    <2>5. /\ timer' \in [Clients -> Keys \cup {NoKey}]
          /\ timer'[c] = IF wanted /\ ~gaveUp THEN target[s] ELSE timer[c]
          /\ \A d \in Clients : d # c => UNCHANGED timer[d]
        BY <1>1, <2>1, <2>2 DEF IInv, TypeOK
    <2>6. timer'[c] # NoKey =>
              timer'[c] = target[s] /\ state'[c] = "disconnected" /\ tries'[c] < MaxTries
        <3>1. tries[c] \in Nat /\ MaxTries \in Nat
            BY <1>1, HubAssumption DEF IInv, TypeOK
        <3> QED
            BY <1>1, <2>3, <2>4, <2>5, <3>1
    <2> QED
        BY <1>1, <2>3, <2>4, <2>5, <2>6, ClosedKeeps
<1> QED
    BY <1>2, <1>3

\* The component is mounted anew.
LEMMA MountKeeps ==
    ASSUME IInv,
           NEW c \in Clients,
           Mount(c)
    PROVE  IInv'
<1>1. TypeOK'
    <2>1. <<>> \in Seq(1..MaxSaid)
        BY EmptySeq
    <2> QED
        BY <2>1, HubAssumption DEF IInv, TypeOK, Mount, castVars, serverVars, linkVars
<1>2. CallbacksAreHeld'
    BY HubAssumption, RoomsAreKeys DEF IInv, TypeOK, CallbacksAreHeld, Mount, castVars,
           serverVars, linkVars
<1>3. RetryIsDue'
    BY HubAssumption, RoomsAreKeys DEF IInv, TypeOK, RetryIsDue, Mount, castVars,
           serverVars, linkVars, CallbacksAreHeld
<1>4. HeldCallsBack'
    BY HubAssumption, RoomsAreKeys DEF IInv, TypeOK, HeldCallsBack, Mount, castVars,
           serverVars, linkVars
<1>5. Targeted'
    BY HubAssumption, RoomsAreKeys DEF IInv, TypeOK, Targeted, Mount, castVars,
           serverVars, linkVars
<1>6. SubscribedReceives'
    BY HubAssumption, RoomsAreKeys DEF IInv, TypeOK, SubscribedReceives, Mount,
           castVars, serverVars, linkVars
<1>7. StaleIsDown'
    BY HubAssumption, RoomsAreKeys DEF IInv, TypeOK, StaleIsDown, Mount, castVars,
           serverVars, linkVars
<1>8. PendingIsNewest'
    BY HubAssumption, RoomsAreKeys DEF IInv, TypeOK, PendingIsNewest, Mount, castVars,
           serverVars, linkVars
<1>9. WireInOrder'
    BY HubAssumption, RoomsAreKeys DEF IInv, TypeOK, WireInOrder, Mount, castVars,
           serverVars, linkVars
<1>10. SeenIsSaid'
    BY HubAssumption, RoomsAreKeys DEF IInv, TypeOK, SeenIsSaid, Mount, castVars,
           serverVars, linkVars
<1>11. LiveSocketSubscribed'
    BY HubAssumption, RoomsAreKeys DEF IInv, TypeOK, LiveSocketSubscribed, Mount,
           castVars, serverVars, linkVars
<1> QED
    BY <1>1, <1>2, <1>3, <1>4, <1>5, <1>6, <1>7, <1>8, <1>9, <1>10, <1>11 DEF IInv

\* The screen is cleared.
LEMMA ClearTurnsKeeps ==
    ASSUME IInv,
           NEW c \in Clients,
           ClearTurns(c)
    PROVE  IInv'
<1>1. TypeOK'
    <2>1. <<>> \in Seq(1..MaxSaid)
        BY EmptySeq
    <2> QED
        BY <2>1 DEF IInv, TypeOK, ClearTurns, castVars, serverVars, linkVars, clientVars
<1>2. CallbacksAreHeld'
    BY HubAssumption, RoomsAreKeys DEF IInv, TypeOK, CallbacksAreHeld, ClearTurns,
           castVars, serverVars, linkVars, clientVars
<1>3. RetryIsDue'
    BY HubAssumption, RoomsAreKeys DEF IInv, TypeOK, RetryIsDue, ClearTurns, castVars,
           serverVars, linkVars, clientVars
<1>4. HeldCallsBack'
    BY HubAssumption, RoomsAreKeys DEF IInv, TypeOK, HeldCallsBack, ClearTurns,
           castVars, serverVars, linkVars, clientVars
<1>5. Targeted'
    BY HubAssumption, RoomsAreKeys DEF IInv, TypeOK, Targeted, ClearTurns, castVars,
           serverVars, linkVars, clientVars
<1>6. SubscribedReceives'
    BY HubAssumption, RoomsAreKeys DEF IInv, TypeOK, SubscribedReceives, ClearTurns,
           castVars, serverVars, linkVars, clientVars
<1>7. StaleIsDown'
    BY HubAssumption, RoomsAreKeys DEF IInv, TypeOK, StaleIsDown, ClearTurns, castVars,
           serverVars, linkVars, clientVars
<1>8. PendingIsNewest'
    BY HubAssumption, RoomsAreKeys DEF IInv, TypeOK, PendingIsNewest, ClearTurns,
           castVars, serverVars, linkVars, clientVars
<1>9. WireInOrder'
    BY HubAssumption, RoomsAreKeys DEF IInv, TypeOK, WireInOrder, ClearTurns, castVars,
           serverVars, linkVars, clientVars
<1>10. SeenIsSaid'
    BY HubAssumption, RoomsAreKeys DEF IInv, TypeOK, SeenIsSaid, ClearTurns, castVars,
           serverVars, linkVars, clientVars
<1>11. LiveSocketSubscribed'
    BY HubAssumption, RoomsAreKeys DEF IInv, TypeOK, LiveSocketSubscribed, ClearTurns,
           castVars, serverVars, linkVars, clientVars
<1> QED
    BY <1>1, <1>2, <1>3, <1>4, <1>5, <1>6, <1>7, <1>8, <1>9, <1>10, <1>11 DEF IInv

\* The handshake is completed.
LEMMA OnOpenKeeps ==
    ASSUME IInv,
           NEW s \in Sockets,
           OnOpen(s)
    PROVE  IInv'
<1>1. TypeOK'
    BY HubAssumption, RoomsAreKeys DEF IInv, TypeOK, OnOpen, castVars, serverVars,
           linkVars, screenVars
<1>2. CallbacksAreHeld'
    BY HubAssumption, RoomsAreKeys DEF IInv, TypeOK, CallbacksAreHeld, OnOpen, castVars,
           serverVars, linkVars, screenVars
<1>3. RetryIsDue'
    BY HubAssumption, RoomsAreKeys DEF IInv, TypeOK, RetryIsDue, OnOpen, castVars,
           serverVars, linkVars, screenVars, CallbacksAreHeld
<1>4. HeldCallsBack'
    BY HubAssumption, RoomsAreKeys DEF IInv, TypeOK, HeldCallsBack, OnOpen, castVars,
           serverVars, linkVars, screenVars
<1>5. Targeted'
    BY HubAssumption, RoomsAreKeys DEF IInv, TypeOK, Targeted, OnOpen, castVars,
           serverVars, linkVars, screenVars
<1>6. SubscribedReceives'
    BY HubAssumption, RoomsAreKeys DEF IInv, TypeOK, SubscribedReceives, OnOpen,
           castVars, serverVars, linkVars, screenVars
<1>7. StaleIsDown'
    BY HubAssumption, RoomsAreKeys DEF IInv, TypeOK, StaleIsDown, OnOpen, castVars,
           serverVars, linkVars, screenVars
<1>8. PendingIsNewest'
    BY HubAssumption, RoomsAreKeys DEF IInv, TypeOK, PendingIsNewest, OnOpen, castVars,
           serverVars, linkVars, screenVars
<1>9. WireInOrder'
    BY HubAssumption, RoomsAreKeys DEF IInv, TypeOK, WireInOrder, OnOpen, castVars,
           serverVars, linkVars, screenVars
<1>10. SeenIsSaid'
    BY HubAssumption, RoomsAreKeys DEF IInv, TypeOK, SeenIsSaid, OnOpen, castVars,
           serverVars, linkVars, screenVars
<1>11. LiveSocketSubscribed'
    BY HubAssumption, RoomsAreKeys DEF IInv, TypeOK, LiveSocketSubscribed, OnOpen,
           castVars, serverVars, linkVars, screenVars
<1> QED
    BY <1>1, <1>2, <1>3, <1>4, <1>5, <1>6, <1>7, <1>8, <1>9, <1>10, <1>11 DEF IInv

\* The screen holds turns.
LEMMA WindowIsTurns ==
    ASSUME NEW turns \in Seq(1..MaxSaid)
    PROVE  Window(turns) \in Seq(1..MaxSaid)
<1>1. CASE Len(turns) > MaxTurns
    <2> DEFINE m == Len(turns) - MaxTurns + 1
    <2>1. m \in Int /\ Len(turns) \in Int /\ m >= 1
        BY <1>1, HubAssumption
    <2>2. \A i \in m..Len(turns) : turns[i] \in 1..MaxSaid
        <3> HIDE DEF m
        <3>1. \A i \in m..Len(turns) : i \in 1..Len(turns)
            BY <2>1
        <3> QED
            BY <3>1, ElementOfSeq
    <2>3. SubSeq(turns, m, Len(turns)) \in Seq(1..MaxSaid)
        <3> HIDE DEF m
        <3> QED
            BY <2>1, <2>2, SubSeqProperties
    <2> QED
        BY <1>1, <2>3 DEF Window
<1>2. CASE ~(Len(turns) > MaxTurns)
    BY <1>2 DEF Window
<1> QED
    BY <1>1, <1>2

\* What onmessage takes from a connection, and what is left.
LEMMA HeadIsShown ==
    ASSUME IInv, NEW s \in Sockets, OnMessage(s)
    PROVE  /\ handler[s] \in Clients /\ target[s] = room[handler[s]]
           /\ room[handler[s]] \in Rooms
           /\ Head(wire[s]) = wire[s][1] /\ 1 \in DOMAIN wire[s]
           /\ Head(wire[s]) \in 1..MaxSaid
           /\ seen[handler[s]] < Head(wire[s])
           /\ Head(wire[s]) <= said[room[handler[s]]]
           /\ wire' \in [Sockets -> Seq(1..MaxSaid)]
           /\ \A t \in Sockets : t # s => wire'[t] = wire[t]
           /\ \A i \in DOMAIN wire'[s] : /\ i \in Nat /\ i >= 1
                                         /\ i + 1 \in DOMAIN wire[s]
                                         /\ wire'[s][i] = wire[s][i + 1]
<1>1. wire[s] \in Seq(1..MaxSaid) /\ wire[s] # <<>> /\ handler[s] \in Clients
    BY DEF IInv, TypeOK, OnMessage
<1>2. /\ Head(wire[s]) \in 1..MaxSaid /\ Tail(wire[s]) \in Seq(1..MaxSaid)
      /\ Len(Tail(wire[s])) = Len(wire[s]) - 1
      /\ \A i \in 1..Len(Tail(wire[s])) : Tail(wire[s])[i] = wire[s][i + 1]
    BY <1>1, HeadTailProperties
<1>3. Head(wire[s]) = wire[s][1] /\ 1 \in DOMAIN wire[s]
    BY <1>1
<1>4. wire' = [wire EXCEPT ![s] = Tail(wire[s])]
    BY DEF OnMessage
<1>5. wire'[s] = Tail(wire[s]) /\ \A t \in Sockets : t # s => wire'[t] = wire[t]
    BY <1>4 DEF IInv, TypeOK
<1>6. wire' \in [Sockets -> Seq(1..MaxSaid)]
    BY <1>2, <1>4 DEF IInv, TypeOK
<1>7. \A i \in DOMAIN Tail(wire[s]) : /\ i \in Nat /\ i >= 1
                                      /\ i + 1 \in DOMAIN wire[s]
                                      /\ Tail(wire[s])[i] = wire[s][i + 1]
    BY <1>1, <1>2
<1>8. target[s] = room[handler[s]]
    BY <1>1 DEF IInv, CallbacksAreHeld
<1>9. /\ target[s] \in Rooms /\ wire[s][1] <= said[target[s]]
      /\ seen[handler[s]] < wire[s][1]
    BY <1>1, <1>3 DEF IInv, WireInOrder
<1> QED
    BY <1>1, <1>2, <1>3, <1>5, <1>6, <1>7, <1>8, <1>9

\* A turn is shown: what follows on the connection is newer.
LEMMA OnMessageKeeps ==
    ASSUME IInv,
           NEW s \in Sockets,
           OnMessage(s)
    PROVE  IInv'
<1>1. TypeOK'
    <2>1. Append(shown[handler[s]], Head(wire[s])) \in Seq(1..MaxSaid)
        BY HeadIsShown DEF IInv, TypeOK
    <2>2. Window(Append(shown[handler[s]], Head(wire[s]))) \in Seq(1..MaxSaid)
        BY <2>1, WindowIsTurns
    <2>3. shown' \in [Clients -> Seq(1..MaxSaid)]
        BY <2>2, HeadIsShown DEF IInv, TypeOK, OnMessage
    <2>4. seen' \in [Clients -> 0..MaxSaid]
        BY HeadIsShown, HubAssumption DEF IInv, TypeOK, OnMessage
    <2> QED
        BY <2>3, <2>4, HeadIsShown
           DEF IInv, TypeOK, OnMessage, castVars, serverVars, clientVars
<1>2. CallbacksAreHeld'
    BY HubAssumption, RoomsAreKeys DEF IInv, TypeOK, CallbacksAreHeld, OnMessage,
           castVars, serverVars, clientVars
<1>3. RetryIsDue'
    BY HubAssumption, RoomsAreKeys DEF IInv, TypeOK, RetryIsDue, OnMessage, castVars,
           serverVars, clientVars
<1>4. HeldCallsBack'
    BY HubAssumption, RoomsAreKeys DEF IInv, TypeOK, HeldCallsBack, OnMessage, castVars,
           serverVars, clientVars
<1>5. Targeted'
    BY HubAssumption, RoomsAreKeys DEF IInv, TypeOK, Targeted, OnMessage, castVars,
           serverVars, clientVars
<1>6. SubscribedReceives'
    BY HubAssumption, RoomsAreKeys DEF IInv, TypeOK, SubscribedReceives, OnMessage,
           castVars, serverVars, clientVars
<1>7. StaleIsDown'
    BY HubAssumption, RoomsAreKeys DEF IInv, TypeOK, StaleIsDown, OnMessage, castVars,
           serverVars, clientVars
<1>8. PendingIsNewest'
    <2> SUFFICES ASSUME NEW r \in Rooms, NEW t \in pending[r]
                 PROVE  /\ target[t] = r /\ said[r] > 0
                        /\ \A i \in DOMAIN wire'[t] : wire'[t][i] < said[r]
                        /\ \A c \in Clients : handler[t] = c => seen'[c] < said[r]
        BY DEF PendingIsNewest, OnMessage, castVars
    <2>1. t \in Sockets
        BY DEF IInv, TypeOK
    <2>2. /\ target[t] = r /\ said[r] > 0
          /\ \A i \in DOMAIN wire[t] : wire[t][i] < said[r]
          /\ \A c \in Clients : handler[t] = c => seen[c] < said[r]
        BY DEF IInv, PendingIsNewest
    <2>3. \A i \in DOMAIN wire'[t] : wire'[t][i] < said[r]
        BY <2>1, <2>2, HeadIsShown
    <2>4. ASSUME NEW c \in Clients, handler[t] = c
          PROVE  seen'[c] < said[r]
        <3>1. CASE t = s
            <4>1. seen'[c] = wire[s][1]
                BY <2>4, <3>1, HeadIsShown DEF IInv, TypeOK, OnMessage
            <4> QED
                BY <2>2, <3>1, <4>1, HeadIsShown
        <3>2. CASE t # s
            <4>1. c # handler[s]
                BY <2>1, <2>4, <3>2 DEF IInv, CallbacksAreHeld
            <4>2. seen'[c] = seen[c]
                BY <4>1 DEF IInv, TypeOK, OnMessage
            <4> QED
                BY <2>2, <2>4, <4>2
        <3> QED
            BY <3>1, <3>2
    <2> QED
        BY <2>2, <2>3, <2>4
<1>9. WireInOrder'
    <2> SUFFICES ASSUME NEW t \in Sockets, NEW i \in DOMAIN wire'[t]
                 PROVE  /\ target[t] \in Rooms
                        /\ wire'[t][i] <= said[target[t]]
                        /\ \A j \in DOMAIN wire'[t] : i < j => wire'[t][i] < wire'[t][j]
                        /\ \A c \in Clients : handler[t] = c => seen'[c] < wire'[t][i]
        BY DEF WireInOrder, OnMessage, castVars
    <2>1. CASE t = s
        <3>1. /\ i \in Nat /\ i >= 1 /\ i + 1 \in DOMAIN wire[s]
              /\ wire'[s][i] = wire[s][i + 1]
            BY <2>1, HeadIsShown
        <3>2. /\ target[s] \in Rooms
              /\ wire[s][i + 1] <= said[target[s]]
              /\ \A j \in DOMAIN wire[s] : i + 1 < j => wire[s][i + 1] < wire[s][j]
            BY <3>1 DEF IInv, WireInOrder
        <3>3. \A j \in DOMAIN wire'[s] : i < j => wire'[s][i] < wire'[s][j]
            <4> SUFFICES ASSUME NEW j \in DOMAIN wire'[s], i < j
                         PROVE  wire'[s][i] < wire'[s][j]
                OBVIOUS
            <4>1. /\ j \in Nat /\ j + 1 \in DOMAIN wire[s]
                  /\ wire'[s][j] = wire[s][j + 1]
                BY HeadIsShown
            <4>2. i + 1 < j + 1
                BY <3>1, <4>1
            <4> QED
                BY <3>1, <3>2, <4>1, <4>2
        <3>4. wire[s][1] < wire[s][i + 1]
            <4>1. 1 < i + 1
                BY <3>1
            <4> QED
                BY <3>1, <4>1, HeadIsShown DEF IInv, WireInOrder
        <3>5. \A c \in Clients : handler[s] = c => seen'[c] = wire[s][1]
            BY HeadIsShown DEF IInv, TypeOK, OnMessage
        <3> QED
            BY <2>1, <3>1, <3>2, <3>3, <3>4, <3>5
    <2>2. CASE t # s
        <3>1. wire'[t] = wire[t]
            BY <2>2, HeadIsShown
        <3>2. /\ target[t] \in Rooms
              /\ wire[t][i] <= said[target[t]]
              /\ \A j \in DOMAIN wire[t] : i < j => wire[t][i] < wire[t][j]
              /\ \A c \in Clients : handler[t] = c => seen[c] < wire[t][i]
            BY <3>1 DEF IInv, WireInOrder
        <3>3. ASSUME NEW c \in Clients, handler[t] = c
              PROVE  seen'[c] = seen[c]
            <4>1. c # handler[s]
                BY <2>2, <3>3 DEF IInv, CallbacksAreHeld
            <4> QED
                BY <4>1 DEF IInv, TypeOK, OnMessage
        <3> QED
            BY <3>1, <3>2, <3>3
    <2> QED
        BY <2>1, <2>2
<1>10. SeenIsSaid'
    <2> SUFFICES ASSUME NEW c \in Clients, room[c] \in Rooms
                 PROVE  seen'[c] <= said[room[c]]
        BY DEF SeenIsSaid, OnMessage, castVars, clientVars
    <2>1. CASE c = handler[s]
        BY <2>1, HeadIsShown DEF IInv, TypeOK, OnMessage
    <2>2. CASE c # handler[s]
        <3>1. seen'[c] = seen[c]
            BY <2>2 DEF IInv, TypeOK, OnMessage
        <3> QED
            BY <3>1 DEF IInv, SeenIsSaid
    <2> QED
        BY <2>1, <2>2
<1>11. LiveSocketSubscribed'
    BY HubAssumption, RoomsAreKeys DEF IInv, TypeOK, LiveSocketSubscribed, OnMessage,
           castVars, serverVars, clientVars
<1> QED
    BY <1>1, <1>2, <1>3, <1>4, <1>5, <1>6, <1>7, <1>8, <1>9, <1>10, <1>11 DEF IInv

LEMMA NextKeepsIInv == IInv /\ [Next]_vars => IInv'
<1> SUFFICES ASSUME IInv, [Next]_vars PROVE IInv'
    OBVIOUS
<1>1. ASSUME NEW r \in Rooms, Manager(r)
      PROVE  IInv'
    BY <1>1, BroadcastKeeps, SendReachesKeeps, SendIsLostKeeps, PruneKeeps DEF Manager
<1>2. ASSUME NEW s \in Sockets, Endpoint(s)
      PROVE  IInv'
    BY <1>2, EndpointKeeps
<1>3. ASSUME NEW s \in Sockets, Callback(s)
      PROVE  IInv'
    BY <1>3, OnOpenKeeps, OnMessageKeeps, OnCloseKeeps DEF Callback
<1>4. ASSUME NEW s \in Sockets, ConnectionLost(s)
      PROVE  IInv'
    BY <1>4, ConnectionLostKeeps
<1>5. ASSUME NEW c \in Clients, User(c)
      PROVE  IInv'
    <2>1. ASSUME NEW r \in Rooms, JoinCall(c, r) \/ Follow(c, r)
          PROVE  IInv'
        BY <2>1, RoomsAreKeys, ConnectKeeps DEF JoinCall, Follow
    <2> QED
        BY <1>5, <2>1, DisconnectKeeps, ClearTurnsKeeps, UnmountKeeps, MountKeeps DEF User
<1>6. ASSUME NEW c \in Clients, TimerFires(c)
      PROVE  IInv'
    BY <1>6, TimerFiresKeeps
<1>7. CASE ServerRestarts
    BY <1>7, ServerRestartsKeeps
<1>8. CASE UNCHANGED vars
    BY <1>8 DEF vars, castVars, serverVars, linkVars, clientVars, screenVars, IInv, TypeOK,
                CallbacksAreHeld, RetryIsDue, HeldCallsBack, Targeted, SubscribedReceives,
                StaleIsDown, PendingIsNewest, WireInOrder, SeenIsSaid, LiveSocketSubscribed
<1> QED
    BY <1>1, <1>2, <1>3, <1>4, <1>5, <1>6, <1>7, <1>8 DEF Next

\* The inductive invariant holds of every run of the manager, its endpoints, the
\* connections and the browsers, restarts included.
THEOREM InductiveInvariant == Spec => []IInv
BY InitIInv, NextKeepsIInv, PTL DEF Spec, Safety

\* Every step leaves every variable in its type.
THEOREM TypeCorrectness == Spec => []TypeOK
<1>1. IInv => TypeOK
    BY DEF IInv
<1> QED
    BY <1>1, InductiveInvariant, PTL

\* A viewer has one source of turns, for the room it wants: the socket in wsRef,
\* or else a retry that is due.
THEOREM SourceIsOne == Spec => []OneSource
<1>1. IInv => OneSource
    BY DEF IInv, CallbacksAreHeld, RetryIsDue, OneSource
<1> QED
    BY <1>1, InductiveInvariant, PTL

\* Pruning never drops a socket that works.
THEOREM LiveIsSubscribed == Spec => []LiveSocketSubscribed
<1>1. IInv => LiveSocketSubscribed
    BY DEF IInv
<1> QED
    BY <1>1, InductiveInvariant, PTL

-----------------------------------------------------------------------------
(* The safety half of GoneIsForgotten *)

\* A dead socket that is registered has an endpoint whose finally clause is still
\* to run, and it runs on the bucket the socket is in.
CleanupIsDue ==
    \A s \in Sockets, k \in Keys :
        s \in subs[k] => endpoint[s] = "receiving" /\ target[s] = k

\* The clean-up stays due until it, a pruning or a restart has forgotten the socket:
\* no connect gives a registered socket a new life or another room.
DeadStaysDead ==
    [][\A s \in Sockets :
          ~up[s] /\ Registered(s) /\ Registered(s)' => ~up'[s] /\ target'[s] = target[s]]_vars

\* Only a connect or a retry opens a socket, and it takes one nobody holds.
LEMMA RegisteredIsNotReopened ==
    ASSUME IInv, [Next]_vars, NEW s \in Sockets, ~up[s], Registered(s), Registered(s)'
    PROVE  ~up'[s] /\ target'[s] = target[s]
<1>1. endpoint[s] = "receiving"
    BY DEF IInv, SubscribedReceives, Registered
<1>2. ASSUME NEW c \in Clients, NEW k \in Keys, OpenWebSocket(c, k)
      PROVE  ~up'[s] /\ target'[s] = target[s]
    <2>1. NewSocket \in Sockets /\ NewSocket # s
        BY <1>1, <1>2, NewSocketIsUnused DEF OpenWebSocket, Unused
    <2>2. up' = [Dropped(ws[c]) EXCEPT ![NewSocket] = TRUE]
          /\ target' = [target EXCEPT ![NewSocket] = k]
        BY <1>2 DEF OpenWebSocket
    <2> QED
        BY <2>1, <2>2 DEF Dropped, IInv, TypeOK
<1>3. ASSUME NEW r \in Rooms, Manager(r)
      PROVE  (up' = up /\ target' = target) \/ \E t \in Sockets : SendReaches(r, t)
    BY <1>3 DEF Manager, Broadcast, SendIsLost, Prune, linkVars
<1>4. ASSUME NEW r \in Rooms, NEW t \in Sockets, SendReaches(r, t)
      PROVE  up' = up /\ target' = target
    BY <1>4 DEF SendReaches
<1>5. ASSUME NEW t \in Sockets, Endpoint(t) \/ Callback(t)
      PROVE  up' = up /\ target' = target
    BY <1>5 DEF Endpoint, Accept, RegisterSocket, EndpointEnds, Callback, OnOpen, OnMessage,
                OnNormalClose, OnAbnormalClose, Closed, linkVars
<1>6. ASSUME NEW t \in Sockets, ConnectionLost(t)
      PROVE  ~up'[s] /\ target' = target
    BY <1>6 DEF ConnectionLost, IInv, TypeOK
<1>7. ASSUME NEW c \in Clients, User(c)
      PROVE  ~up'[s] /\ target'[s] = target[s]
    <2>1. ASSUME NEW r \in Rooms, JoinCall(c, r) \/ Follow(c, r)
          PROVE  ~up'[s] /\ target'[s] = target[s]
        <3>1. PICK k \in Keys : OpenWebSocket(c, k)
            BY <2>1, RoomsAreKeys DEF JoinCall, Follow, Connect
        <3> QED
            BY <1>2, <3>1
    <2>2. CASE Disconnect(c) \/ Unmount(c)
        <3>1. up' = Dropped(ws[c]) /\ target' = target
            BY <2>2 DEF Disconnect, Unmount
        <3> QED
            BY <3>1 DEF Dropped
    <2>3. CASE ClearTurns(c) \/ Mount(c)
        BY <2>3 DEF ClearTurns, Mount, linkVars
    <2> QED
        BY <1>7, <2>1, <2>2, <2>3 DEF User
<1>8. ASSUME NEW c \in Clients, TimerFires(c)
      PROVE  ~up'[s] /\ target'[s] = target[s]
    <2>1. CASE mounted[c] /\ room[c] = timer[c]
        <3>1. OpenWebSocket(c, timer[c]) /\ timer[c] \in Keys
            BY <1>8, <2>1 DEF TimerFires, IInv, TypeOK
        <3> QED
            BY <1>2, <3>1
    <2>2. CASE ~(mounted[c] /\ room[c] = timer[c])
        BY <1>8, <2>2 DEF TimerFires, linkVars
    <2> QED
        BY <2>1, <2>2
<1>9. CASE ServerRestarts
    BY <1>9 DEF ServerRestarts
<1>10. CASE UNCHANGED vars
    BY <1>10 DEF vars, linkVars
<1> QED
    BY <1>3, <1>4, <1>5, <1>6, <1>7, <1>8, <1>9, <1>10 DEF Next

\* Whoever dies is forgotten by whatever the server does next about it: the clean-up
\* of a dead subscriber is due at every moment, and nothing but forgetting it ends that.
THEOREM DeadAreForgotten == Spec => []CleanupIsDue /\ DeadStaysDead
<1>1. IInv => CleanupIsDue
    BY DEF IInv, SubscribedReceives, CleanupIsDue
<1>2. IInv /\ [Next]_vars =>
          [\A s \in Sockets : ~up[s] /\ Registered(s) /\ Registered(s)'
                               => ~up'[s] /\ target'[s] = target[s]]_vars
    BY RegisteredIsNotReopened
<1> QED
    BY <1>1, <1>2, InductiveInvariant, PTL DEF Spec, Safety, DeadStaysDead

-----------------------------------------------------------------------------
(* TranscriptHub implements TranscriptFeed *)

\* What the server and the connections do is at most a turn spoken.
LEMMA ServerImplements ==
    ASSUME NEW r \in Rooms, Manager(r)
    PROVE  [Feed!FeedNext]_(Feed!feedVars)
BY DEF Manager, Broadcast, SendReaches, SendIsLost, Prune, clientVars, screenVars,
       Feed!FeedNext, Feed!Speak, Feed!feedVars

\* connect begins to watch.
LEMMA ConnectImplements ==
    ASSUME NEW c \in Clients, NEW k \in Keys, Connect(c, k)
    PROVE  Feed!FeedNext
<1>1. Feed!Spoken(k) = Spoken(k)
    BY DEF Spoken, Feed!Spoken
<1>2. Feed!Watch(c, k)
    BY <1>1 DEF Connect, castVars, Feed!Watch
<1> QED
    BY <1>2 DEF Feed!FeedNext

\* What else a user does ends the watching, clears the screen or changes neither.
LEMMA UserImplements ==
    ASSUME IInv, NEW c \in Clients, User(c)
    PROVE  [Feed!FeedNext]_(Feed!feedVars)
<1>1. ASSUME NEW r \in Rooms, JoinCall(c, r) \/ Follow(c, r)
      PROVE  Feed!FeedNext
    BY <1>1, RoomsAreKeys, ConnectImplements DEF JoinCall, Follow
<1>2. ASSUME Disconnect(c) \/ Mount(c)
      PROVE  Feed!FeedNext
    <2>1. Feed!Leave(c)
        BY <1>2 DEF Disconnect, Mount, castVars, screenVars, Feed!Leave
    <2> QED
        BY <2>1 DEF Feed!FeedNext
<1>3. ASSUME ClearTurns(c)
      PROVE  Feed!FeedNext
    BY <1>3 DEF ClearTurns, castVars, clientVars, Feed!FeedNext, Feed!Clear
<1>4. ASSUME Unmount(c)
      PROVE  UNCHANGED Feed!feedVars
    BY <1>4 DEF Unmount, castVars, screenVars, Feed!feedVars
<1> QED
    BY <1>1, <1>2, <1>3, <1>4 DEF User

\* onmessage shows a turn of the room that is watched, newer than all before it.
LEMMA OnMessageImplements ==
    ASSUME IInv, NEW s \in Sockets, OnMessage(s)
    PROVE  Feed!FeedNext
<1> DEFINE c == handler[s]
           k == Head(wire[s])
<1>1. c \in Clients /\ room[c] \in Rooms
    BY HeadIsShown
<1>2. k \in (seen[c] + 1)..said[room[c]]
    <2>1. /\ k \in 1..MaxSaid /\ seen[c] < k /\ k <= said[room[c]]
          /\ seen[c] \in 0..MaxSaid /\ said[room[c]] \in 0..MaxSaid
        BY <1>1, HeadIsShown DEF IInv, TypeOK
    <2> QED
        BY <2>1, HubAssumption
<1>3. Feed!Window(Append(shown[c], k)) = Window(Append(shown[c], k))
    BY DEF Window, Feed!Window
<1>4. /\ seen' = [seen EXCEPT ![c] = k]
      /\ shown' = [shown EXCEPT ![c] = Window(Append(shown[c], k))]
      /\ UNCHANGED <<said, room>>
    BY DEF OnMessage, castVars, clientVars
<1>5. Feed!Show(c)
    BY <1>1, <1>2, <1>3, <1>4 DEF Feed!Show
<1> QED
    BY <1>1, <1>5 DEF Feed!FeedNext

LEMMA NextImplements == IInv /\ [Next]_vars => [Feed!FeedNext]_(Feed!feedVars)
<1> SUFFICES ASSUME IInv, [Next]_vars PROVE [Feed!FeedNext]_(Feed!feedVars)
    OBVIOUS
<1>1. ASSUME NEW s \in Sockets, Endpoint(s) \/ ConnectionLost(s)
      PROVE  UNCHANGED Feed!feedVars
    BY <1>1 DEF Endpoint, Accept, RegisterSocket, EndpointEnds, ConnectionLost, castVars,
                clientVars, screenVars, Feed!feedVars
<1>2. ASSUME NEW s \in Sockets, Callback(s)
      PROVE  [Feed!FeedNext]_(Feed!feedVars)
    <2>1. ASSUME OnOpen(s) \/ OnNormalClose(s) \/ OnAbnormalClose(s)
          PROVE  UNCHANGED Feed!feedVars
        BY <2>1 DEF OnOpen, OnNormalClose, OnAbnormalClose, Closed, castVars, screenVars,
                    Feed!feedVars
    <2> QED
        BY <1>2, <2>1, OnMessageImplements DEF Callback
<1>3. ASSUME NEW c \in Clients, TimerFires(c)
      PROVE  UNCHANGED Feed!feedVars
    BY <1>3 DEF TimerFires, castVars, screenVars, Feed!feedVars
<1>4. CASE ServerRestarts
    BY <1>4 DEF ServerRestarts, clientVars, screenVars, Feed!feedVars
<1>5. CASE UNCHANGED vars
    BY <1>5 DEF vars, castVars, clientVars, screenVars, Feed!feedVars
<1> QED
    BY <1>1, <1>2, <1>3, <1>4, <1>5, ServerImplements, UserImplements DEF Next

\* Whatever sockets, retries, restarts and changes of room come between, a viewer
\* sees turns of the room it watches, in order and each at most once.
THEOREM ImplementsFeed == Spec => FeedIsFaithful
<1>1. Init => Feed!FeedInit
    BY DEF Init, Feed!FeedInit
<1> QED
    BY <1>1, NextImplements, InductiveInvariant, PTL
       DEF Spec, Safety, FeedIsFaithful, Feed!FeedSpec
=============================================================================

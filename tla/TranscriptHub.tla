---------------------------- MODULE TranscriptHub ----------------------------
(***************************************************************************)
(* The live transcript, from the worker that broadcasts the turns of a     *)
(* call to the screen that shows them: TranscriptManager and its endpoint  *)
(* (backend/telephony/transcript_manager.py, transcript_ws.py), the        *)
(* WebSockets between, and the useLiveTranscript hook of the dashboard     *)
(* (frontend/src/lib/websocket.ts) as LiveKitCallRoom.tsx calls it.        *)
(*                                                                         *)
(* What the manager does under its lock contains no await, so register,    *)
(* unregister, the snapshot and the pruning of a broadcast are atomic; the *)
(* sends between snapshot and pruning interleave with everything.  In the  *)
(* browser a callback runs to its end.  Each end of a socket learns later  *)
(* that the other is gone.  One bridge at a time speaks in a room, so its  *)
(* broadcasts come one after the other.                                    *)
(*                                                                         *)
(* Left out: what a turn contains and how it is parsed, the heartbeat,     *)
(* whose answer the hook only logs, the delays of the retries, the error   *)
(* text, and a blank room name, which LiveKitCallRoom never passes.        *)
(***************************************************************************)
EXTENDS Naturals, Sequences, FiniteSets

CONSTANTS Rooms,     \* names of LiveKit rooms
          Clients,   \* instances of the hook, or other clients of the endpoint
          Sockets,   \* bound: WebSocket objects alive at once; one is used again
                     \* when neither its ends nor a broadcast hold it
          MaxTries,  \* RECONNECT_MAX_TRIES
          MaxTurns,  \* maxTurns of the hook
          MaxSaid,   \* bound: turns broadcast in a room
          NoKey, NoSocket, NoClient

\* What LiveKitCallRoom takes for the session id: the last segment of the name.
LastSegment(r) == <<"last segment", r>>

Keys == Rooms \cup {LastSegment(r) : r \in Rooms}

ASSUME HubAssumption ==
    /\ MaxTries \in Nat \ {0}
    /\ MaxTurns \in Nat \ {0}
    /\ MaxSaid \in Nat
    /\ NoKey \notin Keys
    /\ NoSocket \notin Sockets
    /\ NoClient \notin Clients

VARIABLES
    said,      \* [Rooms -> turns broadcast so far]
    pending,   \* [Rooms -> subscribers a broadcast still has to send to]
    stale,     \* [Rooms -> subscribers whose send raised]
    subs,      \* _subscriptions; a missing bucket is the empty set
    endpoint,  \* [Sockets -> where transcript_ws is]
    target,    \* [Sockets -> the name in the URL]
    up,        \* [Sockets -> connected, and closed by neither end]
    wire,      \* [Sockets -> turns sent and not yet received]
    handler,   \* [Sockets -> whose callbacks an open socket has]
    ws,        \* [Clients -> wsRef]
    room,      \* [Clients -> roomNameRef]
    timer,     \* [Clients -> the room reconnectTimerRef will open]
    tries,     \* [Clients -> reconnectCount]
    manual,    \* [Clients -> manualDisconnect]
    mounted,   \* [Clients -> isMounted]
    state,     \* [Clients -> connectionState]
    shown,     \* [Clients -> turns]
    seen       \* history: the last turn shown, or broadcast when connect was called

castVars   == <<said, pending, stale>>
serverVars == <<subs, endpoint>>
linkVars   == <<target, up, wire, handler>>
clientVars == <<ws, room, timer, tries, manual, mounted, state>>
screenVars == <<shown, seen>>
vars       == <<castVars, serverVars, linkVars, clientVars, screenVars>>

TypeOK ==
    /\ said \in [Rooms -> 0..MaxSaid]
    /\ pending \in [Rooms -> SUBSET Sockets]
    /\ stale \in [Rooms -> SUBSET Sockets]
    /\ subs \in [Keys -> SUBSET Sockets]
    /\ endpoint \in [Sockets -> {"none", "connecting", "accepted", "receiving"}]
    /\ target \in [Sockets -> Keys \cup {NoKey}]
    /\ up \in [Sockets -> BOOLEAN]
    /\ wire \in [Sockets -> Seq(1..MaxSaid)]
    /\ handler \in [Sockets -> Clients \cup {NoClient}]
    /\ ws \in [Clients -> Sockets \cup {NoSocket}]
    /\ room \in [Clients -> Keys \cup {NoKey}]
    /\ timer \in [Clients -> Keys \cup {NoKey}]
    /\ tries \in [Clients -> 0..MaxTries]
    /\ manual \in [Clients -> BOOLEAN]
    /\ mounted \in [Clients -> BOOLEAN]
    /\ state \in [Clients -> {"idle", "connecting", "connected", "disconnected", "error"}]
    /\ shown \in [Clients -> Seq(1..MaxSaid)]
    /\ seen \in [Clients -> 0..MaxSaid]

Init ==
    /\ said = [r \in Rooms |-> 0]
    /\ pending = [r \in Rooms |-> {}]
    /\ stale = [r \in Rooms |-> {}]
    /\ subs = [k \in Keys |-> {}]
    /\ endpoint = [s \in Sockets |-> "none"]
    /\ target = [s \in Sockets |-> NoKey]
    /\ up = [s \in Sockets |-> FALSE]
    /\ wire = [s \in Sockets |-> <<>>]
    /\ handler = [s \in Sockets |-> NoClient]
    /\ ws = [c \in Clients |-> NoSocket]
    /\ room = [c \in Clients |-> NoKey]
    /\ timer = [c \in Clients |-> NoKey]
    /\ tries = [c \in Clients |-> 0]
    /\ manual = [c \in Clients |-> FALSE]
    /\ mounted = [c \in Clients |-> TRUE]
    /\ state = [c \in Clients |-> "idle"]
    /\ shown = [c \in Clients |-> <<>>]
    /\ seen = [c \in Clients |-> 0]

InCast(s) == \E r \in Rooms : s \in pending[r] \cup stale[r]
Registered(s) == \E k \in Keys : s \in subs[k]
Unused(s) == endpoint[s] = "none" /\ handler[s] = NoClient /\ ~InCast(s)
Spoken(k) == IF k \in Rooms THEN said[k] ELSE 0

Window(turns) ==
    IF Len(turns) > MaxTurns
    THEN SubSeq(turns, Len(turns) - MaxTurns + 1, Len(turns))
    ELSE turns

-----------------------------------------------------------------------------
(* TranscriptManager.broadcast, called by the worker of the room's bridge *)

\* The snapshot; a turn nobody has subscribed to is lost.
Broadcast(r) ==
    /\ said[r] < MaxSaid
    /\ pending[r] \cup stale[r] = {}
    /\ said' = [said EXCEPT ![r] = @ + 1]
    /\ pending' = [pending EXCEPT ![r] = subs[r]]
    /\ UNCHANGED <<stale, serverVars, linkVars, clientVars, screenVars>>

\* send_json to a peer that is there.
SendReaches(r, s) ==
    /\ s \in pending[r]
    /\ up[s]
    /\ wire' = [wire EXCEPT ![s] = Append(@, said[r])]
    /\ pending' = [pending EXCEPT ![r] = @ \ {s}]
    /\ UNCHANGED <<said, stale, serverVars, target, up, handler, clientVars, screenVars>>

\* send_json to a peer that is gone: it raises, or nobody notices yet.
SendIsLost(r, s) ==
    /\ s \in pending[r]
    /\ ~up[s]
    /\ pending' = [pending EXCEPT ![r] = @ \ {s}]
    /\ stale' \in {stale, [stale EXCEPT ![r] = @ \cup {s}]}
    /\ UNCHANGED <<said, serverVars, linkVars, clientVars, screenVars>>

\* One send that raised condemns the whole bucket.
PruneBucket(r) ==
    /\ pending[r] = {}
    /\ stale[r] # {}
    /\ subs' = [subs EXCEPT ![r] = {}]
    /\ stale' = [stale EXCEPT ![r] = {}]
    /\ UNCHANGED <<said, pending, endpoint, linkVars, clientVars, screenVars>>

\* gather has every result: who raised is discarded from the bucket as it is now.
Prune(r) ==
    /\ pending[r] = {}
    /\ stale[r] # {}
    /\ subs' = [subs EXCEPT ![r] = @ \ stale[r]]
    /\ stale' = [stale EXCEPT ![r] = {}]
    /\ UNCHANGED <<said, pending, endpoint, linkVars, clientVars, screenVars>>

-----------------------------------------------------------------------------
(* transcript_ws, one task per socket *)

GotoEndpoint(s, label) == endpoint' = [endpoint EXCEPT ![s] = label]

\* accept succeeds, or finds nobody any more.
Accept(s) ==
    /\ endpoint[s] = "connecting"
    /\ GotoEndpoint(s, IF up[s] THEN "accepted" ELSE "none")
    /\ UNCHANGED <<castVars, subs, linkVars, clientVars, screenVars>>

\* manager.register, even if the client has left since accept.
RegisterSocket(s) ==
    /\ endpoint[s] = "accepted"
    /\ GotoEndpoint(s, "receiving")
    /\ subs' = [subs EXCEPT ![target[s]] = @ \cup {s}]
    /\ UNCHANGED <<castVars, linkVars, clientVars, screenVars>>

\* The receive loop is left and the socket stays in its bucket.
EndsRegistered(s) ==
    /\ endpoint[s] = "receiving"
    /\ ~up[s]
    /\ GotoEndpoint(s, "none")
    /\ UNCHANGED <<castVars, subs, linkVars, clientVars, screenVars>>

\* receive_text raises, and the finally clause unregisters.
EndpointEnds(s) ==
    /\ endpoint[s] = "receiving"
    /\ ~up[s]
    /\ GotoEndpoint(s, "none")
    /\ subs' = [subs EXCEPT ![target[s]] = @ \ {s}]
    /\ UNCHANGED <<castVars, linkVars, clientVars, screenVars>>

\* The connection breaks, or a proxy on the way closes it.
ConnectionLost(s) ==
    /\ up[s]
    /\ up' = [up EXCEPT ![s] = FALSE]
    /\ UNCHANGED <<castVars, serverVars, target, wire, handler, clientVars, screenVars>>

\* The process restarts: its registry, endpoints and broadcasts are gone.
ServerRestarts ==
    /\ pending' = [r \in Rooms |-> {}]
    /\ stale' = [r \in Rooms |-> {}]
    /\ subs' = [k \in Keys |-> {}]
    /\ endpoint' = [s \in Sockets |-> "none"]
    /\ up' = [s \in Sockets |-> FALSE]
    /\ UNCHANGED <<said, target, wire, handler, clientVars, screenVars>>

-----------------------------------------------------------------------------
(* useLiveTranscript *)

\* closeWebSocket, for the socket s of wsRef: close(1000), its callbacks nulled.
WithoutCallbacks(s) == [t \in Sockets |-> IF t = s THEN NoClient ELSE handler[t]]
Drained(s) == [t \in Sockets |-> IF t = s THEN <<>> ELSE wire[t]]
Dropped(s) == [t \in Sockets |-> up[t] /\ t # s]

NewSocket == CHOOSE s \in Sockets : Unused(s)

\* The socket of wsRef is left as it is, open and with its callbacks.
OpenBesideOld(c, k) ==
    /\ \E s \in Sockets : Unused(s)
    /\ ws' = [ws EXCEPT ![c] = NewSocket]
    /\ handler' = [handler EXCEPT ![NewSocket] = c]
    /\ wire' = [wire EXCEPT ![NewSocket] = <<>>]
    /\ target' = [target EXCEPT ![NewSocket] = k]
    /\ up' = [up EXCEPT ![NewSocket] = TRUE]
    /\ endpoint' = [endpoint EXCEPT ![NewSocket] = "connecting"]
    /\ state' = [state EXCEPT ![c] = "connecting"]
    /\ timer' = [timer EXCEPT ![c] = NoKey]

\* openWebSocket: the old socket is closed, a new one is asked for.
OpenWebSocket(c, k) ==
    /\ \E s \in Sockets : Unused(s)
    /\ ws' = [ws EXCEPT ![c] = NewSocket]
    /\ handler' = [WithoutCallbacks(ws[c]) EXCEPT ![NewSocket] = c]
    /\ wire' = [Drained(ws[c]) EXCEPT ![NewSocket] = <<>>]
    /\ target' = [target EXCEPT ![NewSocket] = k]
    /\ up' = [Dropped(ws[c]) EXCEPT ![NewSocket] = TRUE]
    /\ endpoint' = [endpoint EXCEPT ![NewSocket] = "connecting"]
    /\ state' = [state EXCEPT ![c] = "connecting"]
    /\ timer' = [timer EXCEPT ![c] = NoKey]

Connect(c, k) ==
    /\ mounted[c]
    /\ tries' = [tries EXCEPT ![c] = 0]
    /\ room' = [room EXCEPT ![c] = k]
    /\ manual' = [manual EXCEPT ![c] = FALSE]
    /\ shown' = [shown EXCEPT ![c] = <<>>]
    /\ seen' = [seen EXCEPT ![c] = Spoken(k)]
    /\ OpenWebSocket(c, k)
    /\ UNCHANGED <<castVars, subs, mounted>>

\* LiveKitCallRoom, once LiveKit is connected, and a client that asks for the
\* room by the name transcript_ws documents.
JoinCall(c, r) == Connect(c, LastSegment(r))
Follow(c, r) == Connect(c, r)

Disconnect(c) ==
    /\ mounted[c]
    /\ timer' = [timer EXCEPT ![c] = NoKey]
    /\ tries' = [tries EXCEPT ![c] = 0]
    /\ room' = [room EXCEPT ![c] = NoKey]
    /\ manual' = [manual EXCEPT ![c] = TRUE]
    /\ ws' = [ws EXCEPT ![c] = NoSocket]
    /\ handler' = WithoutCallbacks(ws[c])
    /\ wire' = Drained(ws[c])
    /\ up' = Dropped(ws[c])
    /\ state' = [state EXCEPT ![c] = "disconnected"]
    /\ UNCHANGED <<castVars, serverVars, target, mounted, screenVars>>

ClearTurns(c) ==
    /\ shown' = [shown EXCEPT ![c] = <<>>]
    /\ UNCHANGED <<castVars, serverVars, linkVars, clientVars, seen>>

\* The effect's cleanup.
Unmount(c) ==
    /\ mounted[c]
    /\ mounted' = [mounted EXCEPT ![c] = FALSE]
    /\ timer' = [timer EXCEPT ![c] = NoKey]
    /\ ws' = [ws EXCEPT ![c] = NoSocket]
    /\ handler' = WithoutCallbacks(ws[c])
    /\ wire' = Drained(ws[c])
    /\ up' = Dropped(ws[c])
    /\ UNCHANGED <<castVars, serverVars, target, room, tries, manual, state, screenVars>>

\* The component is mounted anew, with refs and state of its own.
Mount(c) ==
    /\ ~mounted[c]
    /\ mounted' = [mounted EXCEPT ![c] = TRUE]
    /\ room' = [room EXCEPT ![c] = NoKey]
    /\ tries' = [tries EXCEPT ![c] = 0]
    /\ manual' = [manual EXCEPT ![c] = FALSE]
    /\ state' = [state EXCEPT ![c] = "idle"]
    /\ shown' = [shown EXCEPT ![c] = <<>>]
    /\ UNCHANGED <<castVars, serverVars, linkVars, ws, timer, seen>>

\* ws.onopen: the handshake was completed.
OnOpen(s) ==
    /\ handler[s] # NoClient
    /\ LET c == handler[s] IN
          /\ mounted[c]
          /\ state[c] = "connecting"
          /\ tries' = [tries EXCEPT ![c] = 0]
          /\ state' = [state EXCEPT ![c] = "connected"]
    /\ endpoint[s] \in {"accepted", "receiving"}
    /\ UNCHANGED <<castVars, serverVars, linkVars, ws, room, timer, manual, mounted,
                   screenVars>>

\* ws.onmessage
OnMessage(s) ==
    /\ handler[s] # NoClient
    /\ wire[s] # <<>>
    /\ LET c == handler[s] IN
          /\ mounted[c]
          /\ state[c] = "connected"
          /\ shown' = [shown EXCEPT ![c] = Window(Append(@, Head(wire[s])))]
          /\ seen' = [seen EXCEPT ![c] = Head(wire[s])]
    /\ wire' = [wire EXCEPT ![s] = Tail(@)]
    /\ UNCHANGED <<castVars, serverVars, target, up, handler, clientVars>>

\* What the connection was still carrying is lost with it.
Closed(s) ==
    /\ handler[s] # NoClient
    /\ mounted[handler[s]]
    /\ ~up[s]
    /\ ws' = [ws EXCEPT ![handler[s]] = NoSocket]
    /\ handler' = WithoutCallbacks(s)
    /\ wire' = Drained(s)
    /\ UNCHANGED <<castVars, serverVars, target, up, room, manual, mounted, screenVars>>

\* ws.onclose with code 1000 or 1001, or after disconnect: no retry.
OnNormalClose(s) ==
    /\ Closed(s)
    /\ state' = [state EXCEPT ![handler[s]] = "disconnected"]
    /\ UNCHANGED <<timer, tries>>

\* The limit is compared with the tries made before this one.
OnAbnormalCloseLate(s) ==
    /\ Closed(s)
    /\ LET c == handler[s]
           gaveUp == tries[c] >= MaxTries
           wanted == room[c] = target[s]
       IN  /\ ~manual[c]
           /\ tries' = [tries EXCEPT ![c] = @ + 1]
           /\ state' = [state EXCEPT ![c] =
                  IF wanted /\ gaveUp THEN "error" ELSE "disconnected"]
           /\ timer' = [timer EXCEPT ![c] =
                  IF wanted /\ ~gaveUp THEN target[s] ELSE @]

\* ws.onclose with another code, and scheduleReconnect.
OnAbnormalClose(s) ==
    /\ Closed(s)
    /\ LET c == handler[s]
           gaveUp == tries[c] + 1 >= MaxTries
           wanted == room[c] = target[s]
       IN  /\ ~manual[c]
           /\ tries' = [tries EXCEPT ![c] = @ + 1]
           /\ state' = [state EXCEPT ![c] =
                  IF wanted /\ gaveUp THEN "error" ELSE "disconnected"]
           /\ timer' = [timer EXCEPT ![c] =
                  IF wanted /\ ~gaveUp THEN target[s] ELSE @]

\* The callback of the timer does nothing for a room that is not wanted any more.
TimerFires(c) ==
    /\ timer[c] # NoKey
    /\ IF mounted[c] /\ room[c] = timer[c]
       THEN OpenWebSocket(c, timer[c]) /\ UNCHANGED subs
       ELSE /\ timer' = [timer EXCEPT ![c] = NoKey]
            /\ UNCHANGED <<serverVars, linkVars, ws, state>>
    /\ UNCHANGED <<castVars, room, tries, manual, mounted, screenVars>>

-----------------------------------------------------------------------------

Manager(r) ==
    \/ Broadcast(r)
    \/ \E s \in Sockets : SendReaches(r, s) \/ SendIsLost(r, s)
    \/ Prune(r)

Endpoint(s) == Accept(s) \/ RegisterSocket(s) \/ EndpointEnds(s)

User(c) ==
    \/ \E r \in Rooms : JoinCall(c, r) \/ Follow(c, r)
    \/ Disconnect(c)
    \/ ClearTurns(c)
    \/ Unmount(c)
    \/ Mount(c)

Callback(s) == OnOpen(s) \/ OnMessage(s) \/ OnNormalClose(s) \/ OnAbnormalClose(s)

Next ==
    \/ \E r \in Rooms : Manager(r)
    \/ \E s \in Sockets : Endpoint(s) \/ Callback(s) \/ ConnectionLost(s)
    \/ \E c \in Clients : User(c) \/ TimerFires(c)
    \/ ServerRestarts

\* A task of the server that can run does; the server's own pings find out that
\* a peer is gone.  Nothing is assumed of users, networks, calls or browsers.
Fairness == \A s \in Sockets : WF_vars(Endpoint(s))

Safety == Init /\ [][Next]_vars
Spec == Safety /\ Fairness

-----------------------------------------------------------------------------
(* Properties *)

\* One source of turns per viewer: only the socket in wsRef can call back, for
\* the room that is wanted, and a retry waits only while there is no socket.  A
\* viewer who changes rooms while a retry is due does not end up with two.
OneSource ==
    /\ \A s \in Sockets, c \in Clients : handler[s] = c =>
          ws[c] = s /\ target[s] = room[c] /\ timer[c] = NoKey
    /\ \A c \in Clients : timer[c] # NoKey =>
          timer[c] = room[c] /\ ws[c] = NoSocket /\ state[c] = "disconnected"

\* A socket whose two ends are there, and whose endpoint is receiving, is in the
\* bucket of its room: a broadcast that prunes the sockets that failed it while
\* others register and leave never drops one that works.
LiveSocketSubscribed ==
    \A s \in Sockets : endpoint[s] = "receiving" /\ up[s] => s \in subs[target[s]]

\* A socket that is dead leaves the registry, even if no further turn is spoken.
GoneIsForgotten ==
    \A s \in Sockets :
        (~up[s] /\ Registered(s)) ~> (up[s] \/ ~Registered(s))

\* The transcript a viewer sees is what TranscriptFeed promises, across retries,
\* restarts of the server, changes of room and sockets that overlap.
Feed == INSTANCE TranscriptFeed WITH watching <- room
FeedIsFaithful == Feed!FeedSpec

\* "room_name: The full LiveKit room name", transcript_ws.py:38: the manager is
\* asked for no other names.
SubscribedByFullName == \A k \in Keys \ Rooms : subs[k] = {}
=============================================================================

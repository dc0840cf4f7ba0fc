---------------------------- MODULE RoomRegistry ----------------------------
(***************************************************************************)
(* Who answers a telephone room: the API process's active_rooms, the       *)
(* KoyalRooms in it, the LiveKit webhooks and one outbound campaign        *)
(* (backend/telephony/inbound_handler.py, livekit_room.py and              *)
(* outbound_dialer.py).                                                    *)
(*                                                                         *)
(* The registry holds KoyalRooms by room name.  What is done under         *)
(* active_rooms_lock contains no await, so each such block is atomic here; *)
(* everything between two of them interleaves: webhooks, at any time after *)
(* what they report and as often as LiveKit repeats them, the tasks that   *)
(* connect a KoyalRoom, the tasks that disconnect one, and one campaign,   *)
(* from its launch.  A name hosts one call; a dialled one is fresh (uuid4),*)
(* so the duplicate check of dial never refuses.                           *)
(*                                                                         *)
(* Left out: tenants (a name without one is refused before any state       *)
(* changes), tokens, costs and the await that tracks them, the text of     *)
(* results, _api_lock, which only delays what _SIP_DIAL_TIMEOUT bounds,    *)
(* a greeting synthesised beforehand, whose failure is a SIP failure,      *)
(* and the worker process, which has a registry of its own.                *)
(***************************************************************************)
EXTENDS Naturals, FiniteSets

CONSTANTS Inbound,        \* names of rooms a caller opens
          Outbound,       \* names of rooms the campaign dials
          Rooms,          \* KoyalRoom objects; bound: calls of the constructor
          MaxConcurrent,  \* max_concurrent of the campaign
          NoRoom, NoName

ASSUME RegistryAssumption ==
    /\ MaxConcurrent \in Nat \ {0}
    /\ Inbound \cap Outbound = {}
    /\ NoRoom \notin Rooms
    /\ NoName \notin Inbound \cup Outbound
    /\ IsFiniteSet(Rooms)
    /\ IsFiniteSet(Outbound)

Names == Inbound \cup Outbound

VARIABLES
    caller,     \* [Names -> the caller's place in the LiveKit room]
    registry,   \* active_rooms
    name,       \* [Rooms -> room_name]
    origin,     \* [Rooms -> who constructed it]
    connector,  \* [Rooms -> where the task that called connect is]
    connected,  \* [Rooms -> _connected]
    joined,     \* [Rooms -> the agent is a participant of the LiveKit room]
    bridge,     \* [Rooms -> its LiveKitAudioBridge]
    disc,       \* [Rooms -> [Callers -> where that call of disconnect is]]
    dial,       \* [Outbound -> where dial is]
    campaign,   \* where launch_campaign is
    closing     \* outbound_rooms still to be closed, as <<name, room>>

roomVars     == <<name, origin, connector, connected, joined, bridge, disc>>
campaignVars == <<dial, campaign, closing>>
vars         == <<caller, registry, roomVars, campaignVars>>

\* Who calls disconnect: a webhook, close, or connect itself.
Callers == {"webhook", "close", "connect"}
\* "nothing": there was nothing to leave; "raised": room.disconnect raised.
Returned == {"left", "nothing", "raised"}
DiscStates == {"none", "called", "stopping", "leaving"} \cup Returned

TypeOK ==
    /\ caller \in [Names -> {"none", "in", "left"}]
    /\ registry \in [Names -> Rooms \cup {NoRoom}]
    /\ name \in [Rooms -> Names \cup {NoName}]
    /\ origin \in [Rooms -> {"none", "webhook", "dial"}]
    /\ connector \in [Rooms -> {"none", "connecting", "starting", "done", "disconnecting",
                                "hangup", "failed"}]
    /\ connected \in [Rooms -> BOOLEAN]
    /\ joined \in [Rooms -> BOOLEAN]
    /\ bridge \in [Rooms -> {"none", "live", "stopped"}]
    /\ disc \in [Rooms -> [Callers -> DiscStates]]
    /\ dial \in [Outbound -> {"queued", "creating", "dialing", "error"}]
    /\ campaign \in {"dialing", "closing", "done"}
    /\ closing \subseteq Names \X Rooms

Init ==
    /\ caller = [n \in Names |-> "none"]
    /\ registry = [n \in Names |-> NoRoom]
    /\ name = [r \in Rooms |-> NoName]
    /\ origin = [r \in Rooms |-> "none"]
    /\ connector = [r \in Rooms |-> "none"]
    /\ connected = [r \in Rooms |-> FALSE]
    /\ joined = [r \in Rooms |-> FALSE]
    /\ bridge = [r \in Rooms |-> "none"]
    /\ disc = [r \in Rooms |-> [d \in Callers |-> "none"]]
    /\ dial = [n \in Outbound |-> "queued"]
    /\ campaign = "dialing"
    /\ closing = {}

Goto(r, label) == connector' = [connector EXCEPT ![r] = label]
GotoDisc(r, d, label) == disc' = [disc EXCEPT ![r][d] = label]
Forget(n) == registry' = [registry EXCEPT ![n] = NoRoom]

-----------------------------------------------------------------------------
(* LiveKit *)

\* A caller joins: any time on an inbound name, once the SIP participant was
\* asked for on an outbound one, even if dial has given up waiting for it.
CallerEnters(n) ==
    /\ caller[n] = "none"
    /\ n \in Outbound => dial[n] # "queued"
    /\ caller' = [caller EXCEPT ![n] = "in"]
    /\ UNCHANGED <<registry, roomVars, campaignVars>>

CallerLeaves(n) ==
    /\ caller[n] = "in"
    /\ caller' = [caller EXCEPT ![n] = "left"]
    /\ UNCHANGED <<registry, roomVars, campaignVars>>

\* The connection of an agent is lost: the room's "disconnected" callback stops
\* the bridge, and nothing tells the KoyalRoom.
AgentDropped(r) ==
    /\ connector[r] = "done" /\ joined[r]
    /\ joined' = [joined EXCEPT ![r] = FALSE]
    /\ bridge' = [bridge EXCEPT ![r] = "stopped"]
    /\ UNCHANGED <<caller, registry, name, origin, connector, connected, disc, campaignVars>>

-----------------------------------------------------------------------------
(* KoyalRoom.disconnect *)

\* The room is left, the bridge is not looked at.
BeginDisconnectRoomFirst(r, d) ==
    /\ GotoDisc(r, d, IF connected[r] THEN "leaving" ELSE "nothing")
    /\ UNCHANGED bridge

\* What disconnect does before its first await.
BeginDisconnect(r, d) ==
    IF bridge[r] = "live"
    THEN /\ bridge' = [bridge EXCEPT ![r] = "stopped"]
         /\ GotoDisc(r, d, "stopping")
    ELSE /\ GotoDisc(r, d, IF connected[r] THEN "leaving" ELSE "nothing")
         /\ UNCHANGED bridge

\* The task that a webhook created gets to run.
DisconnectRuns(r) ==
    /\ disc[r]["webhook"] = "called"
    /\ BeginDisconnect(r, "webhook")
    /\ UNCHANGED <<caller, registry, name, origin, connector, connected, joined,
                   campaignVars>>

\* bridge.stop has returned; another call may have left the room meanwhile.
BridgeStopped(r, d) ==
    /\ disc[r][d] = "stopping"
    /\ GotoDisc(r, d, IF connected[r] THEN "leaving" ELSE "left")
    /\ UNCHANGED <<caller, registry, name, origin, connector, connected, joined, bridge,
                   campaignVars>>

\* room.disconnect returns, or raises and is logged.
LeaveRoom(r, d) ==
    /\ disc[r][d] = "leaving"
    /\ \/ /\ GotoDisc(r, d, "left")
          /\ joined' = [joined EXCEPT ![r] = FALSE]
          /\ connected' = [connected EXCEPT ![r] = FALSE]
       \/ GotoDisc(r, d, "raised") /\ UNCHANGED <<joined, connected>>
    /\ UNCHANGED <<caller, registry, name, origin, connector, bridge, campaignVars>>

-----------------------------------------------------------------------------
(* KoyalRoom.connect, in the task that registering it creates *)

\* Objects are alike: the next one is a fixed one that is not used yet.
Unused == {r \in Rooms : connector[r] = "none"}
NewRoom == CHOOSE r \in Rooms : r \in Unused

\* A new object takes the name in the registry, whatever was there.
Register(n, by) ==
    /\ Unused # {}
    /\ name' = [name EXCEPT ![NewRoom] = n]
    /\ origin' = [origin EXCEPT ![NewRoom] = by]
    /\ registry' = [registry EXCEPT ![n] = NewRoom]
    /\ Goto(NewRoom, "connecting")
    /\ UNCHANGED <<connected, joined, bridge, disc>>

JoinRoom(r) ==
    /\ connector[r] = "connecting"
    /\ connected' = [connected EXCEPT ![r] = TRUE]
    /\ joined' = [joined EXCEPT ![r] = TRUE]
    /\ bridge' = [bridge EXCEPT ![r] = "live"]
    /\ Goto(r, "starting")
    /\ UNCHANGED <<caller, registry, name, origin, disc, campaignVars>>

StartCompletes(r) ==
    /\ connector[r] = "starting"
    /\ Goto(r, "done")
    /\ UNCHANGED <<caller, registry, name, origin, connected, joined, bridge, disc,
                   campaignVars>>

\* bridge.start has stopped the bridge and raised: connect disconnects.
StartFails(r) ==
    /\ connector[r] = "starting"
    /\ bridge' = [bridge EXCEPT ![r] = "stopped"]
    /\ Goto(r, "disconnecting")
    /\ GotoDisc(r, "connect", IF connected[r] THEN "leaving" ELSE "nothing")
    /\ UNCHANGED <<caller, registry, name, origin, connected, joined, campaignVars>>

\* connect raises: at once if the room cannot be joined, or after disconnect.
Raising(r) ==
    \/ connector[r] = "connecting"
    \/ connector[r] = "disconnecting" /\ disc[r]["connect"] \in Returned

\* _connect_room_safely: whoever has the name now is forgotten.
WebhookConnectFails(r) ==
    /\ Raising(r)
    /\ origin[r] = "webhook"
    /\ Goto(r, "failed")
    /\ Forget(name[r])
    /\ UNCHANGED <<caller, name, origin, connected, joined, bridge, disc, campaignVars>>

\* _connect_and_monitor: the call is hung up first.
DialConnectFails(r) ==
    /\ Raising(r)
    /\ origin[r] = "dial"
    /\ Goto(r, "hangup")
    /\ UNCHANGED <<caller, registry, name, origin, connected, joined, bridge, disc,
                   campaignVars>>

\* The hang-up is done, and the name is left to the webhooks.
HungUpKeepingName(r) ==
    /\ connector[r] = "hangup"
    /\ Goto(r, "failed")
    /\ UNCHANGED <<caller, registry, name, origin, connected, joined, bridge, disc,
                   campaignVars>>

\* _hangup_sip_call has removed the caller, or failed, or given up after
\* _SIP_HANGUP_TIMEOUT.
HungUp(r) ==
    /\ connector[r] = "hangup"
    /\ Goto(r, "failed")
    /\ Forget(name[r])
    /\ caller' \in {caller, [caller EXCEPT ![name[r]] = "left"]}
    /\ UNCHANGED <<name, origin, connected, joined, bridge, disc, campaignVars>>

-----------------------------------------------------------------------------
(* livekit_webhook *)

RoomStarted(n) ==
    /\ caller[n] # "none"
    /\ registry[n] = NoRoom
    /\ Register(n, "webhook")
    /\ UNCHANGED <<caller, campaignVars>>

\* The KoyalRoom is popped and a task created that disconnects it.
TakeOut(n) ==
    /\ registry[n] # NoRoom
    /\ Forget(n)
    /\ GotoDisc(registry[n], "webhook", "called")
    /\ UNCHANGED <<caller, name, origin, connector, connected, joined, bridge,
                   campaignVars>>

ParticipantLeft(n) == caller[n] = "left" /\ TakeOut(n)
RoomFinished(n) ==
    /\ caller[n] = "left"
    /\ \A r \in Rooms : name[r] = n => ~joined[r]
    /\ TakeOut(n)

-----------------------------------------------------------------------------
(* launch_campaign, dial_campaign, dial and close *)

GotoDial(n, label) == dial' = [dial EXCEPT ![n] = label]

\* The semaphore of the campaign has room: the SIP participant is asked for.
Dial(n) ==
    /\ campaign = "dialing"
    /\ dial[n] = "queued"
    /\ Cardinality({m \in Outbound : dial[m] = "creating"}) < MaxConcurrent
    /\ GotoDial(n, "creating")
    /\ UNCHANGED <<caller, registry, roomVars, campaign, closing>>

\* A KoyalRoom is registered, over the one a webhook may have put there.
SipCreated(n) ==
    /\ dial[n] = "creating"
    /\ caller[n] # "none"
    /\ Register(n, "dial")
    /\ GotoDial(n, "dialing")
    /\ UNCHANGED <<caller, campaign, closing>>

\* The refusal of the server is awaited without a time-out.
SipRefused(n) ==
    /\ dial[n] = "creating"
    /\ caller[n] = "left"
    /\ GotoDial(n, "error")
    /\ UNCHANGED <<caller, registry, roomVars, campaign, closing>>

\* Refused, or _SIP_DIAL_TIMEOUT is over: nothing is hung up.
SipFails(n) ==
    /\ dial[n] = "creating"
    /\ GotoDial(n, "error")
    /\ UNCHANGED <<caller, registry, roomVars, campaign, closing>>

\* Every name is taken into the snapshot, registered or not.
SnapshotOfNames == {<<n, registry[n]>> : n \in Outbound}

\* All rooms that are registered are taken into the snapshot.
SnapshotOfRooms == {<<n, registry[n]>> : n \in {m \in Names : registry[m] # NoRoom}}

\* outbound_rooms, taken under the lock.
Snapshot == {<<n, registry[n]>> : n \in {m \in Outbound : registry[m] # NoRoom}}

\* dial_campaign returns, and __aexit__ closes the dialer.
CloseBegins ==
    /\ campaign = "dialing"
    /\ \A n \in Outbound : dial[n] \in {"dialing", "error"}
    /\ campaign' = "closing"
    /\ closing' = Snapshot
    /\ UNCHANGED <<caller, registry, roomVars, dial>>

CloseDisconnects(n, r) ==
    /\ <<n, r>> \in closing
    /\ \A entry \in closing : disc[entry[2]]["close"] = "none"
    /\ BeginDisconnect(r, "close")
    /\ UNCHANGED <<caller, registry, name, origin, connector, connected, joined,
                   campaignVars>>

\* Whoever has the name now is forgotten.
CloseForgets(n, r) ==
    /\ <<n, r>> \in closing
    /\ disc[r]["close"] \in Returned
    /\ Forget(n)
    /\ closing' = closing \ {<<n, r>>}
    /\ UNCHANGED <<caller, roomVars, dial, campaign>>

CloseEnds ==
    /\ campaign = "closing"
    /\ closing = {}
    /\ campaign' = "done"
    /\ UNCHANGED <<caller, registry, roomVars, dial, closing>>

-----------------------------------------------------------------------------

LiveKit ==
    \/ \E n \in Names : CallerEnters(n) \/ CallerLeaves(n)
    \/ \E r \in Rooms : AgentDropped(r)

Connect(r) ==
    \/ JoinRoom(r)
    \/ StartCompletes(r)
    \/ StartFails(r)
    \/ WebhookConnectFails(r)
    \/ DialConnectFails(r)
    \/ HungUp(r)

Disconnect(r) ==
    \/ DisconnectRuns(r)
    \/ \E d \in Callers : BridgeStopped(r, d) \/ LeaveRoom(r, d)

Webhook(n) == RoomStarted(n) \/ RoomFinished(n) \/ ParticipantLeft(n)

DialStep(n) == Dial(n) \/ SipCreated(n) \/ SipFails(n)

CloseStep ==
    \/ CloseBegins
    \/ \E n \in Names, r \in Rooms : CloseDisconnects(n, r) \/ CloseForgets(n, r)
    \/ CloseEnds

Next ==
    \/ LiveKit
    \/ \E n \in Names : Webhook(n)
    \/ \E r \in Rooms : Connect(r) \/ Disconnect(r)
    \/ \E n \in Outbound : DialStep(n)
    \/ CloseStep

\* Dialling is bounded by _SIP_DIAL_TIMEOUT, and what close awaits returns:
\* bridge.stop (AudioBridge) and room.disconnect.  Nothing is assumed of LiveKit
\* and its webhooks, nor of the other tasks that connect or disconnect a room.
Fairness ==
    /\ \A n \in Outbound : WF_vars(DialStep(n))
    /\ \A r \in Rooms : WF_vars(BridgeStopped(r, "close") \/ LeaveRoom(r, "close"))
    /\ WF_vars(CloseStep)

Safety == Init /\ [][Next]_vars
Spec == Safety /\ Fairness

-----------------------------------------------------------------------------
(* Properties *)

\* A KoyalRoom in the registry is there under its own name, no webhook has told
\* it to leave, and its connect has not failed, whoever registered it:
\* list_active_rooms shows no room that is on its way out, no room is told to
\* leave by two webhooks, and the next room_started of a name whose agent could
\* not be connected is not taken for a duplicate.
RegistryIsCurrent ==
    \A n \in Names, r \in Rooms : registry[n] = r =>
        /\ name[r] = n
        /\ disc[r]["webhook"] = "none"
        /\ connector[r] # "failed"

\* A disconnect that left the room has stopped the bridge and taken the agent
\* out, even when a webhook, close and connect itself disconnect at once.
LeftMeansGone ==
    \A r \in Rooms, d \in Callers : disc[r][d] = "left" =>
        ~joined[r] /\ ~connected[r] /\ bridge[r] = "stopped"

\* An inbound call stays registered until its caller has left or its agent could
\* not be connected: no campaign that ends takes it along.
InboundUndisturbed ==
    [][\A n \in Inbound : registry[n] # NoRoom /\ registry'[n] # registry[n] =>
          \/ caller[n] = "left"
          \/ \E r \in Rooms : /\ name[r] = n
                              /\ connector[r] # "failed" /\ connector'[r] = "failed"]_vars

\* Whatever rings, hangs or is disconnected twice, launch_campaign returns.
CampaignReturns == campaign = "dialing" ~> campaign = "done"

\* "Individual calls continue asynchronously inside LiveKit.",
\* outbound_dialer.py:422: the end of a campaign takes no agent from a caller.
CampaignCallsContinue ==
    \A r \in Rooms :
        disc[r]["close"] = "stopping" /\ connector[r] = "done" /\ dial[name[r]] = "dialing" =>
            caller[name[r]] = "left"
=============================================================================

-------------------------- MODULE RoomRegistryProofs --------------------------
(***************************************************************************)
(* RoomRegistry for any names and rooms and any size of the campaign.  The *)
(* argument: an object that is not constructed yet is untouched            *)
(* (UnusedIsUntouched), so it is current when it is registered; it joins   *)
(* once, and has a bridge from then on (JoinsOnce), so no disconnect that  *)
(* got to work can be undone by a join that comes late (DisconnectStops);  *)
(* and close goes through outbound names only (ClosesOutbound).            *)
(***************************************************************************)
EXTENDS RoomRegistry, FiniteSetTheorems, TLAPS

UnusedIsUntouched ==
    \A r \in Rooms : connector[r] = "none" =>
        /\ name[r] = NoName
        /\ \A d \in Callers : disc[r][d] = "none"

JoinsOnce ==
    \A r \in Rooms :
        /\ connector[r] \in {"none", "connecting"} => bridge[r] = "none"
        /\ bridge[r] = "none" => ~connected[r]
        /\ joined[r] => connected[r]

DisconnectStops ==
    \A r \in Rooms, d \in Callers :
        disc[r][d] \in {"stopping", "leaving", "left"} => bridge[r] = "stopped"

ClosesOutbound ==
    /\ closing \subseteq Outbound \X Rooms
    /\ \A n \in Outbound, r \in Rooms : <<n, r>> \in closing => connector[r] # "none"

IInv ==
    /\ TypeOK
    /\ RegistryIsCurrent
    /\ UnusedIsUntouched
    /\ JoinsOnce
    /\ DisconnectStops
    /\ LeftMeansGone
    /\ ClosesOutbound

LEMMA InitIInv == Init => IInv
<1> SUFFICES ASSUME Init PROVE IInv
    OBVIOUS
<1>1. TypeOK
    BY DEF Init, TypeOK, DiscStates, Returned
<1>2. RegistryIsCurrent /\ UnusedIsUntouched /\ JoinsOnce
    BY RegistryAssumption DEF Init, RegistryIsCurrent, UnusedIsUntouched, JoinsOnce,
                              Callers
<1>3. DisconnectStops /\ LeftMeansGone /\ ClosesOutbound
    BY DEF Init, DisconnectStops, LeftMeansGone, ClosesOutbound
<1> QED
    BY <1>1, <1>2, <1>3 DEF IInv

\* Callers come and go; an agent is dropped.
LEMMA LiveKitKeeps ==
    ASSUME IInv, LiveKit
    PROVE  IInv'
<1>1. TypeOK'
    BY DEF IInv, TypeOK, LiveKit, CallerEnters, CallerLeaves, AgentDropped, roomVars,
           campaignVars, DiscStates, Returned, Callers
<1>2. RegistryIsCurrent'
    BY DEF IInv, TypeOK, LiveKit, CallerEnters, CallerLeaves, AgentDropped, roomVars,
           campaignVars, RegistryIsCurrent
<1>3. UnusedIsUntouched'
    BY DEF IInv, TypeOK, LiveKit, CallerEnters, CallerLeaves, AgentDropped, roomVars,
           campaignVars, UnusedIsUntouched, Callers, Returned
<1>4. JoinsOnce'
    BY DEF IInv, TypeOK, LiveKit, CallerEnters, CallerLeaves, AgentDropped, roomVars,
           campaignVars, JoinsOnce
<1>5. DisconnectStops'
    BY DEF IInv, TypeOK, LiveKit, CallerEnters, CallerLeaves, AgentDropped, roomVars,
           campaignVars, DisconnectStops, Callers, Returned
<1>6. LeftMeansGone'
    BY DEF IInv, TypeOK, LiveKit, CallerEnters, CallerLeaves, AgentDropped, roomVars,
           campaignVars, LeftMeansGone, Callers, Returned
<1>7. ClosesOutbound'
    BY DEF IInv, TypeOK, LiveKit, CallerEnters, CallerLeaves, AgentDropped, roomVars,
           campaignVars, ClosesOutbound
<1> QED
    BY <1>1, <1>2, <1>3, <1>4, <1>5, <1>6, <1>7 DEF IInv

\* What GotoDisc does, point by point.
LEMMA GotoDiscs ==
    ASSUME TypeOK, NEW r \in Rooms, NEW d \in Callers, NEW label \in DiscStates,
           GotoDisc(r, d, label)
    PROVE  /\ disc' \in [Rooms -> [Callers -> DiscStates]]
           /\ \A s \in Rooms, e \in Callers :
                 disc'[s][e] = IF s = r /\ e = d THEN label ELSE disc[s][e]
<1>1. disc' = [disc EXCEPT ![r][d] = label]
    BY DEF GotoDisc
<1>2. [disc[r] EXCEPT ![d] = label] \in [Callers -> DiscStates]
    BY DEF TypeOK
<1>3. disc' \in [Rooms -> [Callers -> DiscStates]]
    BY <1>1, <1>2 DEF TypeOK
<1>4. \A s \in Rooms, e \in Callers :
          disc'[s][e] = IF s = r /\ e = d THEN label ELSE disc[s][e]
    BY <1>1 DEF TypeOK
<1> QED
    BY <1>3, <1>4

\* One disconnect of one object goes on: the room is left with the bridge stopped.
LEMMA DisconnectKeeps ==
    ASSUME IInv, NEW r \in Rooms, NEW d \in Callers, NEW label \in DiscStates \ {"none"},
           GotoDisc(r, d, label), connector[r] # "none",
           d = "webhook" => disc[r]["webhook"] # "none",
           UNCHANGED <<caller, registry, name, origin, connector, campaignVars>>,
           /\ bridge' \in [Rooms -> {"none", "live", "stopped"}]
           /\ joined' \in [Rooms -> BOOLEAN] /\ connected' \in [Rooms -> BOOLEAN]
           /\ \A s \in Rooms \ {r} : UNCHANGED <<bridge[s], joined[s], connected[s]>>,
           \/ UNCHANGED <<bridge[r], joined[r], connected[r]>>
           \/ /\ bridge[r] = "live" /\ bridge'[r] = "stopped"
              /\ UNCHANGED <<joined[r], connected[r]>>
           \/ bridge'[r] = bridge[r] /\ ~joined'[r] /\ ~connected'[r],
           label \in {"stopping", "leaving", "left"} => bridge'[r] = "stopped",
           label = "left" => ~connected'[r]
    PROVE  IInv'
<1>1. /\ disc' \in [Rooms -> [Callers -> DiscStates]]
      /\ \A s \in Rooms, e \in Callers :
            disc'[s][e] = IF s = r /\ e = d THEN label ELSE disc[s][e]
    BY GotoDiscs DEF IInv
<1>2. TypeOK'
    BY <1>1 DEF IInv, TypeOK, campaignVars
<1>3. RegistryIsCurrent'
    BY <1>1 DEF IInv, RegistryIsCurrent, Callers
<1>4. UnusedIsUntouched'
    BY <1>1 DEF IInv, UnusedIsUntouched
<1>5. JoinsOnce'
    BY DEF IInv, JoinsOnce
<1>6. \A s \in Rooms : bridge[s] = "stopped" => bridge'[s] = "stopped"
    OBVIOUS
<1>7. DisconnectStops'
    BY <1>1, <1>6 DEF IInv, DisconnectStops
<1>8. \A s \in Rooms : /\ ~joined[s] => ~joined'[s]
                       /\ ~connected[s] => ~connected'[s]
    OBVIOUS
<1>9. LeftMeansGone'
    <2> SUFFICES ASSUME NEW s \in Rooms, NEW e \in Callers, disc'[s][e] = "left"
                 PROVE  ~joined'[s] /\ ~connected'[s] /\ bridge'[s] = "stopped"
        BY DEF LeftMeansGone
    <2>1. CASE s = r /\ e = d
        BY <1>1, <1>5, <2>1 DEF JoinsOnce
    <2>2. CASE ~(s = r /\ e = d)
        <3>1. disc[s][e] = "left"
            BY <1>1, <2>2
        <3> QED
            BY <1>6, <1>8, <3>1 DEF IInv, LeftMeansGone
    <2> QED
        BY <2>1, <2>2
<1>10. ClosesOutbound'
    BY DEF IInv, ClosesOutbound, campaignVars
<1> QED
    BY <1>2, <1>3, <1>4, <1>5, <1>7, <1>9, <1>10 DEF IInv

\* disconnect begins: a live bridge is stopped first.
LEMMA BeginDisconnectKeeps ==
    ASSUME IInv, NEW r \in Rooms, NEW d \in Callers, BeginDisconnect(r, d),
           connector[r] # "none", d = "webhook" => disc[r]["webhook"] # "none",
           UNCHANGED <<caller, registry, name, origin, connector, connected, joined,
                       campaignVars>>
    PROVE  IInv'
<1>1. {"stopping", "leaving", "nothing"} \subseteq DiscStates \ {"none"}
    BY DEF DiscStates, Returned
<1>2. joined \in [Rooms -> BOOLEAN] /\ connected \in [Rooms -> BOOLEAN]
    BY DEF IInv, TypeOK
<1>3. CASE bridge[r] = "live"
    <2>1. bridge' = [bridge EXCEPT ![r] = "stopped"] /\ GotoDisc(r, d, "stopping")
        BY <1>3 DEF BeginDisconnect
    <2>2. /\ bridge' \in [Rooms -> {"none", "live", "stopped"}]
          /\ bridge'[r] = "stopped" /\ \A s \in Rooms \ {r} : bridge'[s] = bridge[s]
        BY <2>1 DEF IInv, TypeOK
    <2> QED
        BY <1>1, <1>2, <1>3, <2>1, <2>2, DisconnectKeeps
<1>4. CASE bridge[r] # "live" /\ connected[r]
    <2>1. bridge' = bridge /\ GotoDisc(r, d, "leaving")
        BY <1>4 DEF BeginDisconnect
    <2>2. bridge[r] = "stopped" /\ bridge \in [Rooms -> {"none", "live", "stopped"}]
        BY <1>4 DEF IInv, TypeOK, JoinsOnce
    <2> QED
        BY <1>1, <1>2, <2>1, <2>2, DisconnectKeeps
<1>5. CASE bridge[r] # "live" /\ ~connected[r]
    <2>1. bridge' = bridge /\ GotoDisc(r, d, "nothing")
        BY <1>5 DEF BeginDisconnect
    <2>2. bridge \in [Rooms -> {"none", "live", "stopped"}]
        BY DEF IInv, TypeOK
    <2> QED
        BY <1>1, <1>2, <2>1, <2>2, DisconnectKeeps
<1> QED
    BY <1>3, <1>4, <1>5

LEMMA DisconnectRunsKeeps ==
    ASSUME IInv, NEW r \in Rooms, DisconnectRuns(r)
    PROVE  IInv'
<1>1. disc[r]["webhook"] = "called" /\ "webhook" \in Callers
    BY DEF DisconnectRuns, Callers
<1>2. connector[r] # "none"
    BY <1>1 DEF IInv, UnusedIsUntouched
<1> QED
    BY <1>1, <1>2, BeginDisconnectKeeps DEF DisconnectRuns

\* A disconnect that goes on has an object to disconnect.
LEMMA Disconnecting ==
    ASSUME IInv, NEW r \in Rooms, NEW d \in Callers, disc[r][d] \in {"stopping", "leaving"}
    PROVE  /\ connector[r] # "none" /\ (d = "webhook" => disc[r]["webhook"] # "none")
           /\ bridge[r] = "stopped"
           /\ bridge \in [Rooms -> {"none", "live", "stopped"}]
           /\ joined \in [Rooms -> BOOLEAN] /\ connected \in [Rooms -> BOOLEAN]
           /\ {"leaving", "left", "raised"} \subseteq DiscStates \ {"none"}
    BY DEF IInv, TypeOK, UnusedIsUntouched, DisconnectStops, DiscStates, Returned

LEMMA BridgeStoppedKeeps ==
    ASSUME IInv, NEW r \in Rooms, NEW d \in Callers, BridgeStopped(r, d)
    PROVE  IInv'
<1>1. UNCHANGED <<caller, registry, name, origin, connector, connected, joined, bridge,
                  campaignVars>>
    BY DEF BridgeStopped
<1>2. disc[r][d] = "stopping"
    BY DEF BridgeStopped
<1>3. CASE connected[r]
    BY <1>1, <1>2, <1>3, Disconnecting, DisconnectKeeps DEF BridgeStopped
<1>4. CASE ~connected[r]
    BY <1>1, <1>2, <1>4, Disconnecting, DisconnectKeeps DEF BridgeStopped
<1> QED
    BY <1>3, <1>4

LEMMA LeaveRoomKeeps ==
    ASSUME IInv, NEW r \in Rooms, NEW d \in Callers, LeaveRoom(r, d)
    PROVE  IInv'
<1>1. /\ disc[r][d] = "leaving"
      /\ UNCHANGED <<caller, registry, name, origin, connector, bridge, campaignVars>>
    BY DEF LeaveRoom
<1>2. CASE GotoDisc(r, d, "raised") /\ UNCHANGED <<joined, connected>>
    BY <1>1, <1>2, Disconnecting, DisconnectKeeps
<1>3. CASE /\ GotoDisc(r, d, "left")
           /\ joined' = [joined EXCEPT ![r] = FALSE]
           /\ connected' = [connected EXCEPT ![r] = FALSE]
    <2>1. /\ joined' \in [Rooms -> BOOLEAN] /\ ~joined'[r]
          /\ connected' \in [Rooms -> BOOLEAN] /\ ~connected'[r]
          /\ \A s \in Rooms \ {r} : joined'[s] = joined[s] /\ connected'[s] = connected[s]
        BY <1>3 DEF IInv, TypeOK
    <2> QED
        BY <1>1, <1>3, <2>1, Disconnecting, DisconnectKeeps
<1> QED
    BY <1>2, <1>3 DEF LeaveRoom

\* The agent joins.
LEMMA JoinRoomKeeps ==
    ASSUME IInv, NEW r \in Rooms, JoinRoom(r)
    PROVE  IInv'
<1>1. TypeOK'
    BY DEF IInv, TypeOK, JoinRoom, Goto, campaignVars, DiscStates, Returned, Callers
<1>2. RegistryIsCurrent'
    BY DEF IInv, TypeOK, JoinRoom, Goto, campaignVars, RegistryIsCurrent
<1>3. UnusedIsUntouched'
    BY DEF IInv, TypeOK, JoinRoom, Goto, campaignVars, UnusedIsUntouched, Callers,
           Returned
<1>4. JoinsOnce'
    BY DEF IInv, TypeOK, JoinRoom, Goto, campaignVars, JoinsOnce
<1>8. \A d \in Callers : disc[r][d] \notin {"stopping", "leaving", "left"}
    BY DEF IInv, JoinRoom, JoinsOnce, DisconnectStops
<1>9. /\ disc' = disc
      /\ \A s \in Rooms \ {r} : UNCHANGED <<bridge[s], joined[s], connected[s]>>
    BY DEF IInv, TypeOK, JoinRoom
<1>5. DisconnectStops'
    BY <1>8, <1>9 DEF IInv, DisconnectStops
<1>6. LeftMeansGone'
    BY <1>8, <1>9 DEF IInv, LeftMeansGone
<1>7. ClosesOutbound'
    BY DEF IInv, TypeOK, JoinRoom, Goto, campaignVars, ClosesOutbound
<1> QED
    BY <1>1, <1>2, <1>3, <1>4, <1>5, <1>6, <1>7 DEF IInv

\* The bridge is started.
LEMMA StartCompletesKeeps ==
    ASSUME IInv, NEW r \in Rooms, StartCompletes(r)
    PROVE  IInv'
<1>1. TypeOK'
    BY DEF IInv, TypeOK, StartCompletes, Goto, campaignVars, DiscStates, Returned,
           Callers
<1>2. RegistryIsCurrent'
    BY DEF IInv, TypeOK, StartCompletes, Goto, campaignVars, RegistryIsCurrent
<1>3. UnusedIsUntouched'
    BY DEF IInv, TypeOK, StartCompletes, Goto, campaignVars, UnusedIsUntouched,
           Callers, Returned
<1>4. JoinsOnce'
    BY DEF IInv, TypeOK, StartCompletes, Goto, campaignVars, JoinsOnce
<1>5. DisconnectStops'
    BY DEF IInv, TypeOK, StartCompletes, Goto, campaignVars, DisconnectStops, Callers,
           Returned
<1>6. LeftMeansGone'
    BY DEF IInv, TypeOK, StartCompletes, Goto, campaignVars, LeftMeansGone, Callers,
           Returned
<1>7. ClosesOutbound'
    BY DEF IInv, TypeOK, StartCompletes, Goto, campaignVars, ClosesOutbound
<1> QED
    BY <1>1, <1>2, <1>3, <1>4, <1>5, <1>6, <1>7 DEF IInv

\* The bridge cannot be started.
LEMMA StartFailsKeeps ==
    ASSUME IInv, NEW r \in Rooms, StartFails(r)
    PROVE  IInv'
<1>1. TypeOK'
    BY DEF IInv, TypeOK, StartFails, Goto, GotoDisc, campaignVars, DiscStates,
           Returned, Callers
<1>2. RegistryIsCurrent'
    BY DEF IInv, TypeOK, StartFails, Goto, GotoDisc, campaignVars, RegistryIsCurrent
<1>3. UnusedIsUntouched'
    BY DEF IInv, TypeOK, StartFails, Goto, GotoDisc, campaignVars, UnusedIsUntouched,
           Callers, Returned
<1>4. JoinsOnce'
    BY DEF IInv, TypeOK, StartFails, Goto, GotoDisc, campaignVars, JoinsOnce
<1>5. DisconnectStops'
    BY DEF IInv, TypeOK, StartFails, Goto, GotoDisc, campaignVars, DisconnectStops,
           Callers, Returned
<1>6. LeftMeansGone'
    BY DEF IInv, TypeOK, StartFails, Goto, GotoDisc, campaignVars, LeftMeansGone,
           Callers, Returned
<1>7. ClosesOutbound'
    BY DEF IInv, TypeOK, StartFails, Goto, GotoDisc, campaignVars, ClosesOutbound
<1> QED
    BY <1>1, <1>2, <1>3, <1>4, <1>5, <1>6, <1>7 DEF IInv

\* connect raises, and the name is forgotten.
LEMMA WebhookConnectFailsKeeps ==
    ASSUME IInv, NEW r \in Rooms, WebhookConnectFails(r)
    PROVE  IInv'
<1>1. TypeOK'
    BY RegistryAssumption DEF IInv, TypeOK, WebhookConnectFails, Raising, Forget, Goto,
                              campaignVars, DiscStates, Returned, Callers
<1>2. RegistryIsCurrent'
    BY RegistryAssumption DEF IInv, TypeOK, WebhookConnectFails, Raising, Forget, Goto,
                              campaignVars, RegistryIsCurrent
<1>3. UnusedIsUntouched'
    BY RegistryAssumption DEF IInv, TypeOK, WebhookConnectFails, Raising, Forget, Goto,
                              campaignVars, UnusedIsUntouched, Callers, Returned
<1>4. JoinsOnce'
    BY RegistryAssumption DEF IInv, TypeOK, WebhookConnectFails, Raising, Forget, Goto,
                              campaignVars, JoinsOnce
<1>5. DisconnectStops'
    BY RegistryAssumption DEF IInv, TypeOK, WebhookConnectFails, Raising, Forget, Goto,
                              campaignVars, DisconnectStops, Callers, Returned
<1>6. LeftMeansGone'
    BY RegistryAssumption DEF IInv, TypeOK, WebhookConnectFails, Raising, Forget, Goto,
                              campaignVars, LeftMeansGone, Callers, Returned
<1>7. ClosesOutbound'
    BY RegistryAssumption DEF IInv, TypeOK, WebhookConnectFails, Raising, Forget, Goto,
                              campaignVars, ClosesOutbound
<1> QED
    BY <1>1, <1>2, <1>3, <1>4, <1>5, <1>6, <1>7 DEF IInv

\* connect raises, and the call is about to be hung up.
LEMMA DialConnectFailsKeeps ==
    ASSUME IInv, NEW r \in Rooms, DialConnectFails(r)
    PROVE  IInv'
<1>1. TypeOK'
    BY DEF IInv, TypeOK, DialConnectFails, Raising, Goto, campaignVars, DiscStates,
           Returned, Callers
<1>2. RegistryIsCurrent'
    BY DEF IInv, TypeOK, DialConnectFails, Raising, Goto, campaignVars,
           RegistryIsCurrent
<1>3. UnusedIsUntouched'
    BY DEF IInv, TypeOK, DialConnectFails, Raising, Goto, campaignVars,
           UnusedIsUntouched, Callers, Returned
<1>4. JoinsOnce'
    BY DEF IInv, TypeOK, DialConnectFails, Raising, Goto, campaignVars, JoinsOnce
<1>5. DisconnectStops'
    BY DEF IInv, TypeOK, DialConnectFails, Raising, Goto, campaignVars,
           DisconnectStops, Callers, Returned
<1>6. LeftMeansGone'
    BY DEF IInv, TypeOK, DialConnectFails, Raising, Goto, campaignVars, LeftMeansGone,
           Callers, Returned
<1>7. ClosesOutbound'
    BY DEF IInv, TypeOK, DialConnectFails, Raising, Goto, campaignVars, ClosesOutbound
<1> QED
    BY <1>1, <1>2, <1>3, <1>4, <1>5, <1>6, <1>7 DEF IInv

\* The call is hung up, and the name forgotten.
LEMMA HungUpKeeps ==
    ASSUME IInv, NEW r \in Rooms, HungUp(r)
    PROVE  IInv'
<1>1. TypeOK'
    BY RegistryAssumption DEF IInv, TypeOK, HungUp, Forget, Goto, campaignVars,
                              DiscStates, Returned, Callers
<1>2. RegistryIsCurrent'
    BY RegistryAssumption DEF IInv, TypeOK, HungUp, Forget, Goto, campaignVars,
                              RegistryIsCurrent
<1>3. UnusedIsUntouched'
    BY RegistryAssumption DEF IInv, TypeOK, HungUp, Forget, Goto, campaignVars,
                              UnusedIsUntouched, Callers, Returned
<1>4. JoinsOnce'
    BY RegistryAssumption DEF IInv, TypeOK, HungUp, Forget, Goto, campaignVars,
                              JoinsOnce
<1>5. DisconnectStops'
    BY RegistryAssumption DEF IInv, TypeOK, HungUp, Forget, Goto, campaignVars,
                              DisconnectStops, Callers, Returned
<1>6. LeftMeansGone'
    BY RegistryAssumption DEF IInv, TypeOK, HungUp, Forget, Goto, campaignVars,
                              LeftMeansGone, Callers, Returned
<1>7. ClosesOutbound'
    BY RegistryAssumption DEF IInv, TypeOK, HungUp, Forget, Goto, campaignVars,
                              ClosesOutbound
<1> QED
    BY <1>1, <1>2, <1>3, <1>4, <1>5, <1>6, <1>7 DEF IInv

LEMMA NewRoomIsUnused == Unused # {} => NewRoom \in Rooms /\ connector[NewRoom] = "none"
    BY DEF Unused, NewRoom

\* A new object is registered.
LEMMA RegisterKeeps ==
    ASSUME IInv, NEW n \in Names, NEW by \in {"webhook", "dial"},
           UNCHANGED <<caller, campaign, closing>>,
           dial' \in [Outbound -> {"queued", "creating", "dialing", "error"}],
           Register(n, by)
    PROVE  IInv'
<1>1. TypeOK'
    BY NewRoomIsUnused, RegistryAssumption DEF IInv, TypeOK, Register, Goto,
                                               DiscStates, Returned, Callers
<1>2. RegistryIsCurrent'
    <2>1. NewRoom \in Rooms /\ connector[NewRoom] = "none"
        BY NewRoomIsUnused DEF Register
    <2>2. /\ name[NewRoom] = NoName /\ disc[NewRoom]["webhook"] = "none"
          /\ \A m \in Names : registry[m] # NewRoom
        BY <2>1, RegistryAssumption
        DEF IInv, UnusedIsUntouched, RegistryIsCurrent, Callers, Names
    <2>3. /\ registry'[n] = NewRoom
          /\ name'[NewRoom] = n /\ connector'[NewRoom] = "connecting"
          /\ \A m \in Names \ {n} : registry'[m] = registry[m]
          /\ \A r \in Rooms \ {NewRoom} : name'[r] = name[r] /\ connector'[r] = connector[r]
          /\ disc' = disc
        BY <2>1 DEF IInv, TypeOK, Register, Goto
    <2> QED
        BY <2>2, <2>3 DEF IInv, RegistryIsCurrent
<1>3. UnusedIsUntouched'
    BY NewRoomIsUnused, RegistryAssumption DEF IInv, TypeOK, Register, Goto,
                                               UnusedIsUntouched, Callers, Returned
<1>4. JoinsOnce'
    BY NewRoomIsUnused, RegistryAssumption DEF IInv, TypeOK, Register, Goto, JoinsOnce
<1>5. DisconnectStops'
    BY NewRoomIsUnused, RegistryAssumption DEF IInv, TypeOK, Register, Goto,
                                               DisconnectStops, Callers, Returned
<1>6. LeftMeansGone'
    BY NewRoomIsUnused, RegistryAssumption DEF IInv, TypeOK, Register, Goto,
                                               LeftMeansGone, Callers, Returned
<1>7. ClosesOutbound'
    BY NewRoomIsUnused, RegistryAssumption DEF IInv, TypeOK, Register, Goto,
                                               ClosesOutbound
<1> QED
    BY <1>1, <1>2, <1>3, <1>4, <1>5, <1>6, <1>7 DEF IInv

\* A webhook takes an object out.
LEMMA TakeOutKeeps ==
    ASSUME IInv, NEW n \in Names, TakeOut(n)
    PROVE  IInv'
<1>1. TypeOK'
    BY RegistryAssumption DEF IInv, TypeOK, TakeOut, Forget, GotoDisc, campaignVars,
                              DiscStates, Returned, Callers
<1>2. RegistryIsCurrent'
    BY RegistryAssumption DEF IInv, TypeOK, TakeOut, Forget, GotoDisc, campaignVars,
                              RegistryIsCurrent
<1>3. UnusedIsUntouched'
    <2> DEFINE r == registry[n]
    <2>1. r \in Rooms /\ connector[r] # "none"
        BY RegistryAssumption DEF IInv, TypeOK, TakeOut, RegistryIsCurrent,
                                  UnusedIsUntouched, Names
    <2>2. \A s \in Rooms \ {r} : disc'[s] = disc[s]
        BY <2>1 DEF IInv, TypeOK, TakeOut, GotoDisc
    <2>3. UNCHANGED <<connector, name>>
        BY DEF TakeOut
    <2> QED
        BY <2>1, <2>2, <2>3 DEF IInv, UnusedIsUntouched
<1>4. JoinsOnce'
    BY RegistryAssumption DEF IInv, TypeOK, TakeOut, Forget, GotoDisc, campaignVars,
                              JoinsOnce
<1>5. DisconnectStops'
    BY RegistryAssumption DEF IInv, TypeOK, TakeOut, Forget, GotoDisc, campaignVars,
                              DisconnectStops, Callers, Returned
<1>6. LeftMeansGone'
    BY RegistryAssumption DEF IInv, TypeOK, TakeOut, Forget, GotoDisc, campaignVars,
                              LeftMeansGone, Callers, Returned
<1>7. ClosesOutbound'
    BY RegistryAssumption DEF IInv, TypeOK, TakeOut, Forget, GotoDisc, campaignVars,
                              ClosesOutbound
<1> QED
    BY <1>1, <1>2, <1>3, <1>4, <1>5, <1>6, <1>7 DEF IInv

\* The SIP participant is asked for, or refused.
LEMMA DialKeeps ==
    ASSUME IInv, NEW n \in Outbound, Dial(n) \/ SipFails(n)
    PROVE  IInv'
<1>1. TypeOK'
    BY DEF IInv, TypeOK, Dial, SipFails, GotoDial, roomVars, DiscStates, Returned,
           Callers
<1>2. RegistryIsCurrent'
    BY DEF IInv, TypeOK, Dial, SipFails, GotoDial, roomVars, RegistryIsCurrent
<1>3. UnusedIsUntouched'
    BY DEF IInv, TypeOK, Dial, SipFails, GotoDial, roomVars, UnusedIsUntouched,
           Callers, Returned
<1>4. JoinsOnce'
    BY DEF IInv, TypeOK, Dial, SipFails, GotoDial, roomVars, JoinsOnce
<1>5. DisconnectStops'
    BY DEF IInv, TypeOK, Dial, SipFails, GotoDial, roomVars, DisconnectStops, Callers,
           Returned
<1>6. LeftMeansGone'
    BY DEF IInv, TypeOK, Dial, SipFails, GotoDial, roomVars, LeftMeansGone, Callers,
           Returned
<1>7. ClosesOutbound'
    BY DEF IInv, TypeOK, Dial, SipFails, GotoDial, roomVars, ClosesOutbound
<1> QED
    BY <1>1, <1>2, <1>3, <1>4, <1>5, <1>6, <1>7 DEF IInv

\* The snapshot is taken.
LEMMA CloseBeginsKeeps ==
    ASSUME IInv, CloseBegins \/ CloseEnds
    PROVE  IInv'
<1>1. TypeOK'
    BY RegistryAssumption DEF IInv, TypeOK, CloseBegins, CloseEnds, Snapshot, Names,
                              roomVars, DiscStates, Returned, Callers
<1>2. RegistryIsCurrent'
    BY RegistryAssumption DEF IInv, TypeOK, CloseBegins, CloseEnds, Snapshot, Names,
                              roomVars, RegistryIsCurrent
<1>3. UnusedIsUntouched'
    BY RegistryAssumption DEF IInv, TypeOK, CloseBegins, CloseEnds, Snapshot, Names,
                              roomVars, UnusedIsUntouched, Callers, Returned
<1>4. JoinsOnce'
    BY RegistryAssumption DEF IInv, TypeOK, CloseBegins, CloseEnds, Snapshot, Names,
                              roomVars, JoinsOnce
<1>5. DisconnectStops'
    BY RegistryAssumption DEF IInv, TypeOK, CloseBegins, CloseEnds, Snapshot, Names,
                              roomVars, DisconnectStops, Callers, Returned
<1>6. LeftMeansGone'
    BY RegistryAssumption DEF IInv, TypeOK, CloseBegins, CloseEnds, Snapshot, Names,
                              roomVars, LeftMeansGone, Callers, Returned
<1>7. ClosesOutbound'
    <2>1. CASE CloseEnds
        BY <2>1 DEF IInv, CloseEnds, roomVars, ClosesOutbound
    <2>2. CASE CloseBegins
        <3>1. closing' = Snapshot /\ connector' = connector
            BY <2>2 DEF CloseBegins, roomVars
        <3>2. \A m \in Outbound : registry[m] # NoRoom =>
                  registry[m] \in Rooms /\ connector[registry[m]] # "none"
            BY RegistryAssumption
            DEF IInv, TypeOK, RegistryIsCurrent, UnusedIsUntouched, Names
        <3>3. Snapshot \subseteq Outbound \X Rooms
            BY <3>2 DEF Snapshot
        <3>4. ASSUME NEW m \in Outbound, NEW s \in Rooms, <<m, s>> \in Snapshot
              PROVE  connector[s] # "none"
            BY <3>2, <3>4 DEF Snapshot
        <3> QED
            BY <3>1, <3>3, <3>4 DEF ClosesOutbound
    <2> QED
        BY <2>1, <2>2
<1> QED
    BY <1>1, <1>2, <1>3, <1>4, <1>5, <1>6, <1>7 DEF IInv

LEMMA CloseDisconnectsKeeps ==
    ASSUME IInv, NEW n \in Names, NEW r \in Rooms, CloseDisconnects(n, r)
    PROVE  IInv'
<1>1. connector[r] # "none"
    BY DEF IInv, ClosesOutbound, CloseDisconnects
<1>2. "close" \in Callers
    BY DEF Callers
<1> QED
    BY <1>1, <1>2, BeginDisconnectKeeps DEF CloseDisconnects

\* close forgets one.
LEMMA CloseForgetsKeeps ==
    ASSUME IInv, NEW n \in Names, NEW r \in Rooms, CloseForgets(n, r)
    PROVE  IInv'
<1>1. TypeOK'
    BY RegistryAssumption DEF IInv, TypeOK, CloseForgets, Forget, roomVars, DiscStates,
                              Returned, Callers
<1>2. RegistryIsCurrent'
    BY RegistryAssumption DEF IInv, TypeOK, CloseForgets, Forget, roomVars,
                              RegistryIsCurrent
<1>3. UnusedIsUntouched'
    BY RegistryAssumption DEF IInv, TypeOK, CloseForgets, Forget, roomVars,
                              UnusedIsUntouched, Callers, Returned
<1>4. JoinsOnce'
    BY RegistryAssumption DEF IInv, TypeOK, CloseForgets, Forget, roomVars, JoinsOnce
<1>5. DisconnectStops'
    BY RegistryAssumption DEF IInv, TypeOK, CloseForgets, Forget, roomVars,
                              DisconnectStops, Callers, Returned
<1>6. LeftMeansGone'
    BY RegistryAssumption DEF IInv, TypeOK, CloseForgets, Forget, roomVars,
                              LeftMeansGone, Callers, Returned
<1>7. ClosesOutbound'
    BY RegistryAssumption DEF IInv, TypeOK, CloseForgets, Forget, roomVars,
                              ClosesOutbound
<1> QED
    BY <1>1, <1>2, <1>3, <1>4, <1>5, <1>6, <1>7 DEF IInv

-----------------------------------------------------------------------------
(* The theorems *)

\* A step, or none, keeps the invariant.
LEMMA StepKeeps ==
    ASSUME IInv, [Next]_vars
    PROVE  IInv'
<1>1. CASE UNCHANGED vars
    BY <1>1
    DEF vars, roomVars, campaignVars, IInv, TypeOK, RegistryIsCurrent, UnusedIsUntouched,
        JoinsOnce, DisconnectStops, LeftMeansGone, ClosesOutbound
<1>2. ASSUME NEW n \in Names, RoomStarted(n)
      PROVE  IInv'
    <2>1. Register(n, "webhook") /\ UNCHANGED <<caller, dial, campaign, closing>>
        BY <1>2 DEF RoomStarted, campaignVars
    <2>2. dial' \in [Outbound -> {"queued", "creating", "dialing", "error"}]
        BY <2>1 DEF IInv, TypeOK
    <2> QED
        BY <2>1, <2>2, RegisterKeeps
<1>3. ASSUME NEW n \in Outbound, SipCreated(n)
      PROVE  IInv'
    <2>1. n \in Names /\ Register(n, "dial") /\ UNCHANGED <<caller, campaign, closing>>
        BY <1>3 DEF SipCreated, Names
    <2>2. dial' \in [Outbound -> {"queued", "creating", "dialing", "error"}]
        BY <1>3 DEF IInv, TypeOK, SipCreated, GotoDial
    <2> QED
        BY <2>1, <2>2, RegisterKeeps
<1>4. CASE LiveKit
    BY <1>4, LiveKitKeeps
<1>5. ASSUME NEW n \in Names, Webhook(n)
      PROVE  IInv'
    BY <1>2, <1>5, TakeOutKeeps DEF Webhook, RoomFinished, ParticipantLeft
<1>6. ASSUME NEW r \in Rooms, Connect(r)
      PROVE  IInv'
    BY <1>6, JoinRoomKeeps, StartCompletesKeeps, StartFailsKeeps, WebhookConnectFailsKeeps,
       DialConnectFailsKeeps, HungUpKeeps DEF Connect
<1>7. ASSUME NEW r \in Rooms, Disconnect(r)
      PROVE  IInv'
    BY <1>7, DisconnectRunsKeeps, BridgeStoppedKeeps, LeaveRoomKeeps DEF Disconnect
<1>8. ASSUME NEW n \in Outbound, DialStep(n)
      PROVE  IInv'
    BY <1>3, <1>8, DialKeeps DEF DialStep
<1>9. CASE CloseStep
    BY <1>9, CloseBeginsKeeps, CloseDisconnectsKeeps, CloseForgetsKeeps DEF CloseStep
<1> QED
    BY <1>1, <1>4, <1>5, <1>6, <1>7, <1>8, <1>9 DEF Next

\* The invariant of the argument above.
THEOREM InductiveInvariant == Spec => []IInv
    BY InitIInv, StepKeeps, PTL DEF Spec, Safety

\* The variables keep their types.
THEOREM TypeCorrectness == Spec => []TypeOK
<1>1. IInv => TypeOK
    BY DEF IInv
<1> QED
    BY <1>1, InductiveInvariant, PTL

\* The registry holds current objects only (active_rooms).
THEOREM RegisteredIsCurrent == Spec => []RegistryIsCurrent
<1>1. IInv => RegistryIsCurrent
    BY DEF IInv
<1> QED
    BY <1>1, InductiveInvariant, PTL

\* A disconnect that left the room took everything along (KoyalRoom.disconnect).
THEOREM LeavingIsComplete == Spec => []LeftMeansGone
<1>1. IInv => LeftMeansGone
    BY DEF IInv
<1> QED
    BY <1>1, InductiveInvariant, PTL

\* No campaign takes an inbound call along (close, livekit_webhook).
THEOREM InboundStays == Spec => InboundUndisturbed
<1> DEFINE Undisturbed ==
        \A n \in Inbound : registry[n] # NoRoom /\ registry'[n] # registry[n] =>
            \/ caller[n] = "left"
            \/ \E r \in Rooms : /\ name[r] = n
                                /\ connector[r] # "failed" /\ connector'[r] = "failed"
<1>1. IInv /\ [Next]_vars => [Undisturbed]_vars
    <2> SUFFICES ASSUME IInv, Next, NEW n \in Inbound,
                        registry[n] # NoRoom, registry'[n] # registry[n]
                 PROVE  \/ caller[n] = "left"
                        \/ \E r \in Rooms : /\ name[r] = n
                                            /\ connector[r] # "failed"
                                            /\ connector'[r] = "failed"
        OBVIOUS
    <2>1. /\ n \in Names /\ n \notin Outbound
          /\ \A m \in Names : registry[m] \in Rooms \cup {NoRoom}
        BY RegistryAssumption DEF IInv, TypeOK, Names
    <2>2. ASSUME NEW m \in Names, NEW by, Register(m, by)
          PROVE  m = n
        BY <2>1, <2>2 DEF IInv, TypeOK, Register
    <2>3. ASSUME NEW m \in Names, Forget(m)
          PROVE  m = n
        BY <2>1, <2>3 DEF IInv, TypeOK, Forget
    <2>4. ASSUME NEW r \in Rooms, Forget(name[r])
          PROVE  name[r] = n
        BY <2>1, <2>4 DEF IInv, TypeOK, Forget
    <2>5. CASE LiveKit
        BY <2>5 DEF LiveKit, CallerEnters, CallerLeaves, AgentDropped
    <2>6. ASSUME NEW m \in Names, Webhook(m)
          PROVE  caller[n] = "left"
        BY <2>2, <2>3, <2>6 DEF Webhook, RoomStarted, RoomFinished, ParticipantLeft,
                                TakeOut
    <2>7. ASSUME NEW r \in Rooms, Connect(r)
          PROVE  name[r] = n /\ connector[r] # "failed" /\ connector'[r] = "failed"
        <3>1. WebhookConnectFails(r) \/ HungUp(r)
            BY <2>7 DEF Connect, JoinRoom, StartCompletes, StartFails, DialConnectFails
        <3>2. connector[r] # "failed" /\ connector' = [connector EXCEPT ![r] = "failed"]
            BY <3>1 DEF WebhookConnectFails, HungUp, Raising, Goto
        <3>3. Forget(name[r])
            BY <3>1 DEF WebhookConnectFails, HungUp
        <3> QED
            BY <2>4, <3>2, <3>3 DEF IInv, TypeOK
    <2>8. ASSUME NEW r \in Rooms, Disconnect(r)
          PROVE  FALSE
        BY <2>8 DEF Disconnect, DisconnectRuns, BridgeStopped, LeaveRoom
    <2>9. ASSUME NEW m \in Outbound, DialStep(m)
          PROVE  FALSE
        <3>1. m \in Names /\ m # n
            BY <2>1 DEF Names
        <3> QED
            BY <2>2, <2>9, <3>1 DEF DialStep, Dial, SipCreated, SipFails
    <2>10. CASE CloseStep
        <3>1. PICK m \in Names, r \in Rooms : CloseForgets(m, r)
            BY <2>10 DEF CloseStep, CloseBegins, CloseDisconnects, CloseEnds
        <3>2. m \in Outbound /\ Forget(m)
            BY <3>1 DEF IInv, ClosesOutbound, CloseForgets
        <3> QED
            BY <2>1, <2>3, <3>2
    <2> QED
        BY <2>5, <2>6, <2>7, <2>8, <2>9, <2>10 DEF Next
<1> QED
    BY <1>1, InductiveInvariant, PTL DEF Spec, Safety, InboundUndisturbed

-----------------------------------------------------------------------------
(* The campaign: how many calls it makes at once, and why it gets on *)

\* The calls whose SIP participant is being created.
Creating == {n \in Outbound : dial[n] = "creating"}

\* max_concurrent is what it says, however fast calls fail, ring or are answered.
SemaphoreRespected == Cardinality(Creating) <= MaxConcurrent

\* close awaits disconnect itself; only webhooks leave it to a task.
CloseIsAwaited == \A r \in Rooms : disc[r]["close"] # "called"

\* In every state something that launch_campaign awaits can go on: a dial that may
\* be given up or begun, or an entry of the snapshot that may be disconnected,
\* stopped, left or forgotten; or the phase is over.
CampaignNeverStuck ==
    /\ campaign = "dialing" =>
          \/ \A n \in Outbound : dial[n] \in {"dialing", "error"}
          \/ Creating # {}
          \/ Cardinality(Creating) < MaxConcurrent /\ \E n \in Outbound : dial[n] = "queued"
    /\ campaign = "closing" =>
          \/ \A entry \in closing : disc[entry[2]]["close"] = "none"
          \/ \E entry \in closing : disc[entry[2]]["close"] \in {"stopping", "leaving"}
          \/ \E entry \in closing : disc[entry[2]]["close"] \in Returned

\* What is left for a call, a disconnect and the campaign to do.
DialsLeft == [queued |-> 2, creating |-> 1, dialing |-> 0, error |-> 0]
DiscLeft == [none |-> 4, called |-> 3, stopping |-> 2, leaving |-> 1,
             left |-> 0, nothing |-> 0, raised |-> 0]
PhasesLeft == [dialing |-> 2, closing |-> 1, done |-> 0]

\* A campaign calls no number twice, disconnects no room twice and adds nothing to
\* what it has to close: each of its steps brings it nearer to its end, and no
\* webhook, connect or caller sets it back.
CampaignMovesOn ==
    [][/\ \A n \in Outbound : dial'[n] # dial[n] => DialsLeft[dial'[n]] < DialsLeft[dial[n]]
       /\ \A r \in Rooms : disc'[r]["close"] # disc[r]["close"] =>
             DiscLeft[disc'[r]["close"]] < DiscLeft[disc[r]["close"]]
       /\ campaign' # campaign => PhasesLeft[campaign'] < PhasesLeft[campaign]
       /\ campaign = "closing" => closing' \subseteq closing]_vars

\* Only Dial makes a call that is being created, and it looks at the semaphore.
LEMMA SemaphoreStep ==
    ASSUME IInv, SemaphoreRespected, [Next]_vars
    PROVE  SemaphoreRespected'
<1>0. IsFiniteSet(Outbound) /\ MaxConcurrent \in Nat
    BY RegistryAssumption
<1>1. IsFiniteSet(Creating) /\ Cardinality(Creating) \in Nat
    BY <1>0, FS_Subset, FS_CardinalityType DEF Creating
<1>2. CASE Creating' \subseteq Creating
    <2>1. Cardinality(Creating') \in Nat /\ Cardinality(Creating') <= Cardinality(Creating)
        BY <1>1, <1>2, FS_Subset, FS_CardinalityType
    <2> QED
        BY <1>0, <1>1, <2>1 DEF SemaphoreRespected
<1>3. ASSUME NEW n \in Outbound, Dial(n) PROVE SemaphoreRespected'
    <2>1. /\ dial[n] = "queued" /\ Cardinality(Creating) < MaxConcurrent
          /\ dial' = [dial EXCEPT ![n] = "creating"]
        BY <1>3 DEF Dial, GotoDial, Creating
    <2>2. Creating' = Creating \cup {n} /\ n \notin Creating
        BY <2>1 DEF Creating, IInv, TypeOK
    <2>3. Cardinality(Creating') = Cardinality(Creating) + 1
        BY <1>1, <2>2, FS_AddElement
    <2> QED
        BY <1>0, <1>1, <2>1, <2>3 DEF SemaphoreRespected
<1>4. ASSUME NEW n \in Outbound, SipCreated(n) \/ SipFails(n)
      PROVE  Creating' \subseteq Creating
    BY <1>4 DEF SipCreated, SipFails, GotoDial, Creating, IInv, TypeOK
<1>5. ASSUME UNCHANGED dial PROVE Creating' \subseteq Creating
    BY <1>5 DEF Creating
<1>6. CASE LiveKit \/ CloseStep \/ UNCHANGED vars
    BY <1>2, <1>5, <1>6
    DEF LiveKit, CallerEnters, CallerLeaves, AgentDropped, CloseStep, CloseBegins,
        CloseDisconnects, CloseForgets, CloseEnds, vars, campaignVars
<1>7. ASSUME NEW n \in Names, Webhook(n) PROVE SemaphoreRespected'
    BY <1>2, <1>5, <1>7
    DEF Webhook, RoomStarted, RoomFinished, ParticipantLeft, TakeOut, campaignVars
<1>8. ASSUME NEW r \in Rooms, Connect(r) \/ Disconnect(r) PROVE SemaphoreRespected'
    BY <1>2, <1>5, <1>8
    DEF Connect, JoinRoom, StartCompletes, StartFails, WebhookConnectFails,
        DialConnectFails, HungUp, Disconnect, DisconnectRuns, BridgeStopped, LeaveRoom,
        campaignVars
<1> QED
    BY <1>2, <1>3, <1>4, <1>6, <1>7, <1>8 DEF Next, DialStep

\* A campaign never has more than max_concurrent calls in the making (the
\* semaphore of dial_campaign).
THEOREM SemaphoreHolds == Spec => []SemaphoreRespected
<1>1. Init => SemaphoreRespected
    <2> SUFFICES ASSUME Init PROVE SemaphoreRespected
        OBVIOUS
    <2>1. Creating = {}
        BY DEF Init, Creating
    <2> QED
        BY <2>1, FS_EmptySet, RegistryAssumption DEF SemaphoreRespected
<1> QED
    BY <1>1, SemaphoreStep, InductiveInvariant, PTL DEF Spec, Safety

\* What a disconnect of close may become in a step.
LEMMA CloseOfDisc ==
    ASSUME IInv, Next
    PROVE  \A r \in Rooms :
               \/ disc'[r]["close"] = disc[r]["close"]
               \/ disc[r]["close"] = "none" /\ disc'[r]["close"] \in DiscStates \ {"none", "called"}
               \/ disc[r]["close"] = "stopping" /\ disc'[r]["close"] \in {"leaving", "left"}
               \/ disc[r]["close"] = "leaving" /\ disc'[r]["close"] \in Returned
<1> DEFINE Goal == \A r \in Rooms :
               \/ disc'[r]["close"] = disc[r]["close"]
               \/ disc[r]["close"] = "none" /\ disc'[r]["close"] \in DiscStates \ {"none", "called"}
               \/ disc[r]["close"] = "stopping" /\ disc'[r]["close"] \in {"leaving", "left"}
               \/ disc[r]["close"] = "leaving" /\ disc'[r]["close"] \in Returned
<1>1. ASSUME UNCHANGED disc PROVE Goal
    BY <1>1
<1>2. ASSUME NEW r \in Rooms, NEW d \in Callers, NEW label \in DiscStates,
             GotoDisc(r, d, label)
      PROVE  \A s \in Rooms : disc'[s]["close"] =
                 IF s = r /\ d = "close" THEN label ELSE disc[s]["close"]
    BY <1>2, GotoDiscs DEF IInv, Callers
<1>3. {"stopping", "leaving", "left", "nothing", "raised", "called"} \subseteq DiscStates
      /\ {"webhook", "close", "connect"} \subseteq Callers
    BY DEF DiscStates, Returned, Callers
<1>4. ASSUME NEW r \in Rooms, NEW d \in Callers, BeginDisconnect(r, d)
      PROVE  \E label \in {"stopping", "leaving", "nothing"} : GotoDisc(r, d, label)
    BY <1>4 DEF BeginDisconnect
<1>5. CASE LiveKit
    BY <1>1, <1>5 DEF LiveKit, CallerEnters, CallerLeaves, AgentDropped, roomVars
<1>6. ASSUME NEW n \in Names, Webhook(n) PROVE Goal
    <2>1. CASE RoomStarted(n)
        BY <1>1, <2>1 DEF RoomStarted, Register
    <2>2. CASE TakeOut(n)
        <3>1. registry[n] \in Rooms /\ GotoDisc(registry[n], "webhook", "called")
            BY <2>2 DEF TakeOut, IInv, TypeOK
        <3> QED
            BY <1>2, <1>3, <3>1
    <2> QED
        BY <1>6, <2>1, <2>2 DEF Webhook, RoomFinished, ParticipantLeft
<1>7. ASSUME NEW r \in Rooms, Connect(r) PROVE Goal
    <2>1. CASE StartFails(r)
        <3>1. \E label \in {"leaving", "nothing"} : GotoDisc(r, "connect", label)
            BY <2>1 DEF StartFails
        <3> QED
            BY <1>2, <1>3, <3>1
    <2> QED
        BY <1>1, <1>7, <2>1
        DEF Connect, JoinRoom, StartCompletes, WebhookConnectFails, DialConnectFails, HungUp
<1>8. ASSUME NEW r \in Rooms, Disconnect(r) PROVE Goal
    <2>1. CASE DisconnectRuns(r)
        <3>1. \E label \in {"stopping", "leaving", "nothing"} : GotoDisc(r, "webhook", label)
            BY <1>3, <1>4, <2>1 DEF DisconnectRuns
        <3> QED
            BY <1>2, <1>3, <3>1
    <2>2. ASSUME NEW d \in Callers, BridgeStopped(r, d) PROVE Goal
        <3>1. /\ disc[r][d] = "stopping"
              /\ \E label \in {"leaving", "left"} : GotoDisc(r, d, label)
            BY <2>2 DEF BridgeStopped
        <3> QED
            BY <1>2, <1>3, <3>1
    <2>3. ASSUME NEW d \in Callers, LeaveRoom(r, d) PROVE Goal
        <3>1. /\ disc[r][d] = "leaving"
              /\ \E label \in {"left", "raised"} : GotoDisc(r, d, label)
            BY <2>3 DEF LeaveRoom
        <3> QED
            BY <1>2, <1>3, <3>1 DEF Returned
    <2> QED
        BY <1>8, <2>1, <2>2, <2>3 DEF Disconnect
<1>9. ASSUME NEW n \in Outbound, DialStep(n) PROVE Goal
    BY <1>1, <1>9 DEF DialStep, Dial, SipCreated, SipFails, Register, roomVars
<1>10. CASE CloseStep
    <2>1. ASSUME NEW n \in Names, NEW r \in Rooms, CloseDisconnects(n, r) PROVE Goal
        <3>1. disc[r]["close"] = "none"
            BY <2>1 DEF CloseDisconnects
        <3>2. \E label \in {"stopping", "leaving", "nothing"} : GotoDisc(r, "close", label)
            BY <1>3, <1>4, <2>1 DEF CloseDisconnects
        <3> QED
            BY <1>2, <1>3, <3>1, <3>2
    <2> QED
        BY <1>1, <1>10, <2>1 DEF CloseStep, CloseBegins, CloseForgets, CloseEnds, roomVars
<1> QED
    BY <1>5, <1>6, <1>7, <1>8, <1>9, <1>10 DEF Next

LEMMA CampaignStep ==
    ASSUME IInv, Next
    PROVE  /\ \A n \in Outbound :
                 dial'[n] # dial[n] => DialsLeft[dial'[n]] < DialsLeft[dial[n]]
           /\ \A r \in Rooms : disc'[r]["close"] # disc[r]["close"] =>
                 DiscLeft[disc'[r]["close"]] < DiscLeft[disc[r]["close"]]
           /\ campaign' # campaign => PhasesLeft[campaign'] < PhasesLeft[campaign]
           /\ campaign = "closing" => closing' \subseteq closing
<1>1. \A r \in Rooms : disc'[r]["close"] # disc[r]["close"] =>
          DiscLeft[disc'[r]["close"]] < DiscLeft[disc[r]["close"]]
    BY CloseOfDisc DEF DiscLeft, DiscStates, Returned
<1>2. CASE UNCHANGED campaignVars
    BY <1>1, <1>2 DEF campaignVars
<1>3. ASSUME NEW n \in Outbound, DialStep(n)
      PROVE  /\ \A m \in Outbound :
                   dial'[m] # dial[m] => DialsLeft[dial'[m]] < DialsLeft[dial[m]]
             /\ UNCHANGED <<campaign, closing>>
    <2>1. UNCHANGED <<campaign, closing>>
        BY <1>3 DEF DialStep, Dial, SipCreated, SipFails
    <2>2. \/ dial[n] = "queued" /\ dial' = [dial EXCEPT ![n] = "creating"]
          \/ dial[n] = "creating" /\ dial' = [dial EXCEPT ![n] = "dialing"]
          \/ dial[n] = "creating" /\ dial' = [dial EXCEPT ![n] = "error"]
        BY <1>3 DEF DialStep, Dial, SipCreated, SipFails, GotoDial
    <2> QED
        BY <2>1, <2>2 DEF DialsLeft, IInv, TypeOK
<1>4. CASE CloseStep
    <2>1. CASE CloseBegins \/ CloseEnds
        BY <1>1, <2>1 DEF CloseBegins, CloseEnds, PhasesLeft
    <2>2. ASSUME NEW n \in Names, NEW r \in Rooms,
                 CloseDisconnects(n, r) \/ CloseForgets(n, r)
          PROVE  UNCHANGED <<dial, campaign>> /\ closing' \subseteq closing
        BY <2>2 DEF CloseDisconnects, CloseForgets, campaignVars
    <2> QED
        BY <1>1, <1>4, <2>1, <2>2 DEF CloseStep
<1>5. CASE LiveKit
    BY <1>2, <1>5 DEF LiveKit, CallerEnters, CallerLeaves, AgentDropped
<1>6. ASSUME NEW n \in Names, Webhook(n) PROVE UNCHANGED campaignVars
    BY <1>6 DEF Webhook, RoomStarted, RoomFinished, ParticipantLeft, TakeOut
<1>7. ASSUME NEW r \in Rooms, Connect(r) \/ Disconnect(r) PROVE UNCHANGED campaignVars
    BY <1>7
    DEF Connect, JoinRoom, StartCompletes, StartFails, WebhookConnectFails,
        DialConnectFails, HungUp, Disconnect, DisconnectRuns, BridgeStopped, LeaveRoom
<1> QED
    BY <1>1, <1>2, <1>3, <1>4, <1>5, <1>6, <1>7 DEF Next

\* launch_campaign makes boundedly many steps: two per contact, three per room it
\* closes, and one per entry of its snapshot (dial_campaign, close).
THEOREM CampaignIsBounded == Spec => CampaignMovesOn
<1>1. IInv /\ [Next]_vars =>
          [/\ \A n \in Outbound :
                 dial'[n] # dial[n] => DialsLeft[dial'[n]] < DialsLeft[dial[n]]
           /\ \A r \in Rooms : disc'[r]["close"] # disc[r]["close"] =>
                 DiscLeft[disc'[r]["close"]] < DiscLeft[disc[r]["close"]]
           /\ campaign' # campaign => PhasesLeft[campaign'] < PhasesLeft[campaign]
           /\ campaign = "closing" => closing' \subseteq closing]_vars
    BY CampaignStep
<1> QED
    BY <1>1, InductiveInvariant, PTL DEF Spec, Safety, CampaignMovesOn

\* Neither the semaphore nor the rooms it closes one after the other hold a
\* campaign up for ever (dial_campaign, close): what it awaits can always go on.
THEOREM CampaignGoesOn == Spec => []CampaignNeverStuck
<1>1. Init => CloseIsAwaited
    BY DEF Init, CloseIsAwaited, Callers
<1>2. IInv /\ CloseIsAwaited /\ [Next]_vars => CloseIsAwaited'
    <2> SUFFICES ASSUME IInv, CloseIsAwaited, [Next]_vars PROVE CloseIsAwaited'
        OBVIOUS
    <2>1. CASE Next
        BY <2>1, CloseOfDisc DEF CloseIsAwaited, Returned
    <2>2. CASE UNCHANGED vars
        BY <2>2 DEF CloseIsAwaited, vars, roomVars
    <2> QED
        BY <2>1, <2>2
<1>3. IInv /\ CloseIsAwaited => CampaignNeverStuck
    <2> SUFFICES ASSUME IInv, CloseIsAwaited PROVE CampaignNeverStuck
        OBVIOUS
    <2>1. \/ \A n \in Outbound : dial[n] \in {"dialing", "error"}
          \/ Creating # {}
          \/ Cardinality(Creating) < MaxConcurrent /\ \E n \in Outbound : dial[n] = "queued"
        <3>1. \A n \in Outbound : dial[n] \in {"queued", "creating", "dialing", "error"}
            BY DEF IInv, TypeOK
        <3>2. Creating = {} => Cardinality(Creating) < MaxConcurrent
            BY FS_EmptySet, RegistryAssumption
        <3> QED
            BY <3>1, <3>2 DEF Creating
    <2>2. ASSUME NEW entry \in closing
          PROVE  disc[entry[2]]["close"] \in {"none", "stopping", "leaving"} \cup Returned
        <3>1. entry[2] \in Rooms /\ "close" \in Callers
            BY DEF IInv, TypeOK, Callers
        <3>2. disc[entry[2]]["close"] \in DiscStates \ {"called"}
            BY <3>1 DEF IInv, TypeOK, CloseIsAwaited
        <3> QED
            BY <3>2 DEF DiscStates
    <2> QED
        BY <2>1, <2>2 DEF CampaignNeverStuck
<1> QED
    BY <1>1, <1>2, <1>3, InductiveInvariant, PTL DEF Spec, Safety
=============================================================================

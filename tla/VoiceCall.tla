------------------------------ MODULE VoiceCall ------------------------------
(***************************************************************************)
(* The browser voice calls of the backend: WebSocketVoiceHandler.run and   *)
(* everything it awaits, the SessionManager it shares with the other       *)
(* handlers of its worker process, and the strike counters that all        *)
(* workers keep in Redis (backend/voice/websocket_handler.py,              *)
(* backend/voice/session_manager.py).                                      *)
(*                                                                         *)
(* A connection is a handler task.  Its pc names the await it is suspended *)
(* at; an action is the code from there to the next await another task, a  *)
(* client or Redis can interleave with.  asyncio runs one task at a time   *)
(* in a worker, and the only await made under SessionManager._lock is the  *)
(* Redis GET of create_session, so lock[w] is held only there.             *)
(*                                                                         *)
(* Left out: audio and text payloads, the caller's language, usage         *)
(* counters and their costs, status frames, the greeting (it swallows what *)
(* fails and changes no state), and barge-in: the receive loop awaits the  *)
(* whole of a turn, speech included, so it never receives a frame while    *)
(* _is_speaking is set.  The room agent of the process moves the           *)
(* active_calls gauge too, by one for each bridge it starts and stops; the *)
(* gauge here is what the browser calls contribute.                        *)
(***************************************************************************)
EXTENDS AgentGraph, Integers, FiniteSets

CONSTANTS Conns,        \* WebSocket connections, each served by one handler
          Sids,         \* session ids, chosen by the client in the URL
          Workers,      \* backend processes sharing one Redis
          MaxSessions,  \* MAX_CONCURRENT_SESSIONS
          MaxRestarts,  \* bound: worker crashes explored
          NoKey,        \* no strike key in Redis
          NoConn        \* nobody holds the session lock

ASSUME VoiceCallAssumption ==
    /\ MaxSessions \in Nat \ {0}
    /\ MaxRestarts \in Nat
    /\ NoKey \notin Nat
    /\ NoConn \notin Conns
    /\ IsFiniteSet(Conns)
    /\ IsFiniteSet(Sids)

VARIABLES
    pc,          \* [Conns -> where the handler is]
    sid,         \* [Conns -> the session id of the URL]
    worker,      \* [Conns -> the process that accepted it]
    gone,        \* [Conns -> the client closed its end]
    loaded,      \* [Conns -> the count a GET returned and nobody assigned yet]
    turn,        \* [Conns -> the utterance and the graph's answer]
    outcome,     \* [Conns -> the outcome _cleanup reports]
    sessions,    \* [Workers -> [Sids -> SessionManager._sessions entry]]
    lock,        \* [Workers -> holder of SessionManager._lock]
    activeCalls, \* [Workers -> the active_calls gauge of the process]
    strikeKey,   \* [Sids -> value of session:{id}:strikes in Redis]
    restarts,    \* worker crashes so far
    harm,        \* history: consecutive harmful turns since the key was reset
    tainted      \* history: Redis failed, the key expired, or two handlers shared it

connVars    == <<pc, sid, worker, gone, loaded, turn, outcome>>
processVars == <<sessions, lock, activeCalls, restarts>>
strikeVars  == <<strikeKey, harm, tainted>>
vars        == <<connVars, processVars, strikeVars>>

NoTurn == [query  |-> [offTopic |-> FALSE, emergency |-> FALSE],
           result |-> InitialState(0)]

Absent == [state |-> "absent", outcome |-> "none", strikes |-> 0]
NewSession(strikes) == [state |-> "active", outcome |-> "none", strikes |-> strikes]

ActiveStates == {"active", "listening", "processing", "speaking", "escalated"}
SessionStates == ActiveStates \cup {"absent", "ended"}
Outcomes == {"none", "completed", "escalated", "terminated"}
SessionRecords == [state : SessionStates, outcome : Outcomes, strikes : Nat]
Turns == [query : Query, result : Result]

\* Where the handler is while it speaks: _speak_response is awaited.
Speaking == {"apology", "fallback", "warning", "terminating", "speaking"}

\* Between record_call_start and record_call_end.
InCall == {"receive", "stt", "loading", "syncing", "graph", "saving", "responding",
           "endDelete", "cleanup", "cleanupDelete", "closing"} \cup Speaking
Finished == {"rejected", "done", "dead"}
PCs == {"connecting", "hydrating", "registering"} \cup InCall \cup Finished

Session(c)  == sessions[worker[c]][sid[c]]
Unlocked(c) == lock[worker[c]] = NoConn
IsActive(s) == s.state \in ActiveStates
ActiveOn(w) == {s \in Sids : IsActive(sessions[w][s])}

\* The missing value is not turned into a number.
RawKeyValue(s) == strikeKey[s]

\* A missing key reads as 0, like a GET that fails (_load_strikes fails open).
KeyValue(s) == IF strikeKey[s] = NoKey THEN 0 ELSE strikeKey[s]

Goto(c, label) == pc' = [pc EXCEPT ![c] = label]

SetSession(c, session) ==
    sessions' = [sessions EXCEPT ![worker[c]][sid[c]] = session]
SetState(c, state) == SetSession(c, [Session(c) EXCEPT !.state = state])
EndSession(c, how) ==
    SetSession(c, [Session(c) EXCEPT !.state = "ended", !.outcome = how])

TypeOK ==
    /\ pc \in [Conns -> PCs]
    /\ sid \in [Conns -> Sids]
    /\ worker \in [Conns -> Workers]
    /\ gone \in [Conns -> BOOLEAN]
    /\ loaded \in [Conns -> Nat]
    /\ turn \in [Conns -> Turns]
    /\ outcome \in [Conns -> Outcomes]
    /\ sessions \in [Workers -> [Sids -> SessionRecords]]
    /\ lock \in [Workers -> Conns \cup {NoConn}]
    /\ activeCalls \in [Workers -> Int]
    /\ strikeKey \in [Sids -> Nat \cup {NoKey}]
    /\ restarts \in 0..MaxRestarts
    /\ harm \in [Sids -> Nat]
    /\ tainted \in [Sids -> BOOLEAN]

Init ==
    /\ pc = [c \in Conns |-> "connecting"]
    /\ sid \in [Conns -> Sids]
    /\ worker \in [Conns -> Workers]
    /\ gone = [c \in Conns |-> FALSE]
    /\ loaded = [c \in Conns |-> 0]
    /\ turn = [c \in Conns |-> NoTurn]
    /\ outcome = [c \in Conns |-> "none"]
    /\ sessions = [w \in Workers |-> [s \in Sids |-> Absent]]
    /\ lock = [w \in Workers |-> NoConn]
    /\ activeCalls = [w \in Workers |-> 0]
    /\ strikeKey = [s \in Sids |-> NoKey]
    /\ restarts = 0
    /\ harm = [s \in Sids |-> 0]
    /\ tainted = [s \in Sids |-> FALSE]
-----------------------------------------------------------------------------
(* Redis.  Every command may fail; the code catches it and carries on. *)

\* History: the number of harmful turns of an id means nothing, and stays 0,
\* once Redis has failed it.
Record(s, ok, count) ==
    /\ tainted' = [tainted EXCEPT ![s] = @ \/ ~ok]
    /\ harm' = [harm EXCEPT ![s] = IF tainted[s] \/ ~ok THEN 0 ELSE count]

\* _load_strikes: what a GET yields.
Loaded(s, ok) == IF ok THEN KeyValue(s) ELSE 0

DeleteStrikes(s) ==
    \E ok \in BOOLEAN :
        /\ strikeKey' = IF ok THEN [strikeKey EXCEPT ![s] = NoKey] ELSE strikeKey
        /\ Record(s, ok, 0)

\* The key outlives the TTL set by save_session_strikes.
ExpireKey(s) ==
    /\ strikeKey[s] # NoKey
    /\ strikeKey' = [strikeKey EXCEPT ![s] = NoKey]
    /\ Record(s, FALSE, 0)
    /\ UNCHANGED <<connVars, processVars>>

-----------------------------------------------------------------------------
(* Accepting a connection: run and create_session *)

\* The id is refused only while its session is active.
MustRejectActiveId(c) ==
    \/ IsActive(Session(c))
    \/ Cardinality(ActiveOn(worker[c])) >= MaxSessions

MustReject(c) ==
    \/ Session(c) # Absent
    \/ Cardinality(ActiveOn(worker[c])) >= MaxSessions

\* SessionError: an error frame, close(4009), and no clean-up.
RejectSession(c) ==
    /\ pc[c] = "connecting"
    /\ Unlocked(c)
    /\ MustReject(c)
    /\ Goto(c, "rejected")
    /\ UNCHANGED <<sid, worker, gone, loaded, turn, outcome, processVars, strikeVars>>

\* The lock is released before the GET: check, then act.
AdmitSessionUnlocked(c) ==
    /\ pc[c] = "connecting"
    /\ Unlocked(c)
    /\ ~MustReject(c)
    /\ Goto(c, "hydrating")
    /\ UNCHANGED <<sid, worker, gone, loaded, turn, outcome, processVars, strikeVars>>

\* The checks pass and the lock stays held over the GET of the strike count.
AdmitSession(c) ==
    /\ pc[c] = "connecting"
    /\ Unlocked(c)
    /\ ~MustReject(c)
    /\ lock' = [lock EXCEPT ![worker[c]] = c]
    /\ Goto(c, "hydrating")
    /\ UNCHANGED <<sid, worker, gone, loaded, turn, outcome, sessions, activeCalls,
                   restarts, strikeVars>>

Shared(c) ==
    \E d \in Conns \ {c} : sid[d] = sid[c] /\ pc[d] \in InCall

\* Redis has answered the GET, or failed it.  The handler resumes later: until then
\* other workers may set or delete the key.
HydrateSession(c) ==
    /\ pc[c] = "hydrating"
    /\ \E ok \in BOOLEAN : loaded' = [loaded EXCEPT ![c] = Loaded(sid[c], ok)]
    /\ Goto(c, "registering")
    /\ UNCHANGED <<sid, worker, gone, turn, outcome, processVars, strikeVars>>

\* The session is registered with the count that was read, the lock released,
\* record_call_start called.
RegisterSession(c) ==
    /\ pc[c] = "registering"
    /\ SetSession(c, NewSession(loaded[c]))
    /\ Record(sid[c], ~Shared(c), harm[sid[c]])
    /\ loaded' = [loaded EXCEPT ![c] = 0]
    /\ lock' = [lock EXCEPT ![worker[c]] = NoConn]
    /\ activeCalls' = [activeCalls EXCEPT ![worker[c]] = @ + 1]
    /\ Goto(c, "receive")
    /\ UNCHANGED <<sid, worker, gone, turn, outcome, restarts, strikeKey>>

-----------------------------------------------------------------------------
(* The receive loop: _voice_loop and _handle_control_message *)

\* Closing earlier or later changes nothing the handler can see.
ClientCloses(c) ==
    /\ pc[c] \in InCall \ {"endDelete", "cleanup", "cleanupDelete", "closing"}
    /\ ~gone[c]
    /\ gone' = [gone EXCEPT ![c] = TRUE]
    /\ UNCHANGED <<pc, sid, worker, loaded, turn, outcome, processVars, strikeVars>>

\* An audio frame that completes no utterance.
ReceiveAudio(c) ==
    /\ pc[c] = "receive"
    /\ Unlocked(c)
    /\ SetState(c, "listening")
    /\ UNCHANGED <<connVars, lock, activeCalls, restarts, strikeVars>>

\* An audio frame or a flush that completes an utterance starts a turn.
ReceiveUtterance(c) ==
    /\ pc[c] = "receive"
    /\ Unlocked(c)
    /\ SetState(c, "processing")
    /\ Goto(c, "stt")
    /\ UNCHANGED <<sid, worker, gone, loaded, turn, outcome, lock, activeCalls, restarts,
                   strikeVars>>

\* {"type": "end"}
ReceiveEnd(c) ==
    /\ pc[c] = "receive"
    /\ Unlocked(c)
    /\ EndSession(c, "completed")
    /\ Goto(c, "endDelete")
    /\ UNCHANGED <<sid, worker, gone, loaded, turn, outcome, lock, activeCalls, restarts,
                   strikeVars>>

FinishEnd(c) ==
    /\ pc[c] = "endDelete"
    /\ DeleteStrikes(sid[c])
    /\ Goto(c, "cleanup")
    /\ UNCHANGED <<sid, worker, gone, loaded, turn, outcome, processVars>>

\* A disconnect, or a JSON text frame that is not an object.
LeaveLoop(c) ==
    /\ pc[c] = "receive"
    /\ Goto(c, "cleanup")
    /\ UNCHANGED <<sid, worker, gone, loaded, turn, outcome, processVars, strikeVars>>

-----------------------------------------------------------------------------
(* One turn: _process_speech_turn *)

SttLowConfidence(c) ==
    /\ pc[c] = "stt"
    /\ Goto(c, "apology")
    /\ UNCHANGED <<sid, worker, gone, loaded, turn, outcome, processVars, strikeVars>>

\* An STT error or an empty transcript: the session stays "processing".
SttNothing(c) ==
    /\ pc[c] = "stt"
    /\ Goto(c, "receive")
    /\ UNCHANGED <<sid, worker, gone, loaded, turn, outcome, processVars, strikeVars>>

SttTranscript(c) ==
    /\ pc[c] = "stt"
    /\ Unlocked(c)
    /\ Goto(c, "loading")
    /\ UNCHANGED <<sid, worker, gone, loaded, turn, outcome, processVars, strikeVars>>

\* Redis has answered the GET, or failed it; load_session_strikes takes no lock.
LoadTurnStrikes(c) ==
    /\ pc[c] = "loading"
    /\ \E ok \in BOOLEAN :
        /\ loaded' = [loaded EXCEPT ![c] = Loaded(sid[c], ok)]
        /\ Record(sid[c], ok, harm[sid[c]])
    /\ Goto(c, "syncing")
    /\ UNCHANGED <<sid, worker, gone, turn, outcome, processVars, strikeKey>>

\* The count that was read is added to the one in memory.
SyncTurnStrikesAdds(c) ==
    /\ pc[c] = "syncing"
    /\ Unlocked(c)
    /\ SetSession(c, [Session(c) EXCEPT !.strikes = @ + loaded[c]])
    /\ loaded' = [loaded EXCEPT ![c] = 0]
    /\ Goto(c, "graph")
    /\ UNCHANGED <<sid, worker, gone, turn, outcome, lock, activeCalls, restarts,
                   strikeVars>>

\* The lock is had: the count that was read, however old it is by now, replaces the
\* one in memory, and the graph is invoked with it.
SyncTurnStrikes(c) ==
    /\ pc[c] = "syncing"
    /\ Unlocked(c)
    /\ SetSession(c, [Session(c) EXCEPT !.strikes = loaded[c]])
    /\ loaded' = [loaded EXCEPT ![c] = 0]
    /\ Goto(c, "graph")
    /\ UNCHANGED <<sid, worker, gone, turn, outcome, lock, activeCalls, restarts,
                   strikeVars>>

\* observed_invoke_graph returns; the new count goes to the session first.  The
\* count it was given is still the session's: only this handler writes that.
GraphReturns(c) ==
    /\ pc[c] = "graph"
    /\ Unlocked(c)
    /\ \E query \in Query : \E result \in TurnResults(query, Session(c).strikes) :
        /\ turn' = [turn EXCEPT ![c] = [query |-> query, result |-> result]]
        /\ SetSession(c, [Session(c) EXCEPT !.strikes = result.strikes])
    /\ Goto(c, "saving")
    /\ UNCHANGED <<sid, worker, gone, loaded, outcome, lock, activeCalls, restarts, strikeVars>>

\* Recording the metrics of the turn is outside observed_invoke_graph's try.
GraphRaises(c) ==
    /\ pc[c] = "graph"
    /\ Goto(c, "fallback")
    /\ UNCHANGED <<sid, worker, gone, loaded, turn, outcome, processVars, strikeVars>>

\* History: a blocked turn counts, an answered one clears the count, and one
\* whose pipeline failed leaves it.
HarmAfter(c) ==
    LET result == turn[c].result
    IN  IF result.blocked THEN harm[sid[c]] + 1
        ELSE IF result.error THEN harm[sid[c]] ELSE 0

\* Only an escalation is looked at again, when the answer has been spoken.
AfterSave(c) ==
    turn' = [turn EXCEPT ![c] = IF @.result.escalate THEN @ ELSE NoTurn]

NextSpeech(result) ==
    IF result.endSession THEN "terminating"
    ELSE IF result.blocked /\ result.wait THEN "warning" ELSE "responding"

SaveStrikesOnlyWhenHarmful(c) ==
    /\ pc[c] = "saving"
    /\ strikeKey' = IF turn[c].result.blocked
                    THEN [strikeKey EXCEPT ![sid[c]] = turn[c].result.strikes]
                    ELSE strikeKey
    /\ Record(sid[c], TRUE, HarmAfter(c))
    /\ AfterSave(c)
    /\ Goto(c, NextSpeech(turn[c].result))
    /\ UNCHANGED <<sid, worker, gone, loaded, outcome, processVars>>

SaveStrikes(c) ==
    /\ pc[c] = "saving"
    /\ \E ok \in BOOLEAN :
        /\ strikeKey' = IF ok THEN [strikeKey EXCEPT ![sid[c]] = turn[c].result.strikes]
                        ELSE strikeKey
        /\ Record(sid[c], ok, HarmAfter(c))
    /\ AfterSave(c)
    /\ Goto(c, NextSpeech(turn[c].result))
    /\ UNCHANGED <<sid, worker, gone, loaded, outcome, processVars>>

\* An answer: the escalation is recorded first, then the state is "speaking".
BeginSpeaking(c) ==
    /\ pc[c] = "responding"
    /\ Unlocked(c)
    /\ SetSession(c, [Session(c) EXCEPT
           !.state = "speaking",
           !.outcome = IF turn[c].result.escalate THEN "escalated" ELSE @])
    /\ Goto(c, "speaking")
    /\ UNCHANGED <<sid, worker, gone, loaded, turn, outcome, lock, activeCalls, restarts,
                   strikeVars>>

-----------------------------------------------------------------------------
(* The end of a turn: _speak_response returned *)

\* Low confidence, a warning, and an answer that does not escalate.
BackToListening(c) ==
    /\ SetState(c, "listening")
    /\ Goto(c, "receive")
    /\ turn' = [turn EXCEPT ![c] = NoTurn]
    /\ UNCHANGED <<sid, worker, gone, loaded, outcome, lock, activeCalls, restarts, strikeVars>>

FinishApology(c) ==
    /\ pc[c] = "apology"
    /\ Unlocked(c)
    /\ BackToListening(c)

FinishWarning(c) ==
    /\ pc[c] = "warning"
    /\ Unlocked(c)
    /\ BackToListening(c)

FinishAnswer(c) ==
    /\ pc[c] = "speaking"
    /\ ~turn[c].result.escalate
    /\ Unlocked(c)
    /\ BackToListening(c)

\* The pipeline that raised is tried again.
FinishFallbackRetries(c) ==
    /\ pc[c] = "fallback"
    /\ Goto(c, "graph")
    /\ UNCHANGED <<sid, worker, gone, loaded, turn, outcome, processVars, strikeVars>>

\* The state stays "processing" after the fallback of a pipeline that raised.
FinishFallback(c) ==
    /\ pc[c] = "fallback"
    /\ Goto(c, "receive")
    /\ UNCHANGED <<sid, worker, gone, loaded, turn, outcome, processVars, strikeVars>>

\* end_session: an "escalated" outcome leaves the strike key alone.
FinishEscalation(c) ==
    /\ pc[c] = "speaking"
    /\ turn[c].result.escalate
    /\ Unlocked(c)
    /\ EndSession(c, "escalated")
    /\ Goto(c, "cleanup")
    /\ turn' = [turn EXCEPT ![c] = NoTurn]
    /\ UNCHANGED <<sid, worker, gone, loaded, outcome, lock, activeCalls, restarts, strikeVars>>

\* update_session, then close(1008) and leave the loop.
FinishTermination(c) ==
    /\ pc[c] = "terminating"
    /\ Unlocked(c)
    /\ EndSession(c, "terminated")
    /\ Goto(c, "cleanup")
    /\ turn' = [turn EXCEPT ![c] = NoTurn]
    /\ UNCHANGED <<sid, worker, gone, loaded, outcome, lock, activeCalls, restarts, strikeVars>>

\* send_bytes finds the client gone and raises out of the turn.
SpeechBroken(c) ==
    /\ pc[c] \in Speaking
    /\ gone[c]
    /\ Goto(c, "cleanup")
    /\ turn' = [turn EXCEPT ![c] = NoTurn]
    /\ UNCHANGED <<sid, worker, gone, loaded, outcome, processVars, strikeVars>>

-----------------------------------------------------------------------------
(* _cleanup *)

FinalOutcomeIgnoringSession(session) == "completed"

FinalOutcome(session) ==
    IF session.outcome = "none" THEN "completed" ELSE session.outcome

\* The clean-up waits for a session that a turn or a message has ended.
CleanupOnlyActive(c) ==
    /\ pc[c] = "cleanup"
    /\ Unlocked(c)
    /\ IsActive(Session(c))
    /\ outcome' = [outcome EXCEPT ![c] = FinalOutcome(Session(c))]
    /\ EndSession(c, FinalOutcome(Session(c)))
    /\ Goto(c, "cleanupDelete")
    /\ UNCHANGED <<sid, worker, gone, loaded, turn, lock, activeCalls, restarts, strikeVars>>

\* end_session runs only if the turn or an "end" message has not ended it; it
\* deletes the strike key when the outcome is "terminated" or "completed".
Cleanup(c) ==
    LET final == FinalOutcome(Session(c))
        ends  == IsActive(Session(c))
    IN  /\ pc[c] = "cleanup"
        /\ Unlocked(c)
        /\ outcome' = [outcome EXCEPT ![c] = final]
        /\ IF ends THEN EndSession(c, final) ELSE UNCHANGED sessions
        /\ Goto(c, IF ends /\ final \in {"terminated", "completed"}
                   THEN "cleanupDelete" ELSE "closing")
        /\ UNCHANGED <<sid, worker, gone, loaded, turn, lock, activeCalls, restarts, strikeVars>>

FinishCleanupDelete(c) ==
    /\ pc[c] = "cleanupDelete"
    /\ DeleteStrikes(sid[c])
    /\ Goto(c, "closing")
    /\ UNCHANGED <<sid, worker, gone, loaded, turn, outcome, processVars>>

\* The end of the call is recorded only when the clean-up had to end it.
ReportCallIfDeleted(c) ==
    /\ pc[c] = "closing"
    /\ activeCalls' = [activeCalls EXCEPT ![worker[c]] =
                           IF outcome[c] = "terminated" THEN @ ELSE @ - 1]
    /\ Goto(c, "done")
    /\ UNCHANGED <<sid, worker, gone, loaded, turn, outcome, sessions, lock, restarts, strikeVars>>

\* observed_call_lifecycle: record_call_end.
ReportCall(c) ==
    /\ pc[c] = "closing"
    /\ activeCalls' = [activeCalls EXCEPT ![worker[c]] = @ - 1]
    /\ Goto(c, "done")
    /\ UNCHANGED <<sid, worker, gone, loaded, turn, outcome, sessions, lock, restarts, strikeVars>>

-----------------------------------------------------------------------------
(* A worker process dies and starts again: its memory is lost, Redis is not. *)
(* A connection it had not admitted may as well be made after the restart.   *)

Crash(w) ==
    /\ restarts < MaxRestarts
    /\ restarts' = restarts + 1
    /\ pc' = [c \in Conns |-> IF worker[c] = w /\ pc[c] \notin Finished \cup {"connecting"}
                              THEN "dead" ELSE pc[c]]
    /\ loaded' = [c \in Conns |-> IF worker[c] = w THEN 0 ELSE loaded[c]]
    /\ turn' = [c \in Conns |-> IF worker[c] = w THEN NoTurn ELSE turn[c]]
    /\ sessions' = [sessions EXCEPT ![w] = [s \in Sids |-> Absent]]
    /\ lock' = [lock EXCEPT ![w] = NoConn]
    /\ activeCalls' = [activeCalls EXCEPT ![w] = 0]
    /\ UNCHANGED <<sid, worker, gone, outcome, strikeVars>>

-----------------------------------------------------------------------------

\* What the client decides.
ClientStep(c) ==
    \/ ClientCloses(c)
    \/ ReceiveAudio(c)
    \/ ReceiveUtterance(c)
    \/ ReceiveEnd(c)

\* What the handler, Redis and the speech services owe once they are asked.
Admission(c) ==
    \/ RejectSession(c)
    \/ AdmitSession(c)
    \/ HydrateSession(c)
    \/ RegisterSession(c)

TurnStep(c) ==
    \/ SttLowConfidence(c)
    \/ SttNothing(c)
    \/ SttTranscript(c)
    \/ LoadTurnStrikes(c)
    \/ SyncTurnStrikes(c)
    \/ GraphReturns(c)
    \/ GraphRaises(c)
    \/ SaveStrikes(c)
    \/ BeginSpeaking(c)

EndOfTurn(c) ==
    \/ FinishApology(c)
    \/ FinishWarning(c)
    \/ FinishAnswer(c)
    \/ FinishFallback(c)
    \/ FinishEscalation(c)
    \/ FinishTermination(c)
    \/ SpeechBroken(c)

Closing(c) ==
    \/ FinishEnd(c)
    \/ Cleanup(c)
    \/ FinishCleanupDelete(c)
    \/ ReportCall(c)

HandlerStep(c) == Admission(c) \/ TurnStep(c) \/ EndOfTurn(c) \/ Closing(c)

Next ==
    \/ \E c \in Conns : ClientStep(c) \/ HandlerStep(c) \/ LeaveLoop(c)
    \/ \E s \in Sids : ExpireKey(s)
    \/ \E w \in Workers : Crash(w)

\* Every await of a handler ends: Redis, the speech services and the models
\* are called with timeouts, the lock is held over one GET, and the frames a
\* client sent before it closed are finitely many, so a receive that can
\* report the disconnect infinitely often does.
Fairness ==
    \A c \in Conns :
        /\ WF_vars(HandlerStep(c))
        /\ SF_vars(gone[c] /\ LeaveLoop(c))

Safety == Init /\ [][Next]_vars
Spec == Safety /\ Fairness

-----------------------------------------------------------------------------
(* Properties *)

\* A worker never has two handlers in a call for one session id, and a handler
\* in a call always finds its session: create_session refuses an id it knows,
\* and nothing removes an entry that a handler still uses.
OneHandlerPerSession ==
    \A c \in Conns : pc[c] \in InCall =>
        /\ Session(c) # Absent
        /\ \A d \in Conns \ {c} :
              pc[d] \in InCall => <<worker[d], sid[d]>> # <<worker[c], sid[c]>>

\* A worker never has more than MAX_CONCURRENT_SESSIONS active sessions, though
\* create_session awaits Redis between counting them and adding its own.
CapacityRespected ==
    \A w \in Workers : Cardinality(ActiveOn(w)) <= MaxSessions

\* active_calls counts exactly the handlers of the process between
\* record_call_start and record_call_end, however each of them ends.
GaugeBalanced ==
    \A w \in Workers :
        activeCalls[w] = Cardinality({c \in Conns : worker[c] = w /\ pc[c] \in InCall})

\* When the end of a call is reported the session has ended, with the outcome
\* that is reported: the metrics and /api/sessions never disagree.
ReportedAsEnded ==
    \A c \in Conns : pc[c] \in {"cleanupDelete", "closing"} =>
        /\ Session(c).state = "ended"
        /\ Session(c).outcome = outcome[c]

\* Unless its process dies, an ended session stays ended and an outcome once
\* recorded is never overwritten: an escalation is not turned into a
\* "completed" by the disconnect that cuts its announcement.
OutcomeIsFinal ==
    [][restarts' = restarts =>
        \A w \in Workers, s \in Sids :
            LET old == sessions[w][s]
                new == sessions'[w][s]
            IN  /\ old.state = "ended" => new.state = "ended"
                /\ old.outcome # "none" => new.outcome = old.outcome]_vars

\* While Redis answers and one handler uses the id, the key holds the number of
\* consecutive harmful turns, across calls and worker restarts.
StrikesMatchHarm ==
    \A s \in Sids : ~tainted[s] => KeyValue(s) = harm[s]

\* The turn that makes three consecutive harmful turns ends the call, and no
\* earlier one does, wherever the first two were spent.  Only a turn whose
\* pipeline failed is not judged.
ThirdStrikeEndsCall ==
    [][\A c \in Conns :
        /\ pc[c] = "saving" /\ pc'[c] \notin {"saving", "dead"}
        /\ ~turn[c].result.error /\ ~tainted'[sid[c]]
        => (pc'[c] = "terminating" <=> harm'[sid[c]] >= StrikeLimit)]_vars

\* The counts of an id that are in use: in Redis, with its handlers, and on their
\* way from Redis to a handler.
Counts(s) ==
    {KeyValue(s)} \cup
    {Session(c).strikes : c \in {d \in Conns : sid[d] = s /\ pc[d] \in InCall}} \cup
    {loaded[c] : c \in {d \in Conns : sid[d] = s /\ pc[d] \in {"registering", "syncing"}}}

IsRefused(s) ==
    \E c \in Conns : /\ sid[c] = s
                     /\ pc[c] = "graph" /\ pc'[c] = "saving"
                     /\ turn'[c].result.blocked

\* Redis may fail, keys expire, workers die or race for an id: strikes are lost, and
\* a count that was read before another worker cleared the key comes back, but
\* none is made up.  No count of an id exceeds those there were but by one, when a
\* turn of that id is refused, and no call is ended on a count below the limit.
StrikesAreEarned ==
    [][/\ \A s \in Sids : \A n \in Counts(s)' : n > 0 =>
             \E m \in Counts(s) : n <= m \/ (IsRefused(s) /\ n = m + 1)
       /\ \A c \in Conns : pc[c] = "saving" /\ pc'[c] = "terminating" =>
             \E n \in Counts(sid[c]) : n >= StrikeLimit]_vars

\* How far the call of a connection has come, and what a session is, for the
\* ledger.
Stage(c) ==
    IF pc[c] \in InCall THEN "open"
    ELSE [connecting |-> "waiting", hydrating |-> "waiting", registering |-> "waiting",
          rejected |-> "refused", done |-> "reported", dead |-> "lost"][pc[c]]

Entry(session) ==
    IF session.state = "absent" THEN "absent"
    ELSE IF ~IsActive(session) THEN session.outcome
    ELSE IF session.outcome = "none" THEN "open" ELSE "escalating"

\* Admission, though it awaits Redis, and the end of a call, though a turn, a
\* message, a disconnect and the clean-up meet in it, are each as good as one
\* step: a worker keeps CallLedger.
Ledger == INSTANCE CallLedger WITH
              stage <- [c \in Conns |-> Stage(c)],
              calls <- [w \in Workers |-> [s \in Sids |-> Entry(sessions[w][s])]],
              gauge <- activeCalls,
              report <- [c \in Conns |-> IF pc[c] = "done" THEN outcome[c] ELSE "none"]
LedgerIsKept == Ledger!LedgerSpec

\* A caller who hangs up is noticed: the handler finishes and reports the call.
DisconnectEndsCall ==
    \A c \in Conns : gone[c] ~> pc[c] \in Finished

\* Whatever fails in a turn, the handler comes back to its receive loop or
\* finishes the call.
TurnCompletes ==
    \A c \in Conns : pc[c] = "stt" ~> pc[c] \in {"receive"} \cup Finished

\* "Emergency: Pass through (NOT a strike)", guardrails_handler.py:25.
EmergencyIsNeverAStrike ==
    \A c \in Conns : turn[c].query.emergency => ~turn[c].result.blocked
=============================================================================

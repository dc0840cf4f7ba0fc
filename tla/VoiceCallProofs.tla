--------------------------- MODULE VoiceCallProofs ---------------------------
(***************************************************************************)
(* VoiceCall for any number of connections, ids, workers, sessions and     *)
(* restarts.  The argument: while a handler holds the session lock over    *)
(* the Redis GET of create_session nobody else touches the sessions of its *)
(* worker, so what it checked before the GET still holds when it registers *)
(* (Reserved); hence a session belongs to one handler                      *)
(* (OneHandlerPerSession), and its state follows the position of that      *)
(* handler (SessionFollowsHandler).  The strike counts are shared by the   *)
(* workers, which no lock excludes: there the history marks the ids that   *)
(* two handlers share, and the others have one handler (StrikeInv).        *)
(* For the ids that two handlers share, what a handler saves is still the  *)
(* count of its own session (EveryJudged), so counts are lost, or come     *)
(* back from a GET in flight, but are not invented.  An ended session has  *)
(* an outcome when it is reported (EndsWithVerdict), which makes the end   *)
(* of a call one step of the ledger however many steps the handler takes   *)
(* over it.                                                                *)
(***************************************************************************)
EXTENDS VoiceCall, FiniteSetTheorems, TLAPS

\* The handler awaits with its session still active.
InTurn == InCall \ {"endDelete", "cleanup", "cleanupDelete", "closing"}

\* The lock of a worker is held exactly by the handler inside create_session.
LockHeld ==
    \A c \in Conns, w \in Workers :
        lock[w] = c <=> worker[c] = w /\ pc[c] \in {"hydrating", "registering"}

\* What create_session checked stays true until it registers the session.
Reserved ==
    \A c \in Conns : pc[c] \in {"hydrating", "registering"} =>
        /\ Session(c) = Absent
        /\ Cardinality(ActiveOn(worker[c])) < MaxSessions

\* The outcome a session has while its handler may still change it.
PendingOutcome(c) ==
    IF pc[c] = "speaking" /\ turn[c].result.escalate THEN "escalated" ELSE "none"

\* The state of a session is determined by where its handler is.
FollowsHandler(c) ==
    /\ pc[c] \in InTurn =>
          IsActive(Session(c)) /\ Session(c).outcome = PendingOutcome(c)
    /\ pc[c] = "endDelete" => Session(c).state = "ended" /\ Session(c).outcome # "none"
    /\ pc[c] = "cleanup" =>
          /\ Session(c).state # "absent"
          /\ Session(c).state = "ended" => Session(c).outcome # "none"
    /\ pc[c] \in {"cleanupDelete", "closing"} =>
          Session(c).state = "ended" /\ Session(c).outcome = outcome[c]

SessionFollowsHandler == \A c \in Conns : FollowsHandler(c)

IInv ==
    /\ TypeOK
    /\ LockHeld
    /\ Reserved
    /\ OneHandlerPerSession
    /\ SessionFollowsHandler
    /\ CapacityRespected
    /\ GaugeBalanced

-----------------------------------------------------------------------------
(* The pipeline *)

LEMMA ProcessInputType ==
    ASSUME NEW query \in Query, NEW moderated \in BOOLEAN, NEW strikes \in Nat
    PROVE  InputGuardrails(query, moderated, strikes) \in Result
<1>0. strikes + 1 \in Nat
    OBVIOUS
<1>1. InitialState(strikes) \in Result /\ InitialState(0) \in Result
    BY DEF InitialState, Result
<1>2. [InitialState(strikes + 1) EXCEPT !.blocked = TRUE, !.endSession = TRUE] \in Result
    BY <1>0 DEF InitialState, Result
<1>3. ApplyStrikePolicy(strikes) \in Result
    <2>1. (strikes + 1 >= StrikeLimit) \in BOOLEAN /\ (strikes + 1 < StrikeLimit) \in BOOLEAN
        BY DEF StrikeLimit
    <2> QED
        BY <1>0, <2>1 DEF ApplyStrikePolicy, InitialState, Result
<1> QED
    BY <1>1, <1>2, <1>3, Zenon DEF InputGuardrails, ProcessInput

\* Whatever the external services answer, the pipeline returns a result.
LEMMA TurnResultsType ==
    ASSUME NEW query \in Query, NEW strikes \in Nat
    PROVE  TurnResults(query, strikes) \subseteq Result
<1> SUFFICES ASSUME NEW m \in ModeratorAnswers, NEW l \in BOOLEAN, NEW d \in BOOLEAN,
                    NEW r \in BOOLEAN
             PROVE  Invoke(query, strikes, l, m, d, r) \in Result
    BY DEF TurnResults
<1>1. m \in BOOLEAN
    BY GuardrailsAssumption
<1>2. InputGuardrails(query, m, strikes) \in Result
    BY <1>1, ProcessInputType
<1>3. SafetyGate(InputGuardrails(query, m, strikes), query, d) \in Result
    BY <1>2 DEF SafetyGate, Result, Query
<1>4. Failed(strikes) \in Result
    BY DEF Failed, InitialState, Result
<1> QED
    BY <1>2, <1>3, <1>4 DEF Invoke, Continue

-----------------------------------------------------------------------------
(* Steps inside a call *)

\* What every step of a handler in a call has in common: it moves that handler
\* only, keeps the gauge and the lock, and writes at most the session of its
\* id, which it never removes, with the lock free and, unless the session
\* stays as active as it was, leaving it ended.
CallStep(c) ==
    /\ pc[c] \in InCall
    /\ \E to \in InCall : Goto(c, to)
    /\ UNCHANGED <<sid, worker, lock, activeCalls, restarts>>
    /\ \/ UNCHANGED sessions
       \/ /\ Unlocked(c)
          /\ \E session \in SessionRecords :
                /\ SetSession(c, session)
                /\ session.state # "absent"
                /\ IsActive(session) => IsActive(Session(c))

\* The actions of a handler in a call, ReportCall excepted.
InCallAction(c) ==
    \/ ClientCloses(c) \/ ReceiveAudio(c) \/ ReceiveUtterance(c) \/ ReceiveEnd(c)
    \/ LeaveLoop(c) \/ TurnStep(c) \/ EndOfTurn(c)
    \/ FinishEnd(c) \/ Cleanup(c) \/ FinishCleanupDelete(c)

LEMMA SessionType ==
    ASSUME TypeOK, NEW c \in Conns
    PROVE  Session(c) \in SessionRecords /\ worker[c] \in Workers /\ sid[c] \in Sids
BY DEF TypeOK, Session, SessionRecords

LEMMA SetStateIsCallStep ==
    ASSUME TypeOK, SessionFollowsHandler, NEW c \in Conns, pc[c] \in InTurn, Unlocked(c),
           NEW state \in ActiveStates, SetState(c, state)
    PROVE  \E session \in SessionRecords :
               /\ SetSession(c, session)
               /\ session.state # "absent"
               /\ IsActive(session) => IsActive(Session(c))
<1>1. Session(c) \in SessionRecords
    BY SessionType
<1>2. IsActive(Session(c))
    BY DEF SessionFollowsHandler, FollowsHandler
<1>3. [Session(c) EXCEPT !.state = state] \in SessionRecords
    BY <1>1 DEF SessionRecords, SessionStates
<1> QED
    BY <1>1, <1>2, <1>3 DEF SetState, SessionRecords, ActiveStates

LEMMA EndSessionIsCallStep ==
    ASSUME TypeOK, NEW c \in Conns, NEW how \in Outcomes, EndSession(c, how)
    PROVE  \E session \in SessionRecords :
               /\ SetSession(c, session)
               /\ session.state # "absent"
               /\ IsActive(session) => IsActive(Session(c))
<1>1. Session(c) \in SessionRecords
    BY SessionType
<1>2. [Session(c) EXCEPT !.state = "ended", !.outcome = how] \in SessionRecords
    BY <1>1 DEF SessionRecords, SessionStates
<1> QED
    BY <1>1, <1>2 DEF EndSession, SessionRecords, IsActive, ActiveStates

LEMMA InCallActionIsCallStep ==
    ASSUME TypeOK, SessionFollowsHandler, NEW c \in Conns, InCallAction(c)
    PROVE  CallStep(c)
<1> USE DEF CallStep, Goto, processVars, strikeVars
<1> DEFINE Writes == \E session \in SessionRecords :
                         /\ SetSession(c, session)
                         /\ session.state # "absent"
                         /\ IsActive(session) => IsActive(Session(c))
<1>1. CASE ClientCloses(c)
    <2>1. pc' = [pc EXCEPT ![c] = pc[c]]
        BY <1>1 DEF ClientCloses, TypeOK
    <2> QED
        BY <1>1, <2>1 DEF ClientCloses
<1>2. CASE ReceiveAudio(c)
    <2>1. pc' = [pc EXCEPT ![c] = pc[c]] /\ pc[c] \in InTurn
        BY <1>2 DEF ReceiveAudio, TypeOK, connVars, InTurn, InCall, Speaking
    <2>2. Writes
        BY <1>2, <2>1, SetStateIsCallStep DEF ReceiveAudio, ActiveStates
    <2> QED
        BY <1>2, <2>1, <2>2 DEF ReceiveAudio, connVars, InTurn
<1>3. CASE ReceiveUtterance(c)
    <2>1. pc[c] \in InTurn
        BY <1>3 DEF ReceiveUtterance, InTurn, InCall, Speaking
    <2>2. Writes
        BY <1>3, <2>1, SetStateIsCallStep DEF ReceiveUtterance, ActiveStates
    <2> QED
        BY <1>3, <2>1, <2>2 DEF ReceiveUtterance, InTurn, InCall
<1>4. CASE ReceiveEnd(c)
    <2>1. Writes
        BY <1>4, EndSessionIsCallStep DEF ReceiveEnd, Outcomes
    <2> QED
        BY <1>4, <2>1 DEF ReceiveEnd, InCall
<1>5. CASE LeaveLoop(c)
    BY <1>5 DEF LeaveLoop, InCall
<1>6. CASE TurnStep(c)
    <2>1. CASE SttLowConfidence(c)
        BY <2>1 DEF SttLowConfidence, InCall, Speaking
    <2>2. CASE SttNothing(c)
        BY <2>2 DEF SttNothing, InCall
    <2>3. CASE SttTranscript(c)
        BY <2>3 DEF SttTranscript, InCall
    <2>4. CASE LoadTurnStrikes(c)
        BY <2>4 DEF LoadTurnStrikes, InCall
    <2>5. CASE SyncTurnStrikes(c)
        <3>1. SetSession(c, [Session(c) EXCEPT !.strikes = loaded[c]])
            BY <2>5 DEF SyncTurnStrikes
        <3>2. loaded[c] \in Nat
            BY DEF TypeOK
        <3>3. IsActive(Session(c))
            BY <2>5 DEF SyncTurnStrikes, SessionFollowsHandler, FollowsHandler,
                           InTurn, InCall, Speaking
        <3>4. Writes
            BY <3>1, <3>2, <3>3, SessionType DEF SessionRecords, IsActive, ActiveStates
        <3> QED
            BY <2>5, <3>4 DEF SyncTurnStrikes, InCall
    <2>6. CASE GraphReturns(c)
        <3>1. PICK query \in Query : \E result \in TurnResults(query, Session(c).strikes) :
                  SetSession(c, [Session(c) EXCEPT !.strikes = result.strikes])
            BY <2>6 DEF GraphReturns
        <3>2. PICK result \in Result :
                  SetSession(c, [Session(c) EXCEPT !.strikes = result.strikes])
            BY <3>1, TurnResultsType, SessionType DEF SessionRecords
        <3>3. IsActive(Session(c))
            BY <2>6 DEF GraphReturns, SessionFollowsHandler, FollowsHandler,
                           InTurn, InCall, Speaking
        <3>4. Writes
            BY <3>2, <3>3, SessionType DEF SessionRecords, IsActive, ActiveStates, Result
        <3> QED
            BY <2>6, <3>4 DEF GraphReturns, InCall
    <2>7. CASE GraphRaises(c)
        BY <2>7 DEF GraphRaises, InCall, Speaking
    <2>8. CASE SaveStrikes(c)
        BY <2>8 DEF SaveStrikes, InCall, Speaking, NextSpeech
    <2>9. CASE BeginSpeaking(c)
        <3>1. PICK out \in Outcomes :
                  SetSession(c, [Session(c) EXCEPT !.state = "speaking", !.outcome = out])
            BY <2>9, SessionType DEF BeginSpeaking, Outcomes, SessionRecords
        <3>2. IsActive(Session(c))
            BY <2>9 DEF BeginSpeaking, SessionFollowsHandler, FollowsHandler,
                           InTurn, InCall, Speaking
        <3>3. Writes
            BY <3>1, <3>2, SessionType DEF SessionRecords, IsActive, ActiveStates, SessionStates
        <3> QED
            BY <2>9, <3>3 DEF BeginSpeaking, InCall, Speaking
    <2> QED
        BY <1>6, <2>1, <2>2, <2>3, <2>4, <2>5, <2>6, <2>7, <2>8, <2>9 DEF TurnStep
<1>7. CASE EndOfTurn(c)
    <2>1. ASSUME pc[c] \in InTurn, Unlocked(c), BackToListening(c)
          PROVE  CallStep(c)
        <3>1. Writes
            BY <2>1, SetStateIsCallStep DEF BackToListening, ActiveStates
        <3> QED
            BY <2>1, <3>1 DEF BackToListening, InTurn, InCall
    <2>2. CASE FinishApology(c)
        BY <2>1, <2>2 DEF FinishApology, InTurn, InCall, Speaking
    <2>3. CASE FinishWarning(c)
        BY <2>1, <2>3 DEF FinishWarning, InTurn, InCall, Speaking
    <2>4. CASE FinishAnswer(c)
        BY <2>1, <2>4 DEF FinishAnswer, InTurn, InCall, Speaking
    <2>5. CASE FinishFallback(c)
        BY <2>5 DEF FinishFallback, InCall, Speaking
    <2>6. CASE FinishEscalation(c)
        <3>1. Writes
            BY <2>6, EndSessionIsCallStep DEF FinishEscalation, Outcomes
        <3> QED
            BY <2>6, <3>1 DEF FinishEscalation, InCall, Speaking
    <2>7. CASE FinishTermination(c)
        <3>1. Writes
            BY <2>7, EndSessionIsCallStep DEF FinishTermination, Outcomes
        <3> QED
            BY <2>7, <3>1 DEF FinishTermination, InCall, Speaking
    <2>8. CASE SpeechBroken(c)
        BY <2>8 DEF SpeechBroken, InCall
    <2> QED
        BY <1>7, <2>2, <2>3, <2>4, <2>5, <2>6, <2>7, <2>8 DEF EndOfTurn
<1>8. CASE FinishEnd(c)
    BY <1>8 DEF FinishEnd, InCall
<1>9. CASE Cleanup(c)
    <2>1. FinalOutcome(Session(c)) \in Outcomes
        BY SessionType DEF FinalOutcome, Outcomes, SessionRecords
    <2>2. CASE IsActive(Session(c))
        <3>1. Writes
            BY <1>9, <2>1, <2>2, EndSessionIsCallStep DEF Cleanup
        <3> QED
            BY <1>9, <3>1 DEF Cleanup, InCall
    <2>3. CASE ~IsActive(Session(c))
        BY <1>9, <2>3 DEF Cleanup, InCall
    <2> QED
        BY <2>2, <2>3
<1>10. CASE FinishCleanupDelete(c)
    BY <1>10 DEF FinishCleanupDelete, InCall
<1> QED
    BY <1>1, <1>2, <1>3, <1>4, <1>5, <1>6, <1>7, <1>8, <1>9, <1>10 DEF InCallAction

-----------------------------------------------------------------------------
(* The invariants a step inside a call keeps, whatever action it is *)

LEMMA ActiveOnFinite ==
    ASSUME NEW w \in Workers
    PROVE  IsFiniteSet(ActiveOn(w)) /\ Cardinality(ActiveOn(w)) \in Nat
BY FS_Subset, FS_CardinalityType, VoiceCallAssumption DEF ActiveOn

\* Sessions that a step does not activate do not take another place.
LEMMA FewerActive ==
    ASSUME CapacityRespected,
           \A w \in Workers : ActiveOn(w)' \subseteq ActiveOn(w)
    PROVE  CapacityRespected'
<1> SUFFICES ASSUME NEW w \in Workers
             PROVE  Cardinality(ActiveOn(w)') <= MaxSessions
    BY DEF CapacityRespected
<1>1. Cardinality(ActiveOn(w)') <= Cardinality(ActiveOn(w)) /\ Cardinality(ActiveOn(w)') \in Nat
    BY ActiveOnFinite, FS_Subset, FS_CardinalityType
<1> QED
    BY <1>1, ActiveOnFinite, VoiceCallAssumption DEF CapacityRespected

LEMMA CallStepKeepsInvariants ==
    ASSUME IInv, NEW c \in Conns, CallStep(c)
    PROVE  /\ LockHeld' /\ Reserved' /\ OneHandlerPerSession'
           /\ CapacityRespected' /\ GaugeBalanced'
<1> USE DEF IInv
<1>1. PICK to \in InCall : Goto(c, to)
    BY DEF CallStep
<1>2. \A d \in Conns : /\ pc[d] \in InCall <=> pc'[d] \in InCall
                       /\ pc[d] \in {"hydrating", "registering"}
                             <=> pc'[d] \in {"hydrating", "registering"}
    BY <1>1 DEF CallStep, Goto, TypeOK, InCall, Speaking
<1>3. sid' = sid /\ worker' = worker /\ lock' = lock /\ activeCalls' = activeCalls
    BY DEF CallStep
<1>4. \A w \in Workers, s \in Sids :
          \/ sessions'[w][s] = sessions[w][s]
          \/ /\ w = worker[c] /\ s = sid[c] /\ lock[w] = NoConn
             /\ sessions'[w][s].state # "absent"
             /\ IsActive(sessions'[w][s]) => IsActive(sessions[w][s])
    BY DEF CallStep, SetSession, TypeOK, Session, Unlocked
<1>5. LockHeld'
    BY <1>2, <1>3 DEF LockHeld
<1>6. Reserved'
    <2> SUFFICES ASSUME NEW d \in Conns, pc[d] \in {"hydrating", "registering"}
                 PROVE  /\ Session(d)' = Session(d)
                        /\ ActiveOn(worker[d])' = ActiveOn(worker[d])
        BY <1>2, <1>3 DEF Reserved
    <2>1. lock[worker[d]] # NoConn /\ worker[d] \in Workers /\ sid[d] \in Sids
        BY VoiceCallAssumption DEF LockHeld, TypeOK
    <2>2. \A s \in Sids : sessions'[worker[d]][s] = sessions[worker[d]][s]
        BY <1>4, <2>1
    <2> QED
        BY <1>3, <2>1, <2>2 DEF Session, ActiveOn
<1>7. OneHandlerPerSession'
    <2>1. \A d \in Conns : pc[d] \in InCall => Session(d).state # "absent"
        BY DEF SessionFollowsHandler, FollowsHandler, InTurn, IsActive, ActiveStates
    <2>2. \A d \in Conns : pc[d] \in InCall => Session(d)'.state # "absent"
        BY <1>3, <1>4, <2>1 DEF Session, TypeOK
    <2> QED
        BY <1>2, <1>3, <2>2 DEF OneHandlerPerSession, Absent
<1>8. CapacityRespected'
    BY <1>4, FewerActive DEF ActiveOn
<1>9. GaugeBalanced'
    <2>1. \A w \in Workers : {d \in Conns : worker[d] = w /\ pc[d] \in InCall}
                           = {d \in Conns : worker'[d] = w /\ pc'[d] \in InCall}
        BY <1>2, <1>3
    <2> QED
        BY <1>3, <2>1 DEF GaugeBalanced
<1> QED
    BY <1>5, <1>6, <1>7, <1>8, <1>9

-----------------------------------------------------------------------------
(* Types *)

StrikesTypeOK ==
    /\ strikeKey \in [Sids -> Nat \cup {NoKey}]
    /\ harm \in [Sids -> Nat]
    /\ tainted \in [Sids -> BOOLEAN]

LocalsTypeOK ==
    /\ gone \in [Conns -> BOOLEAN]
    /\ loaded \in [Conns -> Nat]
    /\ turn \in [Conns -> Turns]
    /\ outcome \in [Conns -> Outcomes]

LEMMA NoTurnType == NoTurn \in Turns
BY DEF NoTurn, Turns, Query, Result, InitialState

LEMMA RecordType ==
    ASSUME TypeOK, NEW s \in Sids, NEW ok \in BOOLEAN, NEW count \in Nat,
           Record(s, ok, count)
    PROVE  harm' \in [Sids -> Nat] /\ tainted' \in [Sids -> BOOLEAN]
<1>1. harm' \in [Sids -> Nat]
    BY DEF Record, TypeOK
<1>2. tainted' \in [Sids -> BOOLEAN]
    BY Zenon DEF Record, TypeOK
<1> QED
    BY <1>1, <1>2

LEMMA DeleteStrikesType ==
    ASSUME TypeOK, NEW s \in Sids, DeleteStrikes(s)
    PROVE  StrikesTypeOK'
<1>1. PICK ok \in BOOLEAN :
          /\ strikeKey' = IF ok THEN [strikeKey EXCEPT ![s] = NoKey] ELSE strikeKey
          /\ Record(s, ok, 0)
    BY DEF DeleteStrikes
<1>2. harm' \in [Sids -> Nat] /\ tainted' \in [Sids -> BOOLEAN]
    BY <1>1, RecordType
<1>3. strikeKey' \in [Sids -> Nat \cup {NoKey}]
    BY <1>1 DEF TypeOK
<1> QED
    BY <1>2, <1>3 DEF StrikesTypeOK

LEMMA SetSessionType ==
    ASSUME TypeOK, NEW c \in Conns, NEW session \in SessionRecords, SetSession(c, session)
    PROVE  sessions' \in [Workers -> [Sids -> SessionRecords]]
<1>1. worker[c] \in Workers /\ sid[c] \in Sids
    BY SessionType
<1>2. sessions[worker[c]] \in [Sids -> SessionRecords]
    BY <1>1 DEF TypeOK
<1>3. [sessions[worker[c]] EXCEPT ![sid[c]] = session] \in [Sids -> SessionRecords]
    BY <1>2
<1> QED
    BY <1>1, <1>3 DEF SetSession, TypeOK

LEMMA CallStepType ==
    ASSUME TypeOK, NEW c \in Conns, CallStep(c), StrikesTypeOK', LocalsTypeOK'
    PROVE  TypeOK'
<1>1. pc' \in [Conns -> PCs]
    BY DEF CallStep, Goto, TypeOK, PCs
<1>2. sessions' \in [Workers -> [Sids -> SessionRecords]]
    <2>1. CASE UNCHANGED sessions
        BY <2>1 DEF TypeOK
    <2>2. ASSUME NEW session \in SessionRecords, SetSession(c, session)
          PROVE  sessions' \in [Workers -> [Sids -> SessionRecords]]
        BY <2>2, SetSessionType
    <2> QED
        BY <2>1, <2>2 DEF CallStep
<1> QED
    BY <1>1, <1>2 DEF CallStep, TypeOK, StrikesTypeOK, LocalsTypeOK

LEMMA InCallActionType ==
    ASSUME TypeOK, SessionFollowsHandler, NEW c \in Conns, InCallAction(c)
    PROVE  TypeOK'
<1> USE DEF strikeVars, connVars, processVars
<1>1. CallStep(c)
    BY InCallActionIsCallStep
<1>2. StrikesTypeOK /\ LocalsTypeOK
    BY DEF TypeOK, StrikesTypeOK, LocalsTypeOK
<1>3. UNCHANGED strikeVars => StrikesTypeOK'
    BY <1>2 DEF StrikesTypeOK
<1>4. UNCHANGED <<gone, loaded, turn, outcome>> => LocalsTypeOK'
    BY <1>2 DEF LocalsTypeOK
<1>5. turn' = [turn EXCEPT ![c] = NoTurn] /\ UNCHANGED <<gone, loaded, outcome>>
      => LocalsTypeOK'
    BY <1>2, NoTurnType DEF LocalsTypeOK
<1>6. StrikesTypeOK'
    <2>1. CASE LoadTurnStrikes(c)
        <3>1. PICK ok \in BOOLEAN : Record(sid[c], ok, harm[sid[c]])
            BY <2>1 DEF LoadTurnStrikes
        <3>2. harm[sid[c]] \in Nat /\ sid[c] \in Sids
            BY DEF TypeOK
        <3> QED
            BY <2>1, <3>1, <3>2, <1>2, RecordType DEF LoadTurnStrikes, StrikesTypeOK
    <2>2. CASE SaveStrikes(c)
        <3>1. PICK ok \in BOOLEAN :
                 /\ strikeKey' = IF ok THEN [strikeKey EXCEPT ![sid[c]] = turn[c].result.strikes]
                                 ELSE strikeKey
                 /\ Record(sid[c], ok, HarmAfter(c))
            BY <2>2 DEF SaveStrikes
        <3>2. turn[c].result.strikes \in Nat /\ sid[c] \in Sids
            BY DEF TypeOK, Turns, Result
        <3>3. HarmAfter(c) \in Nat
            BY <3>2 DEF TypeOK, Turns, Result, HarmAfter
        <3>4. strikeKey' \in [Sids -> Nat \cup {NoKey}]
            BY <3>1, <3>2 DEF TypeOK
        <3> QED
            BY <3>1, <3>2, <3>3, <3>4, RecordType DEF StrikesTypeOK
    <2>3. CASE FinishEnd(c) \/ FinishCleanupDelete(c)
        BY <2>3, DeleteStrikesType DEF FinishEnd, FinishCleanupDelete, TypeOK
    <2>4. CASE UNCHANGED strikeVars
        BY <2>4, <1>3
    <2> QED
        BY <2>1, <2>2, <2>3, <2>4, Zenon
        DEF InCallAction, TurnStep, EndOfTurn, ClientCloses, ReceiveAudio, ReceiveUtterance,
            ReceiveEnd, LeaveLoop, SttLowConfidence, SttNothing, SttTranscript,
            SyncTurnStrikes, GraphReturns, GraphRaises, BeginSpeaking, FinishApology,
            FinishWarning, FinishAnswer, FinishFallback, FinishEscalation,
            FinishTermination, SpeechBroken, BackToListening, Cleanup
<1>7. LocalsTypeOK'
    <2>1. CASE ClientCloses(c)
        BY <2>1, <1>2 DEF ClientCloses, LocalsTypeOK
    <2>2. CASE GraphReturns(c)
        <3>1. PICK query \in Query : \E result \in TurnResults(query, Session(c).strikes) :
                  turn' = [turn EXCEPT ![c] = [query |-> query, result |-> result]]
            BY <2>2 DEF GraphReturns
        <3>2. PICK result \in Result :
                  turn' = [turn EXCEPT ![c] = [query |-> query, result |-> result]]
            BY <3>1, TurnResultsType, SessionType DEF SessionRecords
        <3>3. turn' \in [Conns -> Turns]
            BY <3>2, <1>2 DEF Turns, LocalsTypeOK
        <3> QED
            BY <3>3, <2>2, <1>2 DEF GraphReturns, LocalsTypeOK
    <2>3. CASE SaveStrikes(c)
        BY <2>3, <1>4, <1>5, <1>2, NoTurnType DEF SaveStrikes, AfterSave, LocalsTypeOK
    <2>4. CASE Cleanup(c)
        <3>1. FinalOutcome(Session(c)) \in Outcomes
            BY SessionType DEF FinalOutcome, Outcomes, SessionRecords
        <3> QED
            BY <2>4, <3>1, <1>2 DEF Cleanup, LocalsTypeOK
    <2>5. CASE UNCHANGED <<gone, loaded, turn, outcome>>
        BY <2>5, <1>4
    <2>6. CASE turn' = [turn EXCEPT ![c] = NoTurn] /\ UNCHANGED <<gone, loaded, outcome>>
        BY <2>6, <1>5
    <2>7. CASE LoadTurnStrikes(c) \/ SyncTurnStrikes(c)
        <3>1. KeyValue(sid[c]) \in Nat
            BY DEF KeyValue, TypeOK
        <3>2. \E n \in Nat : loaded' = [loaded EXCEPT ![c] = n]
            BY <2>7, <3>1 DEF LoadTurnStrikes, SyncTurnStrikes, Loaded
        <3>3. UNCHANGED <<gone, turn, outcome>>
            BY <2>7 DEF LoadTurnStrikes, SyncTurnStrikes
        <3> QED
            BY <3>2, <3>3, <1>2 DEF LocalsTypeOK
    <2> QED
        BY <2>1, <2>2, <2>3, <2>4, <2>5, <2>6, <2>7, Zenon
        DEF InCallAction, TurnStep, EndOfTurn, ReceiveAudio, ReceiveUtterance, ReceiveEnd,
            LeaveLoop, SttLowConfidence, SttNothing, SttTranscript,
            GraphRaises, BeginSpeaking, FinishApology, FinishWarning, FinishAnswer,
            FinishFallback, FinishEscalation, FinishTermination, SpeechBroken,
            BackToListening, FinishEnd, FinishCleanupDelete
<1> QED
    BY <1>1, <1>6, <1>7, CallStepType

-----------------------------------------------------------------------------
(* A session follows its handler through a call *)

LEMMA SetSessionRead ==
    ASSUME TypeOK, NEW c \in Conns, NEW session, SetSession(c, session),
           sid' = sid, worker' = worker
    PROVE  Session(c)' = session
BY DEF SetSession, Session, TypeOK

\* A handler in a call shares its session with nobody, so another's step
\* changes nothing of what it relies on.
LEMMA OthersFollow ==
    ASSUME IInv, NEW c \in Conns, CallStep(c), NEW d \in Conns \ {c},
           turn'[d] = turn[d], outcome'[d] = outcome[d]
    PROVE  FollowsHandler(d)'
<1> USE DEF IInv
<1>1. pc'[d] = pc[d] /\ worker' = worker /\ sid' = sid
    BY DEF CallStep, Goto, TypeOK
<1>2. CASE pc[d] \in InCall
    <2>1. <<worker[d], sid[d]>> # <<worker[c], sid[c]>>
        BY <1>2 DEF OneHandlerPerSession, CallStep
    <2>2. Session(d)' = Session(d)
        BY <1>1, <2>1 DEF CallStep, SetSession, Session, TypeOK
    <2> QED
        BY <1>1, <2>2 DEF SessionFollowsHandler, FollowsHandler, PendingOutcome
<1>3. CASE pc[d] \notin InCall
    BY <1>1, <1>3 DEF FollowsHandler, InTurn, InCall, Speaking
<1> QED
    BY <1>2, <1>3

LEMMA InCallActionFollows ==
    ASSUME IInv, NEW c \in Conns, InCallAction(c)
    PROVE  SessionFollowsHandler'
<1> USE DEF IInv, InCall, Speaking, InTurn
<1>1. CallStep(c)
    BY InCallActionIsCallStep
<1>2. sid' = sid /\ worker' = worker
    BY <1>1 DEF CallStep
<1>3. \A session : SetSession(c, session) => Session(c)' = session
    BY <1>2, SetSessionRead
<1>4. UNCHANGED sessions => Session(c)' = Session(c)
    BY <1>2 DEF Session
<1>5. FollowsHandler(c) /\ Session(c) \in SessionRecords
    BY SessionType DEF SessionFollowsHandler
<1>6. ASSUME NEW d \in Conns \ {c}
      PROVE  FollowsHandler(d)'
    <2>1. turn'[d] = turn[d] /\ outcome'[d] = outcome[d]
        BY <1>6
        DEF TypeOK, InCallAction, TurnStep, EndOfTurn, ClientCloses, ReceiveAudio,
            ReceiveUtterance, ReceiveEnd, LeaveLoop, SttLowConfidence, SttNothing,
            SttTranscript, LoadTurnStrikes, SyncTurnStrikes, GraphReturns, GraphRaises,
            SaveStrikes, AfterSave, BeginSpeaking, FinishApology, FinishWarning,
            FinishAnswer, FinishFallback, FinishEscalation, FinishTermination, SpeechBroken,
            BackToListening, FinishEnd, Cleanup, FinishCleanupDelete, connVars
    <2> QED
        BY <1>1, <2>1, OthersFollow
<1>7. FollowsHandler(c)'
    <2> USE <1>2, <1>5 DEF FollowsHandler, PendingOutcome, TypeOK, Goto, IsActive, ActiveStates,
                           SessionRecords, SetState, EndSession
    <2>1. CASE ClientCloses(c)
        BY <2>1, <1>4 DEF ClientCloses, processVars
    <2>2. CASE ReceiveAudio(c)
        BY <2>2, <1>3 DEF ReceiveAudio, connVars
    <2>3. CASE ReceiveUtterance(c)
        BY <2>3, <1>3 DEF ReceiveUtterance
    <2>4. CASE ReceiveEnd(c)
        BY <2>4, <1>3 DEF ReceiveEnd
    <2>5. CASE LeaveLoop(c)
        BY <2>5, <1>4 DEF LeaveLoop, processVars
    <2>6. CASE TurnStep(c)
        <3>1. CASE \/ SttLowConfidence(c) \/ SttNothing(c) \/ SttTranscript(c)
                   \/ LoadTurnStrikes(c) \/ GraphRaises(c)
            BY <3>1, <1>4 DEF SttLowConfidence, SttNothing, SttTranscript, LoadTurnStrikes,
                               GraphRaises, processVars
        <3>2. CASE SyncTurnStrikes(c)
            BY <3>2, <1>3 DEF SyncTurnStrikes
        <3>3. CASE GraphReturns(c)
            BY <3>3, <1>3 DEF GraphReturns
        <3>4. CASE SaveStrikes(c)
            BY <3>4, <1>4 DEF SaveStrikes, NextSpeech, processVars
        <3>5. CASE BeginSpeaking(c)
            BY <3>5, <1>3 DEF BeginSpeaking
        <3> QED
            BY <2>6, <3>1, <3>2, <3>3, <3>4, <3>5 DEF TurnStep
    <2>7. CASE EndOfTurn(c)
        <3>1. CASE FinishApology(c) \/ FinishWarning(c) \/ FinishAnswer(c)
            BY <3>1, <1>3 DEF FinishApology, FinishWarning, FinishAnswer, BackToListening
        <3>2. CASE FinishFallback(c) \/ SpeechBroken(c)
            BY <3>2, <1>4 DEF FinishFallback, SpeechBroken, processVars
        <3>3. CASE FinishEscalation(c) \/ FinishTermination(c)
            BY <3>3, <1>3 DEF FinishEscalation, FinishTermination
        <3> QED
            BY <2>7, <3>1, <3>2, <3>3 DEF EndOfTurn
    <2>8. CASE FinishEnd(c) \/ FinishCleanupDelete(c)
        BY <2>8, <1>4 DEF FinishEnd, FinishCleanupDelete, processVars
    <2>9. CASE Cleanup(c)
        <3>1. outcome'[c] = FinalOutcome(Session(c))
            BY <2>9 DEF Cleanup
        <3>2. CASE IsActive(Session(c))
            BY <2>9, <3>1, <3>2, <1>3 DEF Cleanup
        <3>3. CASE ~IsActive(Session(c))
            <4>1. Session(c).state = "ended" /\ Session(c).outcome # "none"
                BY <2>9, <3>3 DEF Cleanup, SessionStates
            <4> QED
                BY <2>9, <3>1, <3>3, <4>1, <1>4 DEF Cleanup, FinalOutcome
        <3> QED
            BY <3>2, <3>3
    <2> QED
        BY <2>1, <2>2, <2>3, <2>4, <2>5, <2>6, <2>7, <2>8, <2>9 DEF InCallAction
<1> QED
    BY <1>6, <1>7 DEF SessionFollowsHandler

-----------------------------------------------------------------------------
(* The steps at the ends of a call *)

LEMMA InitIInv == Init => IInv
<1> SUFFICES ASSUME Init
             PROVE  IInv
    OBVIOUS
<1>1. TypeOK
    <2>1. 0 \in 0..MaxRestarts
        BY VoiceCallAssumption
    <2>2. Absent \in SessionRecords
        BY DEF Absent, SessionRecords, SessionStates, Outcomes
    <2> QED
        BY <2>1, <2>2, NoTurnType
        DEF Init, TypeOK, PCs, Outcomes
<1>2. \A c \in Conns : pc[c] = "connecting"
    BY DEF Init
<1>3. CapacityRespected
    <2>1. \A w \in Workers : ActiveOn(w) = {}
        BY DEF Init, ActiveOn, Absent, IsActive, ActiveStates
    <2> QED
        BY <2>1, FS_EmptySet, VoiceCallAssumption DEF CapacityRespected
<1>4. GaugeBalanced
    <2>1. \A w \in Workers : {c \in Conns : worker[c] = w /\ pc[c] \in InCall} = {}
        BY <1>2 DEF InCall, Speaking
    <2> QED
        BY <2>1, FS_EmptySet DEF GaugeBalanced, Init
<1>5. LockHeld /\ Reserved
    BY <1>2, VoiceCallAssumption DEF LockHeld, Reserved, Init
<1>6. OneHandlerPerSession /\ SessionFollowsHandler
    BY <1>2 DEF OneHandlerPerSession, SessionFollowsHandler, FollowsHandler, InTurn, InCall,
                Speaking
<1> QED
    BY <1>1, <1>3, <1>4, <1>5, <1>6 DEF IInv

\* A step that moves no handler in or out of a call, and no session.
LEMMA QuietStep ==
    ASSUME IInv, TypeOK', sid' = sid, worker' = worker, sessions' = sessions,
           activeCalls' = activeCalls, LockHeld', Reserved',
           \A c \in Conns :
               /\ pc[c] \in InCall <=> pc'[c] \in InCall
               /\ pc[c] \in InCall => /\ pc'[c] = pc[c] /\ turn'[c] = turn[c]
                                     /\ outcome'[c] = outcome[c]
    PROVE  IInv'
<1> USE DEF IInv
<1>1. \A c \in Conns : Session(c)' = Session(c)
    BY DEF Session
<1>2. OneHandlerPerSession'
    BY <1>1 DEF OneHandlerPerSession
<1>3. SessionFollowsHandler'
    BY <1>1 DEF SessionFollowsHandler, FollowsHandler, PendingOutcome, InTurn, InCall, Speaking
<1>4. CapacityRespected'
    BY FewerActive DEF ActiveOn
<1>5. GaugeBalanced'
    <2>1. \A w \in Workers : {c \in Conns : worker[c] = w /\ pc[c] \in InCall}
                           = {c \in Conns : worker'[c] = w /\ pc'[c] \in InCall}
        OBVIOUS
    <2> QED
        BY <2>1 DEF GaugeBalanced
<1> QED
    BY <1>2, <1>3, <1>4, <1>5

LEMMA RejectSessionIInv ==
    ASSUME IInv, NEW c \in Conns, RejectSession(c)
    PROVE  IInv'
<1> USE DEF IInv, RejectSession, Goto, processVars, strikeVars
<1>1. \A d \in Conns : /\ pc[d] \in InCall <=> pc'[d] \in InCall
                       /\ pc[d] \in InCall => pc'[d] = pc[d]
                       /\ pc[d] \in {"hydrating", "registering"}
                             <=> pc'[d] \in {"hydrating", "registering"}
    BY DEF TypeOK, InCall, Speaking
<1>2. TypeOK'
    BY DEF TypeOK, PCs, Finished
<1>3. LockHeld' /\ Reserved'
    BY <1>1 DEF LockHeld, Reserved, Session, ActiveOn
<1> QED
    BY <1>1, <1>2, <1>3, QuietStep

LEMMA AdmitSessionIInv ==
    ASSUME IInv, NEW c \in Conns, AdmitSession(c)
    PROVE  IInv'
<1> USE DEF IInv, AdmitSession, Goto, strikeVars
<1>1. \A d \in Conns : /\ pc[d] \in InCall <=> pc'[d] \in InCall
                       /\ pc[d] \in InCall => pc'[d] = pc[d]
                       /\ pc'[d] \in {"hydrating", "registering"}
                             <=> pc[d] \in {"hydrating", "registering"} \/ d = c
    BY DEF TypeOK, InCall, Speaking
<1>2. TypeOK'
    BY DEF TypeOK, PCs
<1>3. LockHeld'
    BY <1>1, VoiceCallAssumption DEF LockHeld, Unlocked, TypeOK
<1>4. Reserved'
    <2>1. Session(c) = Absent /\ Cardinality(ActiveOn(worker[c])) < MaxSessions
        BY ActiveOnFinite, VoiceCallAssumption DEF MustReject, TypeOK
    <2> QED
        BY <1>1, <2>1 DEF Reserved, Session, ActiveOn
<1> QED
    BY <1>1, <1>2, <1>3, <1>4, QuietStep

LEMMA HydrateSessionIInv ==
    ASSUME IInv, NEW c \in Conns, HydrateSession(c)
    PROVE  IInv'
<1> USE DEF IInv, HydrateSession, Goto, processVars, strikeVars
<1>1. \A d \in Conns : /\ pc[d] \in InCall <=> pc'[d] \in InCall
                       /\ pc[d] \in InCall => pc'[d] = pc[d]
                       /\ pc[d] \in {"hydrating", "registering"}
                             <=> pc'[d] \in {"hydrating", "registering"}
    BY DEF TypeOK, InCall, Speaking
<1>2. TypeOK'
    <2>1. KeyValue(sid[c]) \in Nat
        BY DEF KeyValue, TypeOK
    <2>2. loaded' \in [Conns -> Nat]
        BY <2>1 DEF Loaded, TypeOK
    <2> QED
        BY <2>2 DEF TypeOK, PCs
<1>3. LockHeld' /\ Reserved'
    BY <1>1 DEF LockHeld, Reserved, Session, ActiveOn
<1> QED
    BY <1>1, <1>2, <1>3, QuietStep

LEMMA RegisterSessionIInv ==
    ASSUME IInv, NEW c \in Conns, RegisterSession(c)
    PROVE  IInv'
<1> USE DEF IInv
<1> DEFINE new == NewSession(loaded[c])
<1>1. SetSession(c, new) /\ Record(sid[c], ~Shared(c), harm[sid[c]])
    BY DEF RegisterSession
<1>2. /\ pc[c] = "registering" /\ pc' = [pc EXCEPT ![c] = "receive"]
      /\ sid' = sid /\ worker' = worker /\ gone' = gone /\ turn' = turn
      /\ loaded' = [loaded EXCEPT ![c] = 0]
      /\ outcome' = outcome /\ restarts' = restarts /\ strikeKey' = strikeKey
      /\ lock' = [lock EXCEPT ![worker[c]] = NoConn]
      /\ activeCalls' = [activeCalls EXCEPT ![worker[c]] = @ + 1]
    BY DEF RegisterSession, Goto
<1>3. worker[c] \in Workers /\ sid[c] \in Sids
    BY SessionType
<1>4. new \in SessionRecords /\ IsActive(new) /\ new.state # "absent" /\ new.outcome = "none"
    <2>1. loaded[c] \in Nat
        BY DEF TypeOK
    <2> QED
        BY <2>1 DEF NewSession, SessionRecords, SessionStates, ActiveStates, Outcomes, IsActive
<1>5. TypeOK'
    <2>1. harm' \in [Sids -> Nat] /\ tainted' \in [Sids -> BOOLEAN]
        <3>1. (~Shared(c)) \in BOOLEAN /\ harm[sid[c]] \in Nat
            BY <1>3 DEF Shared, TypeOK
        <3> QED
            BY <1>1, <1>3, <3>1, RecordType
    <2>2. sessions' \in [Workers -> [Sids -> SessionRecords]]
        BY <1>1, <1>4, SetSessionType
    <2>3. activeCalls' \in [Workers -> Int] /\ lock' \in [Workers -> Conns \cup {NoConn}]
        BY <1>2, <1>3 DEF TypeOK
    <2> QED
        BY <1>2, <2>1, <2>2, <2>3 DEF TypeOK, PCs, InCall
<1>6. \A d \in Conns \ {c} : pc'[d] = pc[d]
    BY <1>2 DEF TypeOK
<1>7. pc'[c] = "receive" /\ pc'[c] \in InTurn /\ pc'[c] \in InCall /\ pc[c] \notin InCall
    BY <1>2 DEF TypeOK, InTurn, InCall, Speaking
<1>8. Session(c)' = new
    BY <1>1, <1>2, SetSessionRead
<1>9. \A d \in Conns \ {c} :
          <<worker[d], sid[d]>> # <<worker[c], sid[c]>> => Session(d)' = Session(d)
    BY <1>1, <1>2 DEF SetSession, Session, TypeOK
<1>10. \A d \in Conns \ {c} :
           pc[d] \in InCall => <<worker[d], sid[d]>> # <<worker[c], sid[c]>>
    BY <1>2 DEF Reserved, OneHandlerPerSession, Session
<1>11. \A w \in Workers \ {worker[c]} : sessions'[w] = sessions[w]
    BY <1>1 DEF SetSession, TypeOK
<1>12. LockHeld'
    BY <1>2, <1>3, <1>6, <1>7, VoiceCallAssumption DEF LockHeld, TypeOK
<1>13. Reserved'
    <2> SUFFICES ASSUME NEW d \in Conns, pc'[d] \in {"hydrating", "registering"}
                 PROVE  Session(d)' = Session(d) /\ ActiveOn(worker[d])' = ActiveOn(worker[d])
        BY <1>2, <1>6, <1>7 DEF Reserved
    <2>1. d # c /\ pc[d] \in {"hydrating", "registering"}
        BY <1>6, <1>7
    <2>2. worker[d] # worker[c]
        BY <1>2, <1>3, <2>1 DEF LockHeld, TypeOK
    <2> QED
        BY <1>2, <1>9, <1>11, <2>1, <2>2 DEF ActiveOn, TypeOK
<1>14. OneHandlerPerSession'
    <2>1. \A d \in Conns : pc'[d] \in InCall => Session(d)' # Absent
        BY <1>4, <1>6, <1>7, <1>8, <1>9, <1>10 DEF OneHandlerPerSession, Absent
    <2> QED
        BY <1>2, <1>6, <1>7, <1>10, <2>1 DEF OneHandlerPerSession
<1>15. SessionFollowsHandler'
    <2>1. FollowsHandler(c)'
        BY <1>4, <1>7, <1>8 DEF FollowsHandler, PendingOutcome
    <2>2. ASSUME NEW d \in Conns \ {c}
          PROVE  FollowsHandler(d)'
        <3>1. CASE pc[d] \in InCall
            BY <1>2, <1>6, <1>9, <1>10, <3>1
            DEF SessionFollowsHandler, FollowsHandler, PendingOutcome
        <3>2. CASE pc[d] \notin InCall
            BY <1>6, <3>2 DEF FollowsHandler, InTurn, InCall, Speaking
        <3> QED
            BY <3>1, <3>2
    <2> QED
        BY <2>1, <2>2 DEF SessionFollowsHandler
<1>16. CapacityRespected'
    <2> SUFFICES ASSUME NEW w \in Workers
                 PROVE  Cardinality(ActiveOn(w)') <= MaxSessions
        BY DEF CapacityRespected
    <2>1. CASE w = worker[c]
        <3>1. ActiveOn(w)' = ActiveOn(w) \cup {sid[c]}
            BY <1>1, <1>3, <1>4, <2>1 DEF ActiveOn, SetSession, TypeOK
        <3>2. sid[c] \notin ActiveOn(w)
            <4>1. Session(c) = Absent
                BY <1>2 DEF Reserved
            <4>2. ~IsActive(Absent)
                BY DEF Absent, IsActive, ActiveStates
            <4> QED
                BY <4>1, <4>2, <2>1 DEF ActiveOn, Session
        <3>3. Cardinality(ActiveOn(w)') = Cardinality(ActiveOn(w)) + 1
            BY <3>1, <3>2, ActiveOnFinite, FS_AddElement
        <3>4. Cardinality(ActiveOn(w)) < MaxSessions
            BY <1>2, <2>1 DEF Reserved
        <3> QED
            BY <3>3, <3>4, ActiveOnFinite, VoiceCallAssumption
    <2>2. CASE w # worker[c]
        BY <1>11, <2>2 DEF ActiveOn, CapacityRespected
    <2> QED
        BY <2>1, <2>2
<1>17. GaugeBalanced'
    <2> DEFINE Calls(w) == {d \in Conns : worker[d] = w /\ pc[d] \in InCall}
    <2>1. Calls(worker[c])' = Calls(worker[c]) \cup {c} /\ c \notin Calls(worker[c])
        BY <1>2, <1>6, <1>7
    <2>2. IsFiniteSet(Calls(worker[c]))
        BY FS_Subset, VoiceCallAssumption
    <2>3. Cardinality(Calls(worker[c])') = Cardinality(Calls(worker[c])) + 1
        BY <2>1, <2>2, FS_AddElement
    <2>4. \A w \in Workers \ {worker[c]} : Calls(w)' = Calls(w)
        BY <1>2, <1>6, <1>7
    <2> QED
        BY <1>2, <1>3, <2>3, <2>4 DEF GaugeBalanced, TypeOK
<1> QED
    BY <1>5, <1>12, <1>13, <1>14, <1>15, <1>16, <1>17

LEMMA ReportCallIInv ==
    ASSUME IInv, NEW c \in Conns, ReportCall(c)
    PROVE  IInv'
<1> USE DEF IInv, ReportCall, Goto, strikeVars
<1>1. \A d \in Conns \ {c} : pc'[d] = pc[d]
    BY DEF TypeOK
<1>2. /\ pc'[c] = "done" /\ pc'[c] \notin InCall /\ pc'[c] \notin InTurn
      /\ pc[c] = "closing" /\ pc[c] \in InCall
    BY DEF TypeOK, InTurn, InCall, Speaking
<1>3. \A d \in Conns : Session(d)' = Session(d)
    BY DEF Session
<1>4. TypeOK'
    <2>1. activeCalls' \in [Workers -> Int]
        BY DEF TypeOK
    <2> QED
        BY <2>1 DEF TypeOK, PCs, Finished
<1>5. LockHeld' /\ Reserved'
    BY <1>1, <1>2, <1>3 DEF LockHeld, Reserved, ActiveOn
<1>6. OneHandlerPerSession'
    BY <1>1, <1>2, <1>3 DEF OneHandlerPerSession
<1>7. SessionFollowsHandler'
    <2>1. FollowsHandler(c)'
        BY <1>2 DEF FollowsHandler
    <2>2. \A d \in Conns \ {c} : FollowsHandler(d)'
        BY <1>1, <1>3 DEF SessionFollowsHandler, FollowsHandler, PendingOutcome
    <2> QED
        BY <2>1, <2>2 DEF SessionFollowsHandler
<1>8. CapacityRespected'
    BY FewerActive DEF ActiveOn
<1>9. GaugeBalanced'
    <2> DEFINE Calls(w) == {d \in Conns : worker[d] = w /\ pc[d] \in InCall}
    <2>1. Calls(worker[c])' = Calls(worker[c]) \ {c} /\ c \in Calls(worker[c])
        BY <1>1, <1>2
    <2>2. IsFiniteSet(Calls(worker[c]))
        BY FS_Subset, VoiceCallAssumption
    <2>3. Cardinality(Calls(worker[c])') = Cardinality(Calls(worker[c])) - 1
        BY <2>1, <2>2, FS_RemoveElement
    <2>4. \A w \in Workers \ {worker[c]} : Calls(w)' = Calls(w)
        BY <1>1, <1>2
    <2> QED
        BY <2>3, <2>4 DEF GaugeBalanced, TypeOK
<1> QED
    BY <1>4, <1>5, <1>6, <1>7, <1>8, <1>9

LEMMA CrashIInv ==
    ASSUME IInv, NEW w \in Workers, Crash(w)
    PROVE  IInv'
<1> USE DEF IInv, Crash, strikeVars
<1>1. \A c \in Conns : worker[c] = w =>
          /\ pc'[c] \notin {"hydrating", "registering"}
          /\ pc'[c] \notin InCall /\ pc'[c] \notin InTurn
    BY DEF TypeOK, PCs, InTurn, InCall, Speaking, Finished
<1>2. \A c \in Conns : worker[c] # w =>
          pc'[c] = pc[c] /\ turn'[c] = turn[c] /\ Session(c)' = Session(c)
    BY DEF TypeOK, Session
<1>3. \A v \in Workers \ {w} : ActiveOn(v)' = ActiveOn(v)
    BY DEF ActiveOn, TypeOK
<1>4. ActiveOn(w)' = {}
    BY DEF ActiveOn, TypeOK, Absent, IsActive, ActiveStates
<1>5. TypeOK'
    <2>1. pc' \in [Conns -> PCs]
        BY DEF TypeOK, PCs, Finished
    <2>2. turn' \in [Conns -> Turns] /\ loaded' \in [Conns -> Nat]
        BY NoTurnType DEF TypeOK
    <2>3. sessions' \in [Workers -> [Sids -> SessionRecords]]
        <3>1. Absent \in SessionRecords
            BY DEF Absent, SessionRecords, SessionStates, Outcomes
        <3> QED
            BY <3>1 DEF TypeOK
    <2>4. restarts' \in 0..MaxRestarts
        BY VoiceCallAssumption DEF TypeOK
    <2> QED
        BY <2>1, <2>2, <2>3, <2>4 DEF TypeOK
<1>6. LockHeld'
    BY <1>1, <1>2, VoiceCallAssumption DEF LockHeld, TypeOK
<1>7. Reserved'
    BY <1>1, <1>2, <1>3 DEF Reserved, TypeOK
<1>8. OneHandlerPerSession'
    BY <1>1, <1>2 DEF OneHandlerPerSession
<1>9. SessionFollowsHandler'
    <2> SUFFICES ASSUME NEW c \in Conns
                 PROVE  FollowsHandler(c)'
        BY DEF SessionFollowsHandler
    <2>1. CASE worker[c] = w
        BY <1>1, <2>1 DEF FollowsHandler, InCall
    <2>2. CASE worker[c] # w
        BY <1>2, <2>2 DEF SessionFollowsHandler, FollowsHandler, PendingOutcome
    <2> QED
        BY <2>1, <2>2
<1>10. CapacityRespected'
    BY <1>3, <1>4, FewerActive
<1>11. GaugeBalanced'
    <2> DEFINE Calls(v) == {d \in Conns : worker[d] = v /\ pc[d] \in InCall}
    <2>1. Calls(w)' = {}
        BY <1>1
    <2>2. \A v \in Workers \ {w} : Calls(v)' = Calls(v)
        BY <1>2
    <2>3. \A v \in Workers : activeCalls'[v] = IF v = w THEN 0 ELSE activeCalls[v]
        BY DEF TypeOK
    <2>4. \A v \in Workers : activeCalls[v] = Cardinality(Calls(v))
        BY DEF GaugeBalanced
    <2>5. \A v \in Workers : activeCalls'[v] = Cardinality(Calls(v)')
        <3> HIDE DEF Calls
        <3> QED
            BY <2>1, <2>2, <2>3, <2>4, FS_EmptySet
    <2> QED
        BY <2>5 DEF GaugeBalanced
<1> QED
    BY <1>5, <1>6, <1>7, <1>8, <1>9, <1>10, <1>11

LEMMA ExpireKeyIInv ==
    ASSUME IInv, NEW s \in Sids, ExpireKey(s)
    PROVE  IInv'
<1> USE DEF IInv, ExpireKey, connVars, processVars
<1>1. TypeOK'
    <2>1. harm' \in [Sids -> Nat] /\ tainted' \in [Sids -> BOOLEAN]
        BY RecordType
    <2>2. strikeKey' \in [Sids -> Nat \cup {NoKey}]
        BY DEF TypeOK
    <2> QED
        BY <2>1, <2>2 DEF TypeOK
<1>2. LockHeld' /\ Reserved'
    BY DEF LockHeld, Reserved, Session, ActiveOn
<1> QED
    BY <1>1, <1>2, QuietStep

LEMMA StutterIInv ==
    ASSUME IInv, UNCHANGED vars
    PROVE  IInv'
<1> USE DEF IInv, vars, connVars, processVars, strikeVars
<1>1. TypeOK'
    BY DEF TypeOK
<1>2. LockHeld' /\ Reserved'
    BY DEF LockHeld, Reserved, Session, ActiveOn
<1> QED
    BY <1>1, <1>2, QuietStep

-----------------------------------------------------------------------------
(* Outcomes are final *)

\* What a write may do to a session that has ended or has an outcome.
Keeps(old, new) ==
    /\ old.state = "ended" => new.state = "ended"
    /\ old.outcome # "none" => new.outcome = old.outcome

LEMMA WriteKeeps ==
    ASSUME TypeOK, NEW c \in Conns, NEW session, SetSession(c, session),
           Keeps(Session(c), session), NEW w \in Workers, NEW s \in Sids
    PROVE  Keeps(sessions[w][s], sessions'[w][s])
BY DEF SetSession, Keeps, Session, TypeOK

LEMMA InCallActionKeeps ==
    ASSUME IInv, NEW c \in Conns, InCallAction(c), NEW w \in Workers, NEW s \in Sids
    PROVE  Keeps(sessions[w][s], sessions'[w][s])
<1> DEFINE Goal == Keeps(sessions[w][s], sessions'[w][s])
<1> USE DEF IInv, InCall, Speaking, InTurn, FollowsHandler, PendingOutcome, IsActive,
            ActiveStates, SessionRecords, SetState, EndSession, processVars
<1>1. FollowsHandler(c) /\ Session(c) \in SessionRecords
    BY SessionType DEF SessionFollowsHandler
<1>2. \A session : SetSession(c, session) /\ Keeps(Session(c), session) => Goal
    BY WriteKeeps
<1>3. UNCHANGED sessions => Goal
    BY DEF Keeps
<1>4. CASE UNCHANGED sessions
    BY <1>3, <1>4
<1>5. CASE ReceiveAudio(c)
    BY <1>1, <1>2, <1>5 DEF ReceiveAudio, Keeps
<1>6. CASE ReceiveUtterance(c)
    BY <1>1, <1>2, <1>6 DEF ReceiveUtterance, Keeps
<1>7. CASE ReceiveEnd(c)
    BY <1>1, <1>2, <1>7 DEF ReceiveEnd, Keeps
<1>8. CASE SyncTurnStrikes(c)
    BY <1>1, <1>2, <1>8 DEF SyncTurnStrikes, Keeps
<1>9. CASE GraphReturns(c)
    BY <1>1, <1>2, <1>9 DEF GraphReturns, Keeps
<1>10. CASE BeginSpeaking(c)
    BY <1>1, <1>2, <1>10 DEF BeginSpeaking, Keeps
<1>11. CASE FinishApology(c) \/ FinishWarning(c) \/ FinishAnswer(c)
    BY <1>1, <1>2, <1>11 DEF FinishApology, FinishWarning, FinishAnswer, BackToListening, Keeps
<1>12. CASE FinishEscalation(c)
    BY <1>1, <1>2, <1>12 DEF FinishEscalation, Keeps
<1>13. CASE FinishTermination(c)
    BY <1>1, <1>2, <1>13 DEF FinishTermination, Keeps
<1>14. CASE Cleanup(c)
    BY <1>1, <1>2, <1>3, <1>14 DEF Cleanup, FinalOutcome, Keeps
<1> QED
    BY <1>4, <1>5, <1>6, <1>7, <1>8, <1>9, <1>10, <1>11, <1>12, <1>13, <1>14, Zenon
    DEF InCallAction, TurnStep, EndOfTurn, ClientCloses, LeaveLoop, SttLowConfidence,
        SttNothing, SttTranscript, LoadTurnStrikes, GraphRaises, SaveStrikes,
        FinishFallback, SpeechBroken, FinishEnd, FinishCleanupDelete, processVars

LEMMA RegisterSessionKeeps ==
    ASSUME IInv, NEW c \in Conns, RegisterSession(c), NEW w \in Workers, NEW s \in Sids
    PROVE  Keeps(sessions[w][s], sessions'[w][s])
<1>1. Session(c) = Absent
    BY DEF RegisterSession, IInv, Reserved
<1>2. \A session : Keeps(Absent, session)
    BY DEF Keeps, Absent
<1>3. PICK session : SetSession(c, session)
    BY DEF RegisterSession
<1> QED
    BY <1>1, <1>2, <1>3, WriteKeeps DEF IInv

LEMMA NextKeeps ==
    ASSUME IInv, [Next]_vars, restarts' = restarts, NEW w \in Workers, NEW s \in Sids
    PROVE  Keeps(sessions[w][s], sessions'[w][s])
<1>1. CASE UNCHANGED sessions
    BY <1>1 DEF Keeps
<1>2. ASSUME NEW c \in Conns, ClientStep(c) \/ HandlerStep(c) \/ LeaveLoop(c)
      PROVE  Keeps(sessions[w][s], sessions'[w][s])
    BY <1>1, <1>2, InCallActionKeeps, RegisterSessionKeeps
    DEF ClientStep, HandlerStep, Closing, InCallAction, Admission, RejectSession,
        AdmitSession, HydrateSession, ReportCall, processVars
<1>3. \A v \in Workers : ~Crash(v)
    BY DEF Crash, IInv, TypeOK
<1> QED
    BY <1>1, <1>2, <1>3 DEF Next, ExpireKey, vars, processVars

-----------------------------------------------------------------------------
(* The strikes: an id that Redis has not failed has one handler (Alone), so  *)
(* what that handler loaded (LoadedCount) and what the pipeline judged       *)
(* (JudgedCount) still agree with the history when the count is saved.       *)

Alone ==
    \A c, d \in Conns :
        pc[c] \in InCall /\ pc[d] \in InCall /\ sid[c] = sid[d] /\ c # d => tainted[sid[c]]

LoadedCount(c) ==
    ~tainted[sid[c]] => /\ pc[c] = "syncing" => loaded[c] = harm[sid[c]]
                        /\ pc[c] = "graph" => Session(c).strikes = harm[sid[c]]

JudgedCount(c) ==
    pc[c] = "saving" /\ ~tainted[sid[c]] =>
        /\ turn[c].result.strikes = HarmAfter(c)
        /\ ~turn[c].result.error =>
              (turn[c].result.endSession <=> turn[c].result.strikes >= StrikeLimit)

\* Without the guardrails nothing is a strike, and the pipeline, which then
\* returns the count it was given, is only ever given 0.
OnlyRailCounts ==
    ~GuardrailsEnabled =>
        /\ \A s \in Sids : harm[s] = 0
        /\ \A c \in Conns : ~turn[c].result.blocked

StrikeInv ==
    /\ Alone
    /\ \A c \in Conns : LoadedCount(c) /\ JudgedCount(c)
    /\ OnlyRailCounts
    /\ StrikesMatchHarm

\* The pipeline counts as the history does, and unless it fails it ends the session
\* exactly when the count it returns has reached the limit.
LEMMA PipelineCounts ==
    ASSUME NEW query \in Query, NEW strikes \in Nat, GuardrailsEnabled \/ strikes = 0,
           NEW result \in TurnResults(query, strikes)
    PROVE  /\ result.strikes = IF result.blocked THEN strikes + 1
                               ELSE IF result.error THEN strikes ELSE 0
           /\ ~result.error => (result.endSession <=> result.strikes >= StrikeLimit)
           /\ result.error => ~result.endSession
<1>1. PICK m \in ModeratorAnswers, l \in BOOLEAN, d \in BOOLEAN, r \in BOOLEAN :
          result = Invoke(query, strikes, l, m, d, r)
    BY DEF TurnResults
<1> DEFINE railed == InputGuardrails(query, m, strikes)
<1>2. m \in BOOLEAN
    BY GuardrailsAssumption
<1>3. railed \in Result
    BY <1>2, ProcessInputType
<1>4. \/ railed = InitialState(0) /\ strikes < StrikeLimit
      \/ /\ railed.blocked /\ ~railed.error /\ railed.strikes = strikes + 1
         /\ railed.endSession <=> strikes + 1 >= StrikeLimit
    <2>1. CASE ~GuardrailsEnabled
        BY <2>1 DEF InputGuardrails, StrikeLimit
    <2>2. CASE GuardrailsEnabled /\ strikes >= StrikeLimit
        BY <2>2 DEF InputGuardrails, ProcessInput, InitialState, StrikeLimit
    <2>3. CASE GuardrailsEnabled /\ ~(strikes >= StrikeLimit) /\ (m \/ query.offTopic)
        <3>1. railed = ApplyStrikePolicy(strikes)
            BY <2>3, Zenon DEF InputGuardrails, ProcessInput
        <3> QED
            BY <3>1 DEF ApplyStrikePolicy, InitialState
    <2>4. CASE GuardrailsEnabled /\ ~(strikes >= StrikeLimit) /\ ~(m \/ query.offTopic)
        <3>1. railed = InitialState(0)
            BY <2>4, Zenon DEF InputGuardrails, ProcessInput
        <3> QED
            BY <2>4, <3>1 DEF StrikeLimit
    <2> QED
        BY <2>1, <2>2, <2>3, <2>4
<1>5. CASE /\ ~l /\ railed.blocked /\ ~railed.error /\ railed.strikes = strikes + 1
           /\ railed.endSession <=> strikes + 1 >= StrikeLimit
    <2>1. result = railed
        BY <1>1, <1>5, Zenon DEF Invoke, RoutesToEnd
    <2> QED
        BY <2>1, <1>5
<1>6. CASE ~l /\ railed = InitialState(0) /\ strikes < StrikeLimit
    <2> HIDE DEF railed
    <2>1. ~railed.blocked /\ ~railed.endSession
        BY <1>6 DEF InitialState
    <2>2. result = (IF SafetyGate(railed, query, d).escalate
                    THEN SafetyGate(railed, query, d)
                    ELSE Continue(SafetyGate(railed, query, d), strikes, r))
        BY <1>1, <1>6, <2>1, Zenon DEF Invoke, RoutesToEnd, railed
    <2> QED
        BY <1>6, <2>2 DEF SafetyGate, Continue, Failed, InitialState, StrikeLimit
<1>7. CASE l
    <2>1. result = Failed(strikes)
        BY <1>1, <1>7, Zenon DEF Invoke
    <2> QED
        BY <2>1 DEF Failed, InitialState
<1> QED
    BY <1>4, <1>5, <1>6, <1>7

LEMMA NothingBlockedWithoutRails ==
    ASSUME ~GuardrailsEnabled, NEW query, NEW strikes \in Nat,
           NEW result \in TurnResults(query, strikes)
    PROVE  ~result.blocked
BY DEF TurnResults, Invoke, Failed, InputGuardrails, SafetyGate, Continue, RoutesToEnd,
       InitialState

-----------------------------------------------------------------------------
(* What a step does to the strikes of an id *)

LEMMA RecordEffect ==
    ASSUME TypeOK, NEW s \in Sids, NEW ok \in BOOLEAN, NEW count \in Nat,
           Record(s, ok, count)
    PROVE  /\ \A t \in Sids \ {s} : tainted'[t] = tainted[t] /\ harm'[t] = harm[t]
           /\ ~tainted'[s] => ok /\ ~tainted[s] /\ harm'[s] = count
           /\ tainted[s] => tainted'[s]
           /\ harm'[s] = 0 \/ harm'[s] = count
<1>1. /\ tainted'[s] = (tainted[s] \/ ~ok)
      /\ \A t \in Sids \ {s} : tainted'[t] = tainted[t]
    BY Zenon DEF Record, TypeOK
<1>2. /\ harm'[s] = IF tainted[s] \/ ~ok THEN 0 ELSE count
      /\ \A t \in Sids \ {s} : harm'[t] = harm[t]
    BY DEF Record, TypeOK
<1> QED
    BY <1>1, <1>2

\* What an action of the handler c may do to the strike variables: nothing to
\* another id, and to its own one of a GET, a SET or a DEL.
StrikeStep(c) ==
    /\ \A s \in Sids \ {sid[c]} :
          strikeKey'[s] = strikeKey[s] /\ tainted'[s] = tainted[s] /\ harm'[s] = harm[s]
    /\ tainted[sid[c]] => tainted'[sid[c]]
    /\ ~tainted'[sid[c]] => \/ KeyValue(sid[c])' = KeyValue(sid[c])
                               /\ harm'[sid[c]] = harm[sid[c]]
                            \/ KeyValue(sid[c])' = 0 /\ harm'[sid[c]] = 0
                            \/ SaveStrikes(c) /\ KeyValue(sid[c])' = turn[c].result.strikes
                               /\ harm'[sid[c]] = HarmAfter(c)
    /\ \/ harm'[sid[c]] = 0 \/ harm'[sid[c]] = harm[sid[c]]
       \/ SaveStrikes(c) /\ harm'[sid[c]] = HarmAfter(c)

LEMMA QuietStrikes ==
    ASSUME NEW c \in Conns, UNCHANGED <<sid, strikeVars>>
    PROVE  StrikeStep(c)
<1>1. UNCHANGED <<sid, strikeKey, harm, tainted>>
    BY DEF strikeVars
<1>2. KeyValue(sid[c])' = KeyValue(sid[c])
    BY <1>1 DEF KeyValue
<1> QED
    BY <1>1, <1>2, Zenon DEF StrikeStep

LEMMA DeleteIsStrikeStep ==
    ASSUME TypeOK, NEW c \in Conns, DeleteStrikes(sid[c]), sid' = sid
    PROVE  StrikeStep(c)
<1>0. sid[c] \in Sids
    BY DEF TypeOK
<1>1. PICK ok \in BOOLEAN :
          /\ strikeKey' = IF ok THEN [strikeKey EXCEPT ![sid[c]] = NoKey] ELSE strikeKey
          /\ Record(sid[c], ok, 0)
    BY DEF DeleteStrikes
<1>2. /\ \A s \in Sids \ {sid[c]} : strikeKey'[s] = strikeKey[s]
      /\ ok => strikeKey'[sid[c]] = NoKey
    BY <1>0, <1>1 DEF TypeOK
<1>3. /\ \A s \in Sids \ {sid[c]} : tainted'[s] = tainted[s] /\ harm'[s] = harm[s]
      /\ ~tainted'[sid[c]] => ok /\ harm'[sid[c]] = 0
      /\ tainted[sid[c]] => tainted'[sid[c]]
      /\ harm'[sid[c]] = 0
    BY <1>0, <1>1, RecordEffect
<1>4. ok => KeyValue(sid[c])' = 0
    BY <1>2 DEF KeyValue
<1> QED
    BY <1>2, <1>3, <1>4, Zenon DEF StrikeStep

LEMMA LoadIsStrikeStep ==
    ASSUME TypeOK, NEW c \in Conns, NEW ok \in BOOLEAN, Record(sid[c], ok, harm[sid[c]]),
           UNCHANGED <<sid, strikeKey>>
    PROVE  StrikeStep(c)
<1>1. sid[c] \in Sids /\ harm[sid[c]] \in Nat
    BY DEF TypeOK
<1>2. /\ \A s \in Sids \ {sid[c]} : tainted'[s] = tainted[s] /\ harm'[s] = harm[s]
      /\ ~tainted'[sid[c]] => harm'[sid[c]] = harm[sid[c]]
      /\ tainted[sid[c]] => tainted'[sid[c]]
      /\ harm'[sid[c]] = 0 \/ harm'[sid[c]] = harm[sid[c]]
    BY <1>1, RecordEffect
<1>3. KeyValue(sid[c])' = KeyValue(sid[c])
    BY DEF KeyValue
<1> QED
    BY <1>2, <1>3, Zenon DEF StrikeStep

LEMMA SaveIsStrikeStep ==
    ASSUME TypeOK, NEW c \in Conns, SaveStrikes(c)
    PROVE  StrikeStep(c)
<1>1. sid[c] \in Sids /\ HarmAfter(c) \in Nat /\ turn[c].result.strikes \in Nat
    BY DEF TypeOK, Turns, Result, HarmAfter
<1>2. PICK ok \in BOOLEAN :
          /\ strikeKey' = IF ok THEN [strikeKey EXCEPT ![sid[c]] = turn[c].result.strikes]
                          ELSE strikeKey
          /\ Record(sid[c], ok, HarmAfter(c))
    BY DEF SaveStrikes
<1>3. /\ \A s \in Sids \ {sid[c]} : tainted'[s] = tainted[s] /\ harm'[s] = harm[s]
      /\ ~tainted'[sid[c]] => ok /\ harm'[sid[c]] = HarmAfter(c)
      /\ tainted[sid[c]] => tainted'[sid[c]]
      /\ harm'[sid[c]] = 0 \/ harm'[sid[c]] = HarmAfter(c)
    BY <1>1, <1>2, RecordEffect
<1>4. \A s \in Sids \ {sid[c]} : strikeKey'[s] = strikeKey[s]
    BY <1>1, <1>2 DEF TypeOK
<1>5. ok => KeyValue(sid[c])' = turn[c].result.strikes
    BY <1>1, <1>2, VoiceCallAssumption DEF KeyValue, TypeOK, SaveStrikes
<1> QED
    BY <1>3, <1>4, <1>5, Zenon DEF StrikeStep

LEMMA InCallActionStrikes ==
    ASSUME TypeOK, NEW c \in Conns, InCallAction(c), sid' = sid
    PROVE  StrikeStep(c)
<1>1. CASE UNCHANGED strikeVars
    BY <1>1, QuietStrikes
<1>2. CASE LoadTurnStrikes(c)
    BY <1>2, LoadIsStrikeStep DEF LoadTurnStrikes
<1>3. CASE SaveStrikes(c)
    BY <1>3, SaveIsStrikeStep
<1>4. CASE FinishEnd(c) \/ FinishCleanupDelete(c)
    BY <1>4, DeleteIsStrikeStep DEF FinishEnd, FinishCleanupDelete
<1> QED
    BY <1>1, <1>2, <1>3, <1>4, Zenon
    DEF InCallAction, TurnStep, EndOfTurn, ClientCloses, ReceiveAudio, ReceiveUtterance,
        ReceiveEnd, LeaveLoop, SttLowConfidence, SttNothing, SttTranscript,
        SyncTurnStrikes, GraphReturns, GraphRaises, BeginSpeaking, FinishApology,
        FinishWarning, FinishAnswer, FinishFallback, FinishEscalation, FinishTermination,
        SpeechBroken, BackToListening, Cleanup

-----------------------------------------------------------------------------
(* The steps of a call keep the strike invariant *)

LEMMA InCallActionKeepsAlone ==
    ASSUME IInv, Alone, NEW c \in Conns, CallStep(c), StrikeStep(c)
    PROVE  Alone'
<1>1. \A d \in Conns : pc'[d] \in InCall => pc[d] \in InCall
    BY DEF CallStep, Goto, IInv, TypeOK
<1>2. sid' = sid /\ \A d \in Conns : sid[d] \in Sids
    BY DEF CallStep, IInv, TypeOK
<1>3. \A s \in Sids : tainted[s] => tainted'[s]
    BY DEF StrikeStep
<1> QED
    BY <1>1, <1>2, <1>3 DEF Alone

\* Another handler of the same id would have tainted it.
LEMMA OthersCount ==
    ASSUME IInv, Alone, NEW c \in Conns, CallStep(c), StrikeStep(c), NEW d \in Conns \ {c},
           loaded'[d] = loaded[d], turn'[d] = turn[d], LoadedCount(d), JudgedCount(d)
    PROVE  LoadedCount(d)' /\ JudgedCount(d)'
<1> USE DEF IInv
<1>1. pc'[d] = pc[d] /\ worker' = worker /\ sid' = sid
    BY DEF CallStep, Goto, TypeOK
<1>2. CASE pc[d] \notin {"syncing", "graph", "saving"}
    BY <1>1, <1>2 DEF LoadedCount, JudgedCount
<1>3. CASE pc[d] \in {"syncing", "graph", "saving"} /\ tainted'[sid[d]]
    BY <1>1, <1>3 DEF LoadedCount, JudgedCount
<1>4. CASE pc[d] \in {"syncing", "graph", "saving"} /\ ~tainted'[sid[d]]
    <2>1. pc[d] \in InCall /\ pc[c] \in InCall
        BY <1>4 DEF InCall, CallStep
    <2>2. sid[c] \in Sids /\ sid[d] \in Sids
        BY DEF TypeOK
    <2>3. sid[d] # sid[c]
        BY <1>4, <2>1 DEF Alone, StrikeStep
    <2>4. tainted'[sid[d]] = tainted[sid[d]] /\ harm'[sid[d]] = harm[sid[d]]
        BY <2>2, <2>3 DEF StrikeStep
    <2>5. Session(d)' = Session(d)
        BY <1>1, <2>3 DEF CallStep, SetSession, Session, TypeOK
    <2> QED
        BY <1>1, <1>4, <2>4, <2>5 DEF LoadedCount, JudgedCount, HarmAfter
<1> QED
    BY <1>2, <1>3, <1>4

\* The handler that moves: a turn loads the count, then judges with it.
LEMMA OwnCount ==
    ASSUME IInv, StrikeInv, NEW c \in Conns, InCallAction(c), CallStep(c), StrikeStep(c)
    PROVE  LoadedCount(c)' /\ JudgedCount(c)'
<1> USE DEF IInv
<1>1. sid' = sid /\ worker' = worker /\ sid[c] \in Sids /\ Session(c) \in SessionRecords
    BY SessionType DEF CallStep, TypeOK
<1>2. CASE pc'[c] \notin {"syncing", "graph", "saving"}
    BY <1>2 DEF LoadedCount, JudgedCount
<1>3. CASE tainted'[sid[c]]
    BY <1>1, <1>3 DEF LoadedCount, JudgedCount
<1>4. CASE ClientCloses(c)
    BY <1>4 DEF ClientCloses, processVars, strikeVars, StrikeInv, LoadedCount, JudgedCount,
                HarmAfter, Session
<1>5. CASE LoadTurnStrikes(c) /\ ~tainted'[sid[c]]
    <2>1. PICK ok \in BOOLEAN :
              /\ loaded' = [loaded EXCEPT ![c] = Loaded(sid[c], ok)]
              /\ Record(sid[c], ok, harm[sid[c]])
        BY <1>5 DEF LoadTurnStrikes
    <2>2. harm[sid[c]] \in Nat
        BY <1>1 DEF TypeOK
    <2>3. ok /\ ~tainted[sid[c]] /\ harm'[sid[c]] = harm[sid[c]]
        BY <1>1, <1>5, <2>1, <2>2, RecordEffect
    <2>4. loaded'[c] = KeyValue(sid[c])
        BY <2>1, <2>3 DEF TypeOK, Loaded
    <2>5. KeyValue(sid[c]) = harm[sid[c]]
        BY <1>1, <2>3 DEF StrikeInv, StrikesMatchHarm
    <2>6. pc'[c] = "syncing"
        BY <1>5 DEF LoadTurnStrikes, Goto, TypeOK
    <2> QED
        BY <1>1, <2>3, <2>4, <2>5, <2>6 DEF LoadedCount, JudgedCount
<1>6. CASE SyncTurnStrikes(c) /\ ~tainted'[sid[c]]
    <2>1. SetSession(c, [Session(c) EXCEPT !.strikes = loaded[c]])
        BY <1>6 DEF SyncTurnStrikes
    <2>2. harm' = harm /\ tainted' = tainted /\ pc[c] = "syncing" /\ pc'[c] = "graph"
        BY <1>6 DEF SyncTurnStrikes, strikeVars, Goto, TypeOK
    <2>3. Session(c)'.strikes = loaded[c]
        BY <1>1, <2>1, SetSessionRead DEF SessionRecords
    <2>4. loaded[c] = harm[sid[c]]
        BY <1>6, <2>2 DEF StrikeInv, LoadedCount
    <2> QED
        BY <1>1, <2>2, <2>3, <2>4 DEF LoadedCount, JudgedCount
<1>7. CASE GraphReturns(c) /\ ~tainted'[sid[c]]
    <2>0. PICK query \in Query : \E result \in TurnResults(query, Session(c).strikes) :
              turn' = [turn EXCEPT ![c] = [query |-> query, result |-> result]]
        BY <1>7 DEF GraphReturns
    <2>1. PICK result \in TurnResults(query, Session(c).strikes) :
              turn' = [turn EXCEPT ![c] = [query |-> query, result |-> result]]
        BY <2>0
    <2>2. harm' = harm /\ tainted' = tainted /\ pc[c] = "graph" /\ pc'[c] = "saving"
        BY <1>7 DEF GraphReturns, strikeVars, Goto, TypeOK
    <2>3. Session(c).strikes = harm[sid[c]] /\ Session(c).strikes \in Nat
        BY <1>1, <1>7, <2>2 DEF StrikeInv, LoadedCount, SessionRecords
    <2>4. GuardrailsEnabled \/ Session(c).strikes = 0
        BY <1>1, <2>3 DEF StrikeInv, OnlyRailCounts
    <2>5. turn'[c].result = result
        BY <2>1 DEF TypeOK
    <2>6. /\ result.strikes = (IF result.blocked THEN Session(c).strikes + 1
                               ELSE IF result.error THEN Session(c).strikes ELSE 0)
          /\ ~result.error => (result.endSession <=> result.strikes >= StrikeLimit)
        BY <2>3, <2>4, PipelineCounts
    <2>7. HarmAfter(c)' = result.strikes
        BY <1>1, <2>2, <2>3, <2>5, <2>6 DEF HarmAfter
    <2> QED
        BY <2>2, <2>5, <2>6, <2>7 DEF LoadedCount, JudgedCount
<1>8. CASE ~(\/ ClientCloses(c) \/ LoadTurnStrikes(c) \/ SyncTurnStrikes(c)
             \/ GraphReturns(c))
    <2>1. pc'[c] \notin {"syncing", "graph", "saving"}
        BY <1>8
        DEF InCallAction, TurnStep, EndOfTurn, ReceiveAudio, ReceiveUtterance, ReceiveEnd,
            LeaveLoop, SttLowConfidence, SttNothing, SttTranscript, GraphRaises, SaveStrikes,
            NextSpeech, BeginSpeaking, FinishApology, FinishWarning, FinishAnswer,
            FinishFallback, FinishEscalation, FinishTermination, SpeechBroken,
            BackToListening, FinishEnd, Cleanup, FinishCleanupDelete, Goto, connVars, TypeOK
    <2> QED
        BY <1>2, <2>1
<1> QED
    BY <1>3, <1>4, <1>5, <1>6, <1>7, <1>8

LEMMA InCallActionKeepsStrikes ==
    ASSUME IInv, StrikeInv, NEW c \in Conns, InCallAction(c)
    PROVE  StrikeInv'
<1> USE DEF IInv
<1>1. CallStep(c)
    BY InCallActionIsCallStep
<1>2. sid' = sid /\ sid[c] \in Sids /\ pc[c] \in InCall
    BY <1>1 DEF CallStep, TypeOK
<1>3. StrikeStep(c)
    BY <1>2, InCallActionStrikes
<1>4. \A d \in Conns \ {c} : loaded'[d] = loaded[d] /\ turn'[d] = turn[d]
    BY DEF TypeOK, InCallAction, TurnStep, EndOfTurn, ClientCloses, ReceiveAudio,
           ReceiveUtterance, ReceiveEnd, LeaveLoop, SttLowConfidence, SttNothing,
           SttTranscript, LoadTurnStrikes, SyncTurnStrikes, GraphReturns, GraphRaises,
           SaveStrikes, AfterSave, BeginSpeaking, FinishApology, FinishWarning,
           FinishAnswer, FinishFallback, FinishEscalation, FinishTermination, SpeechBroken,
           BackToListening, FinishEnd, Cleanup, FinishCleanupDelete, connVars
<1>5. Alone'
    BY <1>1, <1>3, InCallActionKeepsAlone DEF StrikeInv
<1>6. \A d \in Conns : LoadedCount(d)' /\ JudgedCount(d)'
    <2>1. LoadedCount(c)' /\ JudgedCount(c)'
        BY <1>1, <1>3, OwnCount
    <2>2. ASSUME NEW d \in Conns \ {c}
          PROVE  LoadedCount(d)' /\ JudgedCount(d)'
        BY <1>1, <1>3, <1>4, OthersCount DEF StrikeInv
    <2> QED
        BY <2>1, <2>2
<1>7. SaveStrikes(c) /\ ~tainted[sid[c]] => HarmAfter(c) = turn[c].result.strikes
    BY DEF SaveStrikes, StrikeInv, JudgedCount
<1>8. StrikesMatchHarm'
    <2> SUFFICES ASSUME NEW s \in Sids, ~tainted'[s]
                 PROVE  KeyValue(s)' = harm'[s]
        BY DEF StrikesMatchHarm
    <2>1. ~tainted[s]
        BY <1>3 DEF StrikeStep
    <2>2. KeyValue(s) = harm[s]
        BY <2>1 DEF StrikeInv, StrikesMatchHarm
    <2>3. CASE s # sid[c]
        BY <1>3, <2>2, <2>3 DEF StrikeStep, KeyValue
    <2>4. CASE s = sid[c]
        <3>1. KeyValue(s)' = KeyValue(sid[c])'
            BY <1>2, <2>4
        <3> QED
            BY <1>3, <1>7, <2>1, <2>2, <2>4, <3>1, Zenon DEF StrikeStep
    <2> QED
        BY <2>3, <2>4
<1>9. OnlyRailCounts'
    <2> SUFFICES ASSUME ~GuardrailsEnabled
                 PROVE  /\ \A s \in Sids : harm'[s] = 0
                        /\ \A d \in Conns : ~turn'[d].result.blocked
        BY DEF OnlyRailCounts
    <2>1. /\ \A s \in Sids : harm[s] = 0
          /\ \A d \in Conns : ~turn[d].result.blocked
        BY DEF StrikeInv, OnlyRailCounts
    <2>2. HarmAfter(c) = 0
        BY <1>2, <2>1 DEF HarmAfter
    <2>3. \A s \in Sids : harm'[s] = 0
        BY <1>2, <1>3, <2>1, <2>2 DEF StrikeStep
    <2>4. ~turn'[c].result.blocked
        <3>1. CASE GraphReturns(c)
            <4>1. PICK query \in Query : \E result \in TurnResults(query, Session(c).strikes) :
                      turn' = [turn EXCEPT ![c] = [query |-> query, result |-> result]]
                BY <3>1 DEF GraphReturns
            <4>2. PICK result \in TurnResults(query, Session(c).strikes) :
                      turn' = [turn EXCEPT ![c] = [query |-> query, result |-> result]]
                BY <4>1
            <4>3. Session(c).strikes \in Nat
                BY SessionType DEF SessionRecords
            <4>4. turn'[c].result = result
                BY <4>2 DEF TypeOK
            <4> QED
                BY <4>3, <4>4, NothingBlockedWithoutRails
        <3>2. CASE turn' = turn
            BY <2>1, <3>2
        <3>3. CASE turn'[c] = NoTurn
            BY <3>3 DEF NoTurn, InitialState
        <3>4. CASE SaveStrikes(c)
            BY <2>1, <3>3, <3>4 DEF SaveStrikes, AfterSave, TypeOK
        <3>5. CASE EndOfTurn(c)
            BY <3>2, <3>3, <3>5
            DEF EndOfTurn, FinishApology, FinishWarning, FinishAnswer, FinishFallback,
                FinishEscalation, FinishTermination, SpeechBroken, BackToListening, TypeOK
        <3> QED
            BY <3>1, <3>2, <3>4, <3>5, Zenon
            DEF InCallAction, TurnStep, ClientCloses, ReceiveAudio, ReceiveUtterance,
                ReceiveEnd, LeaveLoop, SttLowConfidence, SttNothing, SttTranscript,
                LoadTurnStrikes, SyncTurnStrikes, GraphRaises, BeginSpeaking, FinishEnd,
                Cleanup, FinishCleanupDelete, connVars
    <2>5. \A d \in Conns : ~turn'[d].result.blocked
        BY <1>4, <2>1, <2>4
    <2> QED
        BY <2>3, <2>5
<1> QED
    BY <1>5, <1>6, <1>8, <1>9 DEF StrikeInv

\* Whoever enters a call for an id in use taints it.
LEMMA RegisterKeepsStrikes ==
    ASSUME IInv, StrikeInv, NEW c \in Conns, RegisterSession(c)
    PROVE  StrikeInv'
<1> USE DEF IInv
<1>1. /\ \A d \in Conns \ {c} : pc'[d] = pc[d]
      /\ pc[c] = "registering" /\ pc'[c] = "receive"
      /\ sid' = sid /\ worker' = worker /\ turn' = turn /\ strikeKey' = strikeKey
      /\ \A d \in Conns \ {c} : loaded'[d] = loaded[d]
    BY DEF RegisterSession, Goto, TypeOK
<1>2. sid[c] \in Sids /\ harm[sid[c]] \in Nat
    BY DEF TypeOK
<1>3. Record(sid[c], ~Shared(c), harm[sid[c]])
    BY DEF RegisterSession
<1>4. (~Shared(c)) \in BOOLEAN
    BY DEF Shared
<1>5. /\ \A s \in Sids \ {sid[c]} : tainted'[s] = tainted[s] /\ harm'[s] = harm[s]
      /\ ~tainted'[sid[c]] => /\ ~Shared(c) /\ ~tainted[sid[c]]
                              /\ harm'[sid[c]] = harm[sid[c]]
      /\ tainted[sid[c]] => tainted'[sid[c]]
      /\ harm'[sid[c]] = 0 \/ harm'[sid[c]] = harm[sid[c]]
    BY <1>2, <1>3, <1>4, RecordEffect
<1>6. Alone'
    <2> SUFFICES ASSUME NEW d \in Conns, NEW e \in Conns,
                        pc'[d] \in InCall, pc'[e] \in InCall, sid[d] = sid[e], d # e,
                        ~tainted'[sid[d]]
                 PROVE  FALSE
        BY <1>1 DEF Alone
    <2>1. ~tainted[sid[d]] /\ (sid[d] = sid[c] => ~Shared(c))
        BY <1>5 DEF TypeOK
    <2>2. CASE d # c /\ e # c
        BY <1>1, <2>1, <2>2 DEF StrikeInv, Alone
    <2>3. CASE d = c \/ e = c
        BY <1>1, <2>1, <2>3 DEF Shared
    <2> QED
        BY <2>2, <2>3
<1>7. ASSUME NEW d \in Conns
      PROVE  LoadedCount(d)' /\ JudgedCount(d)'
    <2>1. CASE pc'[d] \notin {"syncing", "graph", "saving"} \/ tainted'[sid[d]]
        BY <1>1, <2>1 DEF LoadedCount, JudgedCount
    <2>2. CASE pc'[d] \in {"syncing", "graph", "saving"} /\ ~tainted'[sid[d]]
        <3>1. d # c /\ pc[d] = pc'[d] /\ pc[d] \in InCall
            BY <1>1, <2>2 DEF InCall
        <3>2. sid[d] # sid[c]
            BY <1>5, <2>2, <3>1 DEF Shared
        <3>3. tainted'[sid[d]] = tainted[sid[d]] /\ harm'[sid[d]] = harm[sid[d]]
            BY <1>5, <3>2 DEF TypeOK
        <3>4. Session(d)' = Session(d)
            BY <1>1, <3>2 DEF RegisterSession, SetSession, Session, TypeOK
        <3> QED
            BY <1>1, <2>2, <3>1, <3>3, <3>4 DEF StrikeInv, LoadedCount, JudgedCount, HarmAfter
    <2> QED
        BY <2>1, <2>2
<1>8. StrikesMatchHarm'
    BY <1>1, <1>2, <1>5 DEF StrikeInv, StrikesMatchHarm, KeyValue
<1>9. OnlyRailCounts'
    BY <1>1, <1>2, <1>5 DEF StrikeInv, OnlyRailCounts
<1> QED
    BY <1>6, <1>7, <1>8, <1>9 DEF StrikeInv

\* A step that neither touches the strikes nor lets a handler into a call.
LEMMA CalmStepKeepsStrikes ==
    ASSUME StrikeInv, UNCHANGED <<sid, worker, strikeVars>>,
           \A c \in Conns : pc'[c] \in InCall =>
               /\ pc'[c] = pc[c] /\ loaded'[c] = loaded[c]
               /\ turn'[c] = turn[c] /\ Session(c)' = Session(c),
           \A c \in Conns : turn'[c] = turn[c] \/ turn'[c] = NoTurn
    PROVE  StrikeInv'
<1> USE DEF StrikeInv, strikeVars
<1>1. Alone'
    BY DEF Alone
<1>2. \A c \in Conns : LoadedCount(c)' /\ JudgedCount(c)'
    BY DEF LoadedCount, JudgedCount, HarmAfter, InCall
<1>3. OnlyRailCounts'
    BY DEF OnlyRailCounts, NoTurn, InitialState
<1>4. StrikesMatchHarm'
    BY DEF StrikesMatchHarm, KeyValue
<1> QED
    BY <1>1, <1>2, <1>3, <1>4

LEMMA ExpireKeyKeepsStrikes ==
    ASSUME IInv, StrikeInv, NEW s \in Sids, ExpireKey(s)
    PROVE  StrikeInv'
<1> USE DEF IInv, StrikeInv
<1>1. UNCHANGED <<pc, sid, worker, loaded, turn, sessions>>
    BY DEF ExpireKey, connVars, processVars
<1>2. /\ \A t \in Sids \ {s} : tainted'[t] = tainted[t] /\ harm'[t] = harm[t]
      /\ tainted'[s]
      /\ harm'[s] = 0
    BY RecordEffect DEF ExpireKey
<1>3. \A t \in Sids \ {s} : strikeKey'[t] = strikeKey[t]
    BY DEF ExpireKey, TypeOK
<1>4. \A c \in Conns : sid[c] \in Sids /\ Session(c)' = Session(c)
    BY <1>1 DEF TypeOK, Session
<1>5. Alone'
    BY <1>1, <1>2, <1>4 DEF Alone
<1>6. \A c \in Conns : LoadedCount(c)' /\ JudgedCount(c)'
    BY <1>1, <1>2, <1>4 DEF LoadedCount, JudgedCount, HarmAfter
<1>7. StrikesMatchHarm'
    BY <1>2, <1>3 DEF StrikesMatchHarm, KeyValue
<1>8. OnlyRailCounts'
    BY <1>1, <1>2 DEF OnlyRailCounts
<1> QED
    BY <1>5, <1>6, <1>7, <1>8

LEMMA NextKeepsStrikes ==
    ASSUME IInv, StrikeInv, [Next]_vars
    PROVE  StrikeInv'
<1> USE DEF IInv
<1>1. ASSUME NEW c \in Conns,
             RejectSession(c) \/ AdmitSession(c) \/ HydrateSession(c) \/ ReportCall(c)
      PROVE  StrikeInv'
    <2>1. UNCHANGED <<sid, worker, turn, sessions, strikeVars>>
        BY <1>1 DEF RejectSession, AdmitSession, HydrateSession, ReportCall, processVars
    <2>2. \A d \in Conns : pc'[d] \in InCall => pc'[d] = pc[d] /\ loaded'[d] = loaded[d]
        BY <1>1 DEF RejectSession, AdmitSession, HydrateSession, ReportCall, Goto, TypeOK,
                    InCall, Speaking
    <2>3. \A d \in Conns : Session(d)' = Session(d)
        BY <2>1 DEF Session
    <2> QED
        BY <2>1, <2>2, <2>3, CalmStepKeepsStrikes
<1>2. ASSUME NEW w \in Workers, Crash(w)
      PROVE  StrikeInv'
    <2>1. \A c \in Conns : pc'[c] \in InCall => worker[c] # w /\ pc'[c] = pc[c]
        BY <1>2 DEF Crash, TypeOK, InCall, Speaking, Finished
    <2>2. \A c \in Conns : worker[c] # w =>
              loaded'[c] = loaded[c] /\ turn'[c] = turn[c] /\ Session(c)' = Session(c)
        BY <1>2 DEF Crash, TypeOK, Session
    <2>3. \A c \in Conns : turn'[c] = turn[c] \/ turn'[c] = NoTurn
        BY <1>2 DEF Crash, TypeOK
    <2>4. UNCHANGED <<sid, worker, strikeVars>>
        BY <1>2 DEF Crash
    <2> QED
        BY <2>1, <2>2, <2>3, <2>4, CalmStepKeepsStrikes
<1>3. CASE UNCHANGED vars
    <2>1. UNCHANGED <<pc, sid, worker, loaded, turn, sessions, strikeVars>>
        BY <1>3 DEF vars, connVars, processVars
    <2>2. \A d \in Conns : Session(d)' = Session(d)
        BY <2>1 DEF Session
    <2> QED
        BY <2>1, <2>2, CalmStepKeepsStrikes
<1>4. ASSUME NEW c \in Conns, ClientStep(c) \/ HandlerStep(c) \/ LeaveLoop(c)
      PROVE  StrikeInv'
    BY <1>1, <1>4, InCallActionKeepsStrikes, RegisterKeepsStrikes
    DEF ClientStep, HandlerStep, Admission, Closing, InCallAction
<1> QED
    BY <1>2, <1>3, <1>4, ExpireKeyKeepsStrikes DEF Next

LEMMA InitStrikes == Init => StrikeInv
<1> SUFFICES ASSUME Init
             PROVE  StrikeInv
    OBVIOUS
<1>1. Alone /\ \A c \in Conns : LoadedCount(c) /\ JudgedCount(c)
    BY DEF Init, Alone, InCall, Speaking, LoadedCount, JudgedCount
<1>2. OnlyRailCounts
    BY DEF Init, OnlyRailCounts, NoTurn, InitialState
<1>3. StrikesMatchHarm
    BY DEF Init, StrikesMatchHarm, KeyValue
<1> QED
    BY <1>1, <1>2, <1>3 DEF StrikeInv

\* Only SaveStrikes, and a crash, move a handler on from "saving".
LEMMA OnlySavingLeavesSaving ==
    ASSUME IInv, [Next]_vars, NEW c \in Conns, pc[c] = "saving",
           pc'[c] \notin {"saving", "dead"}
    PROVE  SaveStrikes(c)
<1> USE DEF IInv
<1>1. ASSUME NEW d \in Conns \ {c}, ClientStep(d) \/ HandlerStep(d) \/ LeaveLoop(d)
      PROVE  pc'[c] = pc[c]
    <2>1. CASE InCallAction(d)
        <3>1. CallStep(d)
            BY <2>1, InCallActionIsCallStep
        <3> QED
            BY <3>1 DEF CallStep, Goto, TypeOK
    <2>2. CASE Admission(d) \/ ReportCall(d)
        BY <2>2 DEF Admission, RejectSession, AdmitSession, HydrateSession, RegisterSession,
                    ReportCall, Goto, TypeOK
    <2> QED
        BY <1>1, <2>1, <2>2 DEF ClientStep, HandlerStep, Closing, InCallAction
<1>2. ASSUME ClientStep(c) \/ HandlerStep(c) \/ LeaveLoop(c), ~SaveStrikes(c)
      PROVE  pc'[c] = pc[c]
    BY <1>2
    DEF ClientStep, HandlerStep, Admission, TurnStep, EndOfTurn, Closing, ClientCloses,
        ReceiveAudio, ReceiveUtterance, ReceiveEnd, LeaveLoop, RejectSession, AdmitSession,
        HydrateSession, RegisterSession, SttLowConfidence, SttNothing, SttTranscript,
        LoadTurnStrikes, SyncTurnStrikes, GraphReturns, GraphRaises, BeginSpeaking,
        FinishApology, FinishWarning, FinishAnswer, FinishFallback, FinishEscalation,
        FinishTermination, SpeechBroken, Speaking, FinishEnd, Cleanup, FinishCleanupDelete,
        ReportCall
<1>3. ASSUME NEW w \in Workers, Crash(w)
      PROVE  pc'[c] \in {pc[c], "dead"}
    BY <1>3 DEF Crash, TypeOK
<1>4. CASE UNCHANGED pc
    BY <1>4
<1> QED
    BY <1>1, <1>2, <1>3, <1>4
    DEF Next, ExpireKey, vars, connVars

LEMMA SavingEndsTheCall ==
    ASSUME IInv, StrikeInv, [Next]_vars, NEW c \in Conns, pc[c] = "saving",
           pc'[c] \notin {"saving", "dead"}, ~turn[c].result.error, ~tainted'[sid[c]]
    PROVE  pc'[c] = "terminating" <=> harm'[sid[c]] >= StrikeLimit
<1> USE DEF IInv
<1>1. SaveStrikes(c)
    BY OnlySavingLeavesSaving
<1>2. PICK ok \in BOOLEAN : Record(sid[c], ok, HarmAfter(c))
    BY <1>1 DEF SaveStrikes
<1>3. sid[c] \in Sids /\ HarmAfter(c) \in Nat
    BY DEF TypeOK, Turns, Result, HarmAfter
<1>4. ~tainted[sid[c]] /\ harm'[sid[c]] = HarmAfter(c)
    BY <1>2, <1>3, RecordEffect
<1>5. /\ turn[c].result.strikes = HarmAfter(c)
      /\ turn[c].result.endSession <=> turn[c].result.strikes >= StrikeLimit
    BY <1>4 DEF StrikeInv, JudgedCount
<1>6. pc'[c] = "terminating" <=> turn[c].result.endSession
    BY <1>1 DEF SaveStrikes, NextSpeech, Goto, TypeOK
<1> QED
    BY <1>4, <1>5, <1>6

-----------------------------------------------------------------------------
(* The ledger: a worker's sessions and handlers, seen from outside, keep     *)
(* CallLedger.                                                               *)

\* What is reported is an outcome, an active session has at most escalated, and
\* an id without a session has never had one.
EndsWithVerdict ==
    /\ \A c \in Conns :
          /\ pc[c] \in {"cleanupDelete", "closing"} => outcome[c] # "none"
          /\ pc[c] = "cleanup" /\ IsActive(Session(c)) =>
                 Session(c).outcome \in {"none", "escalated"}
    /\ \A w \in Workers, s \in Sids :
          sessions[w][s].state = "absent" => sessions[w][s] = Absent

LEMMA InCallActionKeepsVerdict ==
    ASSUME IInv, EndsWithVerdict, NEW c \in Conns, InCallAction(c)
    PROVE  EndsWithVerdict'
<1> USE DEF IInv
<1>1. CallStep(c)
    BY InCallActionIsCallStep
<1>2. sid' = sid /\ worker' = worker
    BY <1>1 DEF CallStep
<1>3. ASSUME NEW w \in Workers, NEW s \in Sids, sessions'[w][s].state = "absent"
      PROVE  sessions'[w][s] = Absent
    <2>1. sessions'[w][s] = sessions[w][s] \/ sessions'[w][s].state # "absent"
        <3>1. CASE UNCHANGED sessions
            BY <3>1
        <3>2. ASSUME NEW session \in SessionRecords, SetSession(c, session),
                     session.state # "absent"
              PROVE  sessions'[w][s] = sessions[w][s] \/ sessions'[w][s].state # "absent"
            BY <3>2 DEF SetSession, TypeOK
        <3> QED
            BY <1>1, <3>1, <3>2 DEF CallStep
    <2> QED
        BY <1>3, <2>1 DEF EndsWithVerdict
<1>4. ASSUME NEW d \in Conns \ {c}
      PROVE  /\ pc'[d] \in {"cleanupDelete", "closing"} => outcome'[d] # "none"
             /\ pc'[d] = "cleanup" /\ IsActive(Session(d)') =>
                    Session(d)'.outcome \in {"none", "escalated"}
    <2>1. pc'[d] = pc[d]
        BY <1>1 DEF CallStep, Goto, TypeOK
    <2>2. outcome'[d] = outcome[d]
        BY DEF TypeOK, InCallAction, TurnStep, EndOfTurn, ClientCloses, ReceiveAudio,
               ReceiveUtterance, ReceiveEnd, LeaveLoop, SttLowConfidence, SttNothing,
               SttTranscript, LoadTurnStrikes, SyncTurnStrikes, GraphReturns, GraphRaises,
               SaveStrikes, BeginSpeaking, FinishApology, FinishWarning, FinishAnswer,
               FinishFallback, FinishEscalation, FinishTermination, SpeechBroken,
               BackToListening, FinishEnd, Cleanup, FinishCleanupDelete, connVars
    <2>3. pc[d] \in InCall => Session(d)' = Session(d)
        <3> SUFFICES ASSUME pc[d] \in InCall
                     PROVE  Session(d)' = Session(d)
            OBVIOUS
        <3>1. <<worker[d], sid[d]>> # <<worker[c], sid[c]>>
            BY <1>1 DEF OneHandlerPerSession, CallStep
        <3> QED
            BY <1>1, <1>2, <3>1 DEF CallStep, SetSession, Session, TypeOK
    <2> QED
        BY <2>1, <2>2, <2>3 DEF EndsWithVerdict, InCall
<1>5. /\ pc'[c] \in {"cleanupDelete", "closing"} => outcome'[c] # "none"
      /\ pc'[c] = "cleanup" /\ IsActive(Session(c)') =>
             Session(c)'.outcome \in {"none", "escalated"}
    <2>1. FollowsHandler(c) /\ Session(c) \in SessionRecords /\ FollowsHandler(c)'
        BY SessionType, InCallActionFollows DEF SessionFollowsHandler
    <2>2. UNCHANGED sessions => Session(c)' = Session(c)
        BY <1>2 DEF Session
    <2>3. CASE Cleanup(c)
        <3>1. outcome'[c] = FinalOutcome(Session(c)) /\ pc'[c] # "cleanup"
            BY <2>3 DEF Cleanup, Goto, TypeOK
        <3> QED
            BY <3>1 DEF FinalOutcome
    <2>4. CASE FinishCleanupDelete(c)
        BY <2>4 DEF FinishCleanupDelete, Goto, TypeOK, EndsWithVerdict
    <2>5. CASE LeaveLoop(c) \/ SpeechBroken(c)
        <3>1. pc'[c] = "cleanup" /\ Session(c)' = Session(c)
            BY <2>2, <2>5 DEF LeaveLoop, SpeechBroken, Goto, TypeOK, processVars
        <3>2. pc[c] \in InTurn
            BY <2>5 DEF LeaveLoop, SpeechBroken, InTurn, InCall, Speaking
        <3> QED
            BY <2>1, <3>1, <3>2 DEF FollowsHandler, PendingOutcome
    <2>6. CASE FinishEscalation(c) \/ FinishTermination(c)
        <3>1. PICK how : EndSession(c, how) /\ pc'[c] = "cleanup"
            BY <2>6 DEF FinishEscalation, FinishTermination, Goto, TypeOK
        <3>2. ~IsActive(Session(c)')
            BY <1>2, <2>1, <3>1, SetSessionRead
            DEF EndSession, SessionRecords, IsActive, ActiveStates
        <3> QED
            BY <3>1, <3>2
    <2>7. CASE FinishEnd(c)
        <3>1. pc[c] = "endDelete" /\ pc'[c] = "cleanup" /\ Session(c)' = Session(c)
            BY <2>2, <2>7 DEF FinishEnd, Goto, TypeOK, processVars
        <3> QED
            BY <2>1, <3>1 DEF FollowsHandler, IsActive, ActiveStates
    <2>8. CASE ~(Cleanup(c) \/ FinishCleanupDelete(c) \/ LeaveLoop(c) \/ SpeechBroken(c)
                 \/ FinishEscalation(c) \/ FinishTermination(c) \/ FinishEnd(c))
        <3>1. pc'[c] \notin {"cleanup", "cleanupDelete", "closing"}
            BY <2>8
            DEF InCallAction, TurnStep, EndOfTurn, ClientCloses, ReceiveAudio,
                ReceiveUtterance, ReceiveEnd, SttLowConfidence, SttNothing, SttTranscript,
                LoadTurnStrikes, SyncTurnStrikes, GraphReturns, GraphRaises, SaveStrikes,
                NextSpeech, BeginSpeaking, FinishApology, FinishWarning, FinishAnswer,
                FinishFallback, BackToListening, Goto, connVars, TypeOK
        <3> QED
            BY <3>1
    <2> QED
        BY <2>3, <2>4, <2>5, <2>6, <2>7, <2>8
<1> QED
    BY <1>3, <1>4, <1>5 DEF EndsWithVerdict

LEMMA RegisterKeepsVerdict ==
    ASSUME IInv, EndsWithVerdict, NEW c \in Conns, RegisterSession(c)
    PROVE  EndsWithVerdict'
<1> USE DEF IInv
<1>1. PICK session : SetSession(c, session) /\ session.state # "absent"
    BY DEF RegisterSession, NewSession
<1>2. /\ \A d \in Conns \ {c} : pc'[d] = pc[d]
      /\ pc[c] = "registering" /\ pc'[c] = "receive"
      /\ UNCHANGED <<sid, worker, outcome>>
    BY DEF RegisterSession, Goto, TypeOK
<1>3. ASSUME NEW w \in Workers, NEW s \in Sids, sessions'[w][s].state = "absent"
      PROVE  sessions'[w][s] = Absent
    BY <1>1, <1>3 DEF SetSession, TypeOK, EndsWithVerdict
<1>4. ASSUME NEW d \in Conns, pc'[d] = "cleanup"
      PROVE  pc[d] = "cleanup" /\ Session(d)' = Session(d)
    <2>1. d # c /\ pc[d] = "cleanup"
        BY <1>2, <1>4
    <2>2. Session(c) = Absent /\ Session(d).state # "absent"
        BY <1>2, <2>1 DEF Reserved, SessionFollowsHandler, FollowsHandler
    <2>3. <<worker[d], sid[d]>> # <<worker[c], sid[c]>>
        BY <2>2 DEF Session, Absent
    <2> QED
        BY <1>1, <1>2, <2>1, <2>3 DEF SetSession, Session, TypeOK
<1> QED
    BY <1>2, <1>3, <1>4 DEF EndsWithVerdict

LEMMA NextKeepsVerdict ==
    ASSUME IInv, EndsWithVerdict, [Next]_vars
    PROVE  EndsWithVerdict'
<1> USE DEF IInv
<1>1. ASSUME NEW c \in Conns,
             RejectSession(c) \/ AdmitSession(c) \/ HydrateSession(c) \/ ReportCall(c)
      PROVE  EndsWithVerdict'
    <2>1. UNCHANGED <<sid, worker, sessions, outcome>>
        BY <1>1 DEF RejectSession, AdmitSession, HydrateSession, ReportCall, processVars
    <2>2. \A d \in Conns : pc'[d] \in {"cleanup", "cleanupDelete", "closing"} => pc'[d] = pc[d]
        BY <1>1 DEF RejectSession, AdmitSession, HydrateSession, ReportCall, Goto, TypeOK
    <2> QED
        BY <2>1, <2>2 DEF EndsWithVerdict, Session
<1>2. ASSUME NEW w \in Workers, Crash(w)
      PROVE  EndsWithVerdict'
    <2>1. \A d \in Conns : pc'[d] \in {"cleanup", "cleanupDelete", "closing"} =>
              pc'[d] = pc[d] /\ worker[d] # w
        BY <1>2 DEF Crash, TypeOK, Finished
    <2>2. \A v \in Workers : \/ sessions'[v] = sessions[v]
                             \/ v = w /\ sessions'[v] = [s \in Sids |-> Absent]
        BY <1>2 DEF Crash, TypeOK
    <2>3. UNCHANGED <<sid, worker, outcome>>
        BY <1>2 DEF Crash
    <2>4. \A d \in Conns : worker[d] # w => Session(d)' = Session(d)
        BY <2>2, <2>3 DEF Session, TypeOK
    <2> QED
        BY <2>1, <2>2, <2>3, <2>4 DEF EndsWithVerdict
<1>3. CASE UNCHANGED <<pc, sid, worker, sessions, outcome>>
    BY <1>3 DEF EndsWithVerdict, Session
<1>4. ASSUME NEW c \in Conns, ClientStep(c) \/ HandlerStep(c) \/ LeaveLoop(c)
      PROVE  EndsWithVerdict'
    BY <1>1, <1>4, InCallActionKeepsVerdict, RegisterKeepsVerdict
    DEF ClientStep, HandlerStep, Admission, Closing, InCallAction
<1> QED
    BY <1>2, <1>3, <1>4 DEF Next, ExpireKey, vars, connVars, processVars

-----------------------------------------------------------------------------
(* The entry of a session *)

\* An entry is going on, open or escalating, as long as the session is active.
LEMMA EntryLemma ==
    ASSUME NEW session \in SessionRecords
    PROVE  /\ Entry(session) = "absent" <=> session.state = "absent"
           /\ Entry(session) \in {"open", "escalating"} <=> IsActive(session)
           /\ Entry(session) = "open" <=> IsActive(session) /\ session.outcome = "none"
           /\ session.state = "ended" => Entry(session) = session.outcome
BY DEF Entry, SessionRecords, SessionStates, IsActive, ActiveStates, Outcomes

\* The ledger is full when create_session finds it so.
LEMMA OpenOnLemma ==
    ASSUME TypeOK, NEW w \in Workers
    PROVE  Ledger!Full(w) <=> Cardinality(ActiveOn(w)) >= MaxSessions
<1>1. \A s \in Sids : sessions[w][s] \in SessionRecords
    BY DEF TypeOK
<1>2. Ledger!OpenOn(w) = ActiveOn(w)
    BY <1>1, EntryLemma DEF Ledger!OpenOn, Ledger!Going, ActiveOn
<1>3. Ledger!Cardinality(ActiveOn(w)) = Cardinality(ActiveOn(w))
    BY DEF Ledger!Cardinality, Cardinality
<1> QED
    BY <1>2, <1>3 DEF Ledger!Full

\* What a connection is entered under.
LEMMA CallLemma ==
    ASSUME TypeOK, NEW c \in Conns
    PROVE  Ledger!Call(c) = Entry(Session(c))
BY DEF Ledger!Call, Session, TypeOK

-----------------------------------------------------------------------------
(* Steps that the ledger does not see *)

LEMMA UnseenStep ==
    ASSUME TypeOK, UNCHANGED <<sid, worker, activeCalls>>,
           \A c \in Conns : Stage(c)' = Stage(c),
           \A c \in Conns : pc[c] = "done" <=> pc'[c] = "done",
           \A c \in Conns : pc[c] = "done" => outcome'[c] = outcome[c],
           \A w \in Workers, s \in Sids : Entry(sessions[w][s])' = Entry(sessions[w][s])
    PROVE  UNCHANGED Ledger!ledgerVars
<1>1. [c \in Conns |-> Stage(c)]' = [c \in Conns |-> Stage(c)]
    OBVIOUS
<1>2. [w \in Workers |-> [s \in Sids |-> Entry(sessions[w][s])]]'
      = [w \in Workers |-> [s \in Sids |-> Entry(sessions[w][s])]]
    OBVIOUS
<1>3. [c \in Conns |-> IF pc[c] = "done" THEN outcome[c] ELSE "none"]'
      = [c \in Conns |-> IF pc[c] = "done" THEN outcome[c] ELSE "none"]
    OBVIOUS
<1> QED
    BY <1>1, <1>2, <1>3 DEF Ledger!ledgerVars

-----------------------------------------------------------------------------
(* Steps that it sees *)

LEMMA StageMoves ==
    ASSUME TypeOK, NEW c \in Conns, NEW label, Goto(c, label)
    PROVE  [d \in Conns |-> Stage(d)]' = [[d \in Conns |-> Stage(d)] EXCEPT ![c] = Stage(c)']
<1>1. \A d \in Conns \ {c} : pc'[d] = pc[d]
    BY DEF Goto, TypeOK
<1>2. \A d \in Conns \ {c} : Stage(d)' = Stage(d)
    BY <1>1 DEF Stage
<1> QED
    BY <1>2

LEMMA EntryMoves ==
    ASSUME TypeOK, NEW c \in Conns, NEW session, SetSession(c, session)
    PROVE  [w \in Workers |-> [s \in Sids |-> Entry(sessions[w][s])]]'
           = [[w \in Workers |-> [s \in Sids |-> Entry(sessions[w][s])]]
                 EXCEPT ![worker[c]][sid[c]] = Entry(session)]
BY DEF SetSession, TypeOK

LEMMA RejectIsRefuse ==
    ASSUME IInv, EndsWithVerdict, NEW c \in Conns, RejectSession(c)
    PROVE  Ledger!Refuse(c)
<1> USE DEF IInv
<1>1. pc[c] = "connecting" /\ Goto(c, "rejected") /\ MustReject(c)
      /\ UNCHANGED <<sid, worker, outcome, sessions, activeCalls>>
    BY DEF RejectSession, processVars
<1>2. pc'[c] = "rejected" /\ \A d \in Conns \ {c} : pc'[d] = pc[d]
    BY <1>1 DEF Goto, TypeOK
<1>3. Stage(c) = "waiting" /\ Stage(c)' = "refused"
    BY <1>1, <1>2 DEF Stage, InCall, Speaking
<1>4. Ledger!Move(c, "refused")
    BY <1>1, <1>3, StageMoves DEF Ledger!Move
<1>5. Ledger!Call(c) # "absent" \/ Ledger!Full(worker[c])
    <2>1. worker[c] \in Workers /\ sid[c] \in Sids /\ Session(c) \in SessionRecords
        BY SessionType
    <2>2. Session(c) # Absent => Session(c).state # "absent"
        BY <2>1 DEF EndsWithVerdict, Session
    <2>3. Session(c) # Absent => Ledger!Call(c) # "absent"
        BY <2>1, <2>2, CallLemma, EntryLemma
    <2> QED
        BY <1>1, <2>1, <2>3, OpenOnLemma DEF MustReject
<1>6. UNCHANGED [w \in Workers |-> [s \in Sids |-> Entry(sessions[w][s])]]
    BY <1>1
<1>7. UNCHANGED [d \in Conns |-> IF pc[d] = "done" THEN outcome[d] ELSE "none"]
    BY <1>1, <1>2
<1> QED
    BY <1>1, <1>3, <1>4, <1>5, <1>6, <1>7 DEF Ledger!Refuse

LEMMA RegisterIsAdmit ==
    ASSUME IInv, NEW c \in Conns, RegisterSession(c)
    PROVE  Ledger!Admit(c)
<1> USE DEF IInv
<1>1. SetSession(c, NewSession(loaded[c]))
    BY DEF RegisterSession
<1>2. /\ pc[c] = "registering" /\ Goto(c, "receive")
      /\ activeCalls' = [activeCalls EXCEPT ![worker[c]] = @ + 1]
      /\ UNCHANGED <<sid, worker, outcome>>
    BY DEF RegisterSession
<1>3. pc'[c] = "receive" /\ \A d \in Conns \ {c} : pc'[d] = pc[d]
    BY <1>2 DEF Goto, TypeOK
<1>4. Stage(c) = "waiting" /\ Stage(c)' = "open"
    BY <1>2, <1>3 DEF Stage, InCall, Speaking
<1>5. Ledger!Move(c, "open")
    BY <1>2, <1>4, StageMoves DEF Ledger!Move
<1>6. Ledger!Call(c) = "absent" /\ ~Ledger!Full(worker[c])
    <2>1. worker[c] \in Workers /\ Session(c) \in SessionRecords
        BY SessionType
    <2>2. Session(c) = Absent /\ Cardinality(ActiveOn(worker[c])) < MaxSessions
        BY <1>2 DEF Reserved
    <2>3. Ledger!Call(c) = "absent"
        BY <2>1, <2>2, CallLemma, EntryLemma DEF Absent
    <2>4. ~(Cardinality(ActiveOn(worker[c])) >= MaxSessions)
        BY <2>1, <2>2, ActiveOnFinite, VoiceCallAssumption
    <2> QED
        BY <2>1, <2>3, <2>4, OpenOnLemma
<1>7. Ledger!Enter(c, "open")
    <2>1. Entry(NewSession(loaded[c])) = "open"
        BY DEF Entry, NewSession, IsActive, ActiveStates
    <2> QED
        BY <1>1, <2>1, EntryMoves DEF Ledger!Enter
<1>8. UNCHANGED [d \in Conns |-> IF pc[d] = "done" THEN outcome[d] ELSE "none"]
    BY <1>2, <1>3
<1> QED
    BY <1>2, <1>4, <1>5, <1>6, <1>7, <1>8 DEF Ledger!Admit

LEMMA ReportIsReport ==
    ASSUME IInv, EndsWithVerdict, NEW c \in Conns, ReportCall(c)
    PROVE  Ledger!Report(c)
<1> USE DEF IInv
<1>1. /\ pc[c] = "closing" /\ Goto(c, "done")
      /\ activeCalls' = [activeCalls EXCEPT ![worker[c]] = @ - 1]
      /\ UNCHANGED <<sid, worker, outcome, sessions>>
    BY DEF ReportCall
<1>2. pc'[c] = "done" /\ \A d \in Conns \ {c} : pc'[d] = pc[d]
    BY <1>1 DEF Goto, TypeOK
<1>3. Stage(c) = "open" /\ Stage(c)' = "reported"
    BY <1>1, <1>2 DEF Stage, InCall, Speaking
<1>4. Ledger!Move(c, "reported")
    BY <1>1, <1>3, StageMoves DEF Ledger!Move
<1>5. Ledger!Call(c) = outcome[c] /\ outcome[c] \in Ledger!Verdicts
    <2>1. Session(c).state = "ended" /\ Session(c).outcome = outcome[c]
        BY <1>1 DEF SessionFollowsHandler, FollowsHandler
    <2>2. Entry(Session(c)) = outcome[c]
        BY <2>1, SessionType, EntryLemma
    <2>3. outcome[c] # "none"
        BY <1>1 DEF EndsWithVerdict
    <2> QED
        BY <2>2, <2>3, CallLemma DEF TypeOK, Outcomes, Ledger!Verdicts
<1>6. UNCHANGED [w \in Workers |-> [s \in Sids |-> Entry(sessions[w][s])]]
    BY <1>1
<1>7. [d \in Conns |-> IF pc[d] = "done" THEN outcome[d] ELSE "none"]'
      = [[d \in Conns |-> IF pc[d] = "done" THEN outcome[d] ELSE "none"]
            EXCEPT ![c] = outcome[c]]
    BY <1>1, <1>2
<1> QED
    BY <1>1, <1>3, <1>4, <1>5, <1>6, <1>7 DEF Ledger!Report

\* The connections a crash takes with it are those inside create_session.
LEMMA CrashIsForget ==
    ASSUME IInv, NEW w \in Workers, Crash(w)
    PROVE  Ledger!Forget(w)
<1> USE DEF IInv
<1> DEFINE lost == {c \in Conns : worker[c] = w /\ pc[c] \in {"hydrating", "registering"}}
<1>1. /\ sessions' = [sessions EXCEPT ![w] = [s \in Sids |-> Absent]]
      /\ activeCalls' = [activeCalls EXCEPT ![w] = 0]
      /\ UNCHANGED <<sid, worker, outcome>>
    BY DEF Crash
<1>2. \A c \in Conns :
          pc'[c] = IF worker[c] = w /\ pc[c] \notin Finished \cup {"connecting"}
                   THEN "dead" ELSE pc[c]
    BY DEF Crash
<1>3. \A c \in Conns : pc[c] \in PCs
    BY DEF TypeOK
<1>4. \A c \in Conns : Stage(c)' = IF c \in lost \/ (worker[c] = w /\ Stage(c) = "open")
                                   THEN "lost" ELSE Stage(c)
    <2> TAKE c \in Conns
    <2>1. CASE pc[c] \in InCall
        BY <1>2, <2>1 DEF Stage, InCall, Speaking, Finished
    <2>2. CASE pc[c] \in {"connecting", "hydrating", "registering", "rejected", "done", "dead"}
        BY <1>2, <2>2 DEF Stage, InCall, Speaking, Finished
    <2> QED
        BY <1>3, <2>1, <2>2 DEF PCs, Finished
<1>5. lost \in SUBSET {c \in Conns : worker[c] = w /\ Stage(c) = "waiting"}
    BY DEF Stage, InCall, Speaking
<1>6. [v \in Workers |-> [s \in Sids |-> Entry(sessions[v][s])]]'
      = [[v \in Workers |-> [s \in Sids |-> Entry(sessions[v][s])]]
            EXCEPT ![w] = [s \in Sids |-> "absent"]]
    <2>1. Entry(Absent) = "absent"
        BY DEF Entry, Absent
    <2> QED
        BY <1>1, <2>1 DEF TypeOK
<1>7. UNCHANGED [c \in Conns |-> IF pc[c] = "done" THEN outcome[c] ELSE "none"]
    BY <1>1, <1>2 DEF Finished
<1>8. \E those \in SUBSET {c \in Conns : /\ worker[c] = w
                                         /\ [d \in Conns |-> Stage(d)][c] = "waiting"} :
          [c \in Conns |-> Stage(c)]'
          = [c \in Conns |->
                IF c \in those \/ (worker[c] = w /\ [d \in Conns |-> Stage(d)][c] = "open")
                THEN "lost" ELSE [d \in Conns |-> Stage(d)][c]]
    <2> HIDE DEF lost
    <2>1. lost \in SUBSET {c \in Conns : /\ worker[c] = w
                                         /\ [d \in Conns |-> Stage(d)][c] = "waiting"}
        BY <1>5
    <2>2. [c \in Conns |-> Stage(c)]'
          = [c \in Conns |->
                IF c \in lost \/ (worker[c] = w /\ [d \in Conns |-> Stage(d)][c] = "open")
                THEN "lost" ELSE [d \in Conns |-> Stage(d)][c]]
        BY <1>4
    <2> QED
        BY <2>1, <2>2
<1> QED
    BY <1>1, <1>6, <1>7, <1>8 DEF Ledger!Forget

\* The session of a handler in a call: it has an outcome when it has ended, and
\* before that at most an escalation.
LEMMA CallOutcome ==
    ASSUME IInv, EndsWithVerdict, NEW c \in Conns, pc[c] \in InCall
    PROVE  /\ Session(c) \in SessionRecords
           /\ Session(c).state # "absent"
           /\ IsActive(Session(c)) => Session(c).outcome \in {"none", "escalated"}
           /\ Session(c).state = "ended" => Session(c).outcome # "none"
<1>1. FollowsHandler(c) /\ Session(c) \in SessionRecords
    BY SessionType DEF IInv, SessionFollowsHandler
<1>2. CASE pc[c] \in InTurn
    BY <1>1, <1>2 DEF FollowsHandler, PendingOutcome, IsActive, ActiveStates
<1>3. CASE pc[c] \in {"endDelete", "cleanup", "cleanupDelete", "closing"}
    BY <1>1, <1>3 DEF FollowsHandler, EndsWithVerdict, IsActive, ActiveStates
<1> QED
    BY <1>2, <1>3 DEF InTurn

\* Inside a call the session of the handler stays, goes on, or ends with an
\* outcome that is reported.
LEMMA InCallActionProceeds ==
    ASSUME IInv, IInv', EndsWithVerdict, EndsWithVerdict',
           NEW c \in Conns, InCallAction(c)
    PROVE  Ledger!Proceed(c) \/ UNCHANGED Ledger!ledgerVars
<1> USE DEF IInv
<1>1. CallStep(c) /\ sid' = sid /\ worker' = worker /\ activeCalls' = activeCalls
    BY InCallActionIsCallStep DEF CallStep
<1>2. PICK to \in InCall : Goto(c, to)
    BY <1>1 DEF CallStep
<1>3. /\ pc[c] \in InCall /\ pc'[c] \in InCall
      /\ \A d \in Conns \ {c} : pc'[d] = pc[d]
    BY <1>1, <1>2 DEF CallStep, Goto, TypeOK
<1>4. \A d \in Conns : Stage(d)' = Stage(d)
    BY <1>3 DEF Stage
<1>5. /\ \A d \in Conns : pc[d] = "done" <=> pc'[d] = "done"
      /\ \A d \in Conns : pc[d] = "done" => outcome'[d] = outcome[d]
    <2>1. pc[c] # "done" /\ pc'[c] # "done"
        BY <1>3 DEF InCall, Speaking
    <2>2. \A d \in Conns \ {c} : outcome'[d] = outcome[d]
        BY DEF TypeOK, InCallAction, TurnStep, EndOfTurn, ClientCloses, ReceiveAudio,
               ReceiveUtterance, ReceiveEnd, LeaveLoop, SttLowConfidence, SttNothing,
               SttTranscript, LoadTurnStrikes, SyncTurnStrikes, GraphReturns, GraphRaises,
               SaveStrikes, BeginSpeaking, FinishApology, FinishWarning, FinishAnswer,
               FinishFallback, FinishEscalation, FinishTermination, SpeechBroken,
               BackToListening, FinishEnd, Cleanup, FinishCleanupDelete, connVars
    <2> QED
        BY <1>3, <2>1, <2>2
<1>6. CASE UNCHANGED sessions
    <2>1. \A w \in Workers, s \in Sids : Entry(sessions[w][s])' = Entry(sessions[w][s])
        BY <1>6
    <2> QED
        BY <1>1, <1>4, <1>5, <2>1, UnseenStep
<1>7. ASSUME NEW session \in SessionRecords, SetSession(c, session), session.state # "absent",
             IsActive(session) => IsActive(Session(c))
      PROVE  Ledger!Proceed(c) \/ UNCHANGED Ledger!ledgerVars
    <2>1. Session(c) \in SessionRecords /\ Session(c)' = session
        BY <1>1, <1>7, SessionType, SetSessionRead
    <2>2. /\ Session(c).state = "ended" => session.state = "ended"
          /\ Session(c).outcome # "none" => session.outcome = Session(c).outcome
        <3>1. worker[c] \in Workers /\ sid[c] \in Sids
            BY SessionType
        <3>2. Keeps(sessions[worker[c]][sid[c]], sessions'[worker[c]][sid[c]])
            BY <3>1, InCallActionKeeps
        <3> QED
            BY <1>1, <2>1, <3>2 DEF Session, Keeps
    <2>3. /\ Session(c).state # "absent"
          /\ IsActive(Session(c)) => Session(c).outcome \in {"none", "escalated"}
          /\ Session(c).state = "ended" => Session(c).outcome # "none"
        BY <1>3, CallOutcome
    <2>4. /\ IsActive(session) => session.outcome \in {"none", "escalated"}
          /\ session.state = "ended" => session.outcome # "none"
        <3>1. /\ IsActive(Session(c))' => Session(c)'.outcome \in {"none", "escalated"}
              /\ Session(c)'.state = "ended" => Session(c)'.outcome # "none"
            <4>1. FollowsHandler(c)'
                BY DEF SessionFollowsHandler
            <4>2. CASE pc'[c] \in InTurn
                BY <4>1, <4>2 DEF FollowsHandler, PendingOutcome, IsActive, ActiveStates
            <4>3. CASE pc'[c] \in {"endDelete", "cleanup", "cleanupDelete", "closing"}
                BY <4>1, <4>3 DEF FollowsHandler, EndsWithVerdict, IsActive, ActiveStates
            <4> QED
                BY <1>3, <4>2, <4>3 DEF InTurn
        <3> QED
            BY <2>1, <3>1 DEF IsActive
    <2>5. CASE Entry(session) = Entry(Session(c))
        <3>1. \A w \in Workers, s \in Sids : Entry(sessions[w][s])' = Entry(sessions[w][s])
            BY <1>7, <2>5 DEF SetSession, Session, TypeOK
        <3> QED
            BY <1>1, <1>4, <1>5, <3>1, UnseenStep
    <2>6. CASE Entry(session) # Entry(Session(c))
        <3>1. Ledger!Follows(Entry(Session(c)), Entry(session))
            BY <1>7, <2>1, <2>2, <2>3, <2>4, <2>6
            DEF Entry, IsActive, ActiveStates, SessionRecords, SessionStates, Outcomes,
                Ledger!Follows, Ledger!Verdicts
        <3>2. [w \in Workers |-> [s \in Sids |-> Entry(sessions[w][s])]]'[worker[c]][sid[c]]
              = Entry(session)
            BY <1>1, <2>1, SessionType DEF Session
        <3>3. Stage(c) = "open" /\ UNCHANGED [d \in Conns |-> Stage(d)]
            BY <1>3, <1>4 DEF Stage
        <3>4. Ledger!Enter(c, Entry(session))
            BY <1>7, EntryMoves DEF Ledger!Enter
        <3>5. Ledger!Follows(Ledger!Call(c), Entry(session))
            BY <3>1, CallLemma
        <3>6. UNCHANGED [d \in Conns |-> IF pc[d] = "done" THEN outcome[d] ELSE "none"]
            BY <1>5
        <3> QED
            BY <1>1, <3>2, <3>3, <3>4, <3>5, <3>6 DEF Ledger!Proceed
    <2> QED
        BY <2>5, <2>6
<1> QED
    BY <1>1, <1>6, <1>7 DEF CallStep

LEMMA NextKeepsLedger ==
    ASSUME IInv, IInv', EndsWithVerdict, EndsWithVerdict', [Next]_vars
    PROVE  [Ledger!LedgerNext]_(Ledger!ledgerVars)
<1> USE DEF IInv
<1>1. ASSUME UNCHANGED <<pc, sid, worker, outcome, sessions, activeCalls>>
      PROVE  UNCHANGED Ledger!ledgerVars
    <2>1. \A c \in Conns : Stage(c)' = Stage(c)
        BY <1>1 DEF Stage
    <2>2. \A w \in Workers, s \in Sids : Entry(sessions[w][s])' = Entry(sessions[w][s])
        BY <1>1
    <2> QED
        BY <1>1, <2>1, <2>2, UnseenStep
<1>2. ASSUME NEW c \in Conns, AdmitSession(c) \/ HydrateSession(c)
      PROVE  UNCHANGED Ledger!ledgerVars
    <2>1. /\ pc[c] \in {"connecting", "hydrating"}
          /\ Goto(c, "hydrating") \/ Goto(c, "registering")
          /\ UNCHANGED <<sid, worker, outcome, sessions, activeCalls>>
        BY <1>2 DEF AdmitSession, HydrateSession, processVars
    <2>2. pc'[c] \in {"hydrating", "registering"} /\ \A d \in Conns \ {c} : pc'[d] = pc[d]
        BY <2>1 DEF Goto, TypeOK
    <2>3. \A d \in Conns : Stage(d)' = Stage(d)
        BY <2>1, <2>2 DEF Stage, InCall, Speaking
    <2>4. \A w \in Workers, s \in Sids : Entry(sessions[w][s])' = Entry(sessions[w][s])
        BY <2>1
    <2> QED
        BY <2>1, <2>2, <2>3, <2>4, UnseenStep
<1>3. ASSUME NEW c \in Conns, ClientStep(c) \/ HandlerStep(c) \/ LeaveLoop(c)
      PROVE  Ledger!LedgerNext \/ UNCHANGED Ledger!ledgerVars
    <2>1. CASE InCallAction(c)
        BY <2>1, InCallActionProceeds DEF Ledger!LedgerNext
    <2>2. CASE RejectSession(c) \/ RegisterSession(c) \/ ReportCall(c)
        BY <2>2, RejectIsRefuse, RegisterIsAdmit, ReportIsReport DEF Ledger!LedgerNext
    <2> QED
        BY <1>2, <1>3, <2>1, <2>2
        DEF ClientStep, HandlerStep, Admission, Closing, InCallAction
<1>4. ASSUME NEW w \in Workers, Crash(w)
      PROVE  Ledger!LedgerNext
    BY <1>4, CrashIsForget DEF Ledger!LedgerNext
<1>5. ASSUME NEW s \in Sids, ExpireKey(s)
      PROVE  UNCHANGED Ledger!ledgerVars
    BY <1>1, <1>5 DEF ExpireKey, connVars, processVars
<1>6. CASE UNCHANGED vars
    BY <1>1, <1>6 DEF vars, connVars, processVars
<1> QED
    BY <1>3, <1>4, <1>5, <1>6 DEF Next

LEMMA InitLedger == Init => Ledger!LedgerInit
<1> SUFFICES ASSUME Init
             PROVE  Ledger!LedgerInit
    OBVIOUS
<1>1. \A c \in Conns : pc[c] = "connecting" /\ Stage(c) = "waiting"
    BY DEF Init, Stage, InCall, Speaking
<1>2. \A w \in Workers, s \in Sids : Entry(sessions[w][s]) = "absent"
    BY DEF Init, Entry, Absent
<1>3. /\ sid \in [Conns -> Sids] /\ worker \in [Conns -> Workers]
      /\ activeCalls = [w \in Workers |-> 0]
    BY DEF Init
<1> QED
    BY <1>1, <1>2, <1>3 DEF Ledger!LedgerInit

-----------------------------------------------------------------------------
(* Strikes are earned: with every handler and every id, tainted or not.  The *)
(* count a handler is about to save is the one its session has (Judged), and *)
(* a session is written by one handler, so whatever count an id gets was in  *)
(* use before, or is one more than a count in use and of a refused turn.     *)

Judged(c) ==
    pc[c] = "saving" =>
        /\ turn[c].result.strikes = Session(c).strikes
        /\ turn[c].result.endSession => Session(c).strikes >= StrikeLimit

EveryJudged == \A c \in Conns : Judged(c)

\* Whatever it is given and whether or not the rails are on, the pipeline adds
\* one when it refuses, never adds otherwise, and ends on the limit only.
LEMMA PipelineAddsOne ==
    ASSUME NEW query \in Query, NEW strikes \in Nat, NEW result \in TurnResults(query, strikes)
    PROVE  /\ result \in Result
           /\ result.strikes <= strikes \/ (result.blocked /\ result.strikes = strikes + 1)
           /\ result.endSession => result.strikes >= StrikeLimit
<1>1. result \in Result
    BY TurnResultsType
<1>2. CASE GuardrailsEnabled
    <2>1. /\ result.strikes = IF result.blocked THEN strikes + 1
                              ELSE IF result.error THEN strikes ELSE 0
          /\ ~result.error => (result.endSession <=> result.strikes >= StrikeLimit)
          /\ result.error => ~result.endSession
        BY <1>2, PipelineCounts
    <2> QED
        BY <1>1, <2>1
<1>3. CASE ~GuardrailsEnabled
    <2>1. result.strikes = strikes /\ ~result.endSession
        BY <1>3
        DEF TurnResults, Invoke, Failed, InputGuardrails, SafetyGate, Continue, RoutesToEnd,
            InitialState
    <2> QED
        BY <1>1, <2>1
<1> QED
    BY <1>2, <1>3

\* What an action of the handler c does to the counts.
CountStep(c) ==
    /\ \A s \in Sids \ {sid[c]} : KeyValue(s)' = KeyValue(s)
    /\ \/ KeyValue(sid[c])' \in {KeyValue(sid[c]), 0}
       \/ pc[c] = "saving" /\ KeyValue(sid[c])' = turn[c].result.strikes
    /\ \/ Session(c)'.strikes = Session(c).strikes
       \/ pc[c] = "syncing" /\ Session(c)'.strikes = loaded[c]
       \/ pc[c] = "graph" /\ Session(c)'.strikes <= Session(c).strikes
       \/ /\ pc[c] = "graph" /\ pc'[c] = "saving" /\ turn'[c].result.blocked
          /\ Session(c)'.strikes = Session(c).strikes + 1

\* And to the counts on their way: it sends off at most one, which it read.
LoadedStep(c) ==
    /\ \A d \in Conns \ {c} : loaded'[d] = loaded[d]
    /\ pc'[c] = "syncing" => \/ loaded'[c] \in {KeyValue(sid[c]), 0}
                             \/ pc[c] = "syncing" /\ loaded'[c] = loaded[c]

LEMMA InCallActionLoads ==
    ASSUME TypeOK, NEW c \in Conns, InCallAction(c)
    PROVE  LoadedStep(c)
<1>1. ASSUME NEW d \in Conns \ {c}
      PROVE  loaded'[d] = loaded[d]
    BY DEF TypeOK, InCallAction, TurnStep, EndOfTurn, ClientCloses, ReceiveAudio,
           ReceiveUtterance, ReceiveEnd, LeaveLoop, SttLowConfidence, SttNothing,
           SttTranscript, LoadTurnStrikes, SyncTurnStrikes, GraphReturns, GraphRaises,
           SaveStrikes, BeginSpeaking, FinishApology, FinishWarning, FinishAnswer,
           FinishFallback, FinishEscalation, FinishTermination, SpeechBroken,
           BackToListening, FinishEnd, Cleanup, FinishCleanupDelete, connVars
<1>2. CASE LoadTurnStrikes(c)
    <2>1. PICK ok \in BOOLEAN : loaded' = [loaded EXCEPT ![c] = Loaded(sid[c], ok)]
        BY <1>2 DEF LoadTurnStrikes
    <2>2. loaded'[c] = Loaded(sid[c], ok)
        BY <2>1 DEF TypeOK
    <2> QED
        BY <1>1, <2>2 DEF LoadedStep, Loaded
<1>3. CASE ClientCloses(c)
    BY <1>1, <1>3 DEF ClientCloses, LoadedStep
<1>4. CASE ~(LoadTurnStrikes(c) \/ ClientCloses(c))
    <2>1. pc'[c] # "syncing"
        BY <1>4
        DEF InCallAction, TurnStep, EndOfTurn, ReceiveAudio, ReceiveUtterance, ReceiveEnd,
            LeaveLoop, SttLowConfidence, SttNothing, SttTranscript, SyncTurnStrikes,
            GraphReturns, GraphRaises, SaveStrikes, NextSpeech, BeginSpeaking,
            FinishApology, FinishWarning, FinishAnswer, FinishFallback, FinishEscalation,
            FinishTermination, SpeechBroken, BackToListening, FinishEnd, Cleanup,
            FinishCleanupDelete, Goto, connVars, TypeOK
    <2> QED
        BY <1>1, <2>1 DEF LoadedStep
<1> QED
    BY <1>2, <1>3, <1>4

LEMMA KeptCounts ==
    ASSUME NEW c \in Conns, strikeKey' = strikeKey, sid' = sid,
           Session(c)'.strikes = Session(c).strikes
    PROVE  CountStep(c)
<1>1. \A s : KeyValue(s)' = KeyValue(s)
    BY DEF KeyValue
<1> QED
    BY <1>1 DEF CountStep

LEMMA InCallActionCounts ==
    ASSUME IInv, NEW c \in Conns, InCallAction(c)
    PROVE  CountStep(c)
<1> USE DEF IInv
<1>1. CallStep(c) /\ sid' = sid /\ worker' = worker
    BY InCallActionIsCallStep DEF CallStep
<1>2. sid[c] \in Sids /\ Session(c) \in SessionRecords
    BY SessionType
<1>3. \A session : SetSession(c, session) => Session(c)' = session
    BY <1>1, SetSessionRead
<1>4. UNCHANGED strikeKey => \A s : KeyValue(s)' = KeyValue(s)
    BY DEF KeyValue
<1>5. UNCHANGED sessions => Session(c)' = Session(c)
    BY <1>1 DEF Session
<1>6. CASE SyncTurnStrikes(c)
    <2>1. SetSession(c, [Session(c) EXCEPT !.strikes = loaded[c]])
        BY <1>6 DEF SyncTurnStrikes
    <2>2. Session(c)'.strikes = loaded[c]
        BY <1>2, <1>3, <2>1 DEF SessionRecords
    <2>3. pc[c] = "syncing" /\ UNCHANGED strikeKey
        BY <1>6 DEF SyncTurnStrikes, strikeVars
    <2>4. (\A s : KeyValue(s)' = KeyValue(s)) /\ KeyValue(sid[c])' = KeyValue(sid[c])
        BY <1>1, <2>3 DEF KeyValue
    <2> QED
        BY <2>2, <2>3, <2>4 DEF CountStep
<1>7. CASE GraphReturns(c)
    <2>1. PICK query \in Query : \E result \in TurnResults(query, Session(c).strikes) :
              /\ turn' = [turn EXCEPT ![c] = [query |-> query, result |-> result]]
              /\ SetSession(c, [Session(c) EXCEPT !.strikes = result.strikes])
        BY <1>7 DEF GraphReturns
    <2>2. PICK result \in TurnResults(query, Session(c).strikes) :
              /\ turn' = [turn EXCEPT ![c] = [query |-> query, result |-> result]]
              /\ SetSession(c, [Session(c) EXCEPT !.strikes = result.strikes])
        BY <2>1
    <2>3. Session(c)'.strikes = result.strikes /\ turn'[c].result = result
        BY <1>2, <1>3, <2>2 DEF SessionRecords, TypeOK
    <2>4. \/ result.strikes <= Session(c).strikes
          \/ result.blocked /\ result.strikes = Session(c).strikes + 1
        BY <1>2, PipelineAddsOne DEF SessionRecords
    <2>5. pc[c] = "graph" /\ pc'[c] = "saving" /\ UNCHANGED strikeKey
        BY <1>7 DEF GraphReturns, Goto, strikeVars, TypeOK
    <2>6. \/ Session(c)'.strikes <= Session(c).strikes
          \/ turn'[c].result.blocked /\ Session(c)'.strikes = Session(c).strikes + 1
        BY <2>3, <2>4
    <2>7. (\A s : KeyValue(s)' = KeyValue(s)) /\ KeyValue(sid[c])' = KeyValue(sid[c])
        BY <1>1, <2>5 DEF KeyValue
    <2> QED
        BY <2>5, <2>6, <2>7 DEF CountStep
<1>8. CASE SaveStrikes(c)
    <2>1. PICK ok \in BOOLEAN :
              strikeKey' = IF ok THEN [strikeKey EXCEPT ![sid[c]] = turn[c].result.strikes]
                           ELSE strikeKey
        BY <1>8 DEF SaveStrikes
    <2>2. Session(c)'.strikes = Session(c).strikes /\ pc[c] = "saving"
        BY <1>5, <1>8 DEF SaveStrikes, processVars
    <2>3. \A s \in Sids \ {sid[c]} : KeyValue(s)' = KeyValue(s)
        BY <1>2, <2>1 DEF KeyValue, TypeOK
    <2>4. turn[c].result.strikes \in Nat
        BY DEF TypeOK, Turns, Result
    <2>5. KeyValue(sid[c])' \in {KeyValue(sid[c]), turn[c].result.strikes}
        BY <1>1, <1>2, <2>1, <2>4, VoiceCallAssumption DEF KeyValue, TypeOK
    <2> QED
        BY <2>2, <2>3, <2>5 DEF CountStep
<1>9. CASE FinishEnd(c) \/ FinishCleanupDelete(c)
    <2>1. PICK ok \in BOOLEAN :
              strikeKey' = IF ok THEN [strikeKey EXCEPT ![sid[c]] = NoKey] ELSE strikeKey
        BY <1>9 DEF FinishEnd, FinishCleanupDelete, DeleteStrikes
    <2>2. Session(c)'.strikes = Session(c).strikes
        BY <1>5, <1>9 DEF FinishEnd, FinishCleanupDelete, processVars
    <2>3. \A s \in Sids \ {sid[c]} : KeyValue(s)' = KeyValue(s)
        BY <1>2, <2>1 DEF KeyValue, TypeOK
    <2>4. KeyValue(sid[c])' \in {KeyValue(sid[c]), 0}
        BY <1>1, <1>2, <2>1 DEF KeyValue, TypeOK
    <2> QED
        BY <2>2, <2>3, <2>4 DEF CountStep
<1>10. CASE ~(SyncTurnStrikes(c) \/ GraphReturns(c) \/ SaveStrikes(c)
              \/ FinishEnd(c) \/ FinishCleanupDelete(c))
    <2>1. UNCHANGED strikeKey
        BY <1>10
        DEF InCallAction, TurnStep, EndOfTurn, ClientCloses, ReceiveAudio, ReceiveUtterance,
            ReceiveEnd, LeaveLoop, SttLowConfidence, SttNothing, SttTranscript,
            LoadTurnStrikes, GraphRaises, BeginSpeaking, FinishApology, FinishWarning,
            FinishAnswer, FinishFallback, FinishEscalation, FinishTermination,
            SpeechBroken, BackToListening, Cleanup,
            strikeVars
    <2>2. \/ UNCHANGED sessions
          \/ \E state, how : SetSession(c, [[Session(c) EXCEPT !.state = state]
                                               EXCEPT !.outcome = how])
          \/ \E state : SetSession(c, [Session(c) EXCEPT !.state = state])
        BY <1>10
        DEF InCallAction, TurnStep, EndOfTurn, ClientCloses, ReceiveAudio, ReceiveUtterance,
            ReceiveEnd, LeaveLoop, SttLowConfidence, SttNothing, SttTranscript,
            LoadTurnStrikes, GraphRaises, BeginSpeaking, FinishApology, FinishWarning,
            FinishAnswer, FinishFallback, FinishEscalation, FinishTermination,
            SpeechBroken, BackToListening, Cleanup,
            processVars, SetState, EndSession
    <2>3. Session(c)'.strikes = Session(c).strikes
        BY <1>2, <1>3, <1>5, <2>2 DEF SessionRecords
    <2> QED
        BY <1>1, <2>1, <2>3, KeptCounts
<1> QED
    BY <1>6, <1>7, <1>8, <1>9, <1>10

\* A count of an id after a step of the handler c.
LEMMA CountsAfter ==
    ASSUME IInv, EveryJudged, NEW c \in Conns, CallStep(c), CountStep(c), LoadedStep(c),
           NEW s \in Sids, NEW n \in Counts(s)', n > 0
    PROVE  \E m \in Counts(s) : n <= m \/ (IsRefused(s) /\ n = m + 1)
<1> USE DEF IInv
<1>1. sid' = sid /\ worker' = worker /\ sid[c] \in Sids /\ pc[c] \in InCall
    BY DEF CallStep, TypeOK
<1>2. \A d \in Conns : /\ Session(d).strikes \in Nat /\ KeyValue(sid[d]) \in Nat
                       /\ loaded[d] \in Nat
    BY SessionType DEF SessionRecords, KeyValue, TypeOK
<1>3. \A t \in Sids : KeyValue(t) \in Nat /\ KeyValue(t) \in Counts(t)
    BY DEF Counts, KeyValue, TypeOK
<1>4. Session(c).strikes \in Counts(sid[c]) /\ KeyValue(sid[c]) \in Counts(sid[c])
    BY <1>1 DEF Counts
<1>5. pc[c] = "saving" => turn[c].result.strikes = Session(c).strikes
    BY DEF EveryJudged, Judged
<1>6. CASE n = KeyValue(s)'
    <2>1. CASE s # sid[c]
        BY <1>3, <1>6, <2>1 DEF CountStep
    <2>2. CASE s = sid[c]
        <3>1. KeyValue(s)' = KeyValue(sid[c])'
            BY <1>1, <2>2 DEF KeyValue
        <3>2. n \in {KeyValue(sid[c]), 0, Session(c).strikes}
            BY <1>5, <1>6, <3>1 DEF CountStep
        <3> QED
            BY <1>2, <1>4, <2>2, <3>2
    <2> QED
        BY <2>1, <2>2
<1>7. ASSUME NEW d \in Conns, sid[d] = s, pc'[d] \in InCall, n = Session(d)'.strikes
      PROVE  \E m \in Counts(s) : n <= m \/ (IsRefused(s) /\ n = m + 1)
    <2>1. CASE d = c
        <3>1. CASE pc[c] = "syncing" /\ n = loaded[c]
            <4>1. loaded[c] \in Counts(s)
                BY <1>7, <2>1, <3>1 DEF Counts
            <4> QED
                BY <1>2, <3>1, <4>1
        <3>2. CASE n = Session(c).strikes \/ n <= Session(c).strikes
            BY <1>2, <1>4, <1>7, <2>1, <3>2
        <3>3. CASE /\ pc[c] = "graph" /\ pc'[c] = "saving" /\ turn'[c].result.blocked
                   /\ n = Session(c).strikes + 1
            <4>1. IsRefused(s)
                BY <1>7, <2>1, <3>3 DEF IsRefused
            <4> QED
                BY <1>4, <1>7, <2>1, <3>3, <4>1
        <3> QED
            BY <1>7, <2>1, <3>1, <3>2, <3>3 DEF CountStep
    <2>2. CASE d # c
        <3>1. pc'[d] = pc[d]
            BY <2>2 DEF CallStep, Goto, TypeOK
        <3>2. <<worker[d], sid[d]>> # <<worker[c], sid[c]>>
            BY <1>1, <1>7, <2>2, <3>1 DEF OneHandlerPerSession
        <3>3. Session(d)' = Session(d)
            BY <1>1, <3>2 DEF CallStep, SetSession, Session, TypeOK
        <3>4. n = Session(d).strikes /\ n \in Counts(s)
            BY <1>7, <3>1, <3>3 DEF Counts
        <3> QED
            BY <1>2, <3>4
    <2> QED
        BY <2>1, <2>2
<1>8. ASSUME NEW d \in Conns, sid[d] = s, pc'[d] \in {"registering", "syncing"},
             n = loaded'[d]
      PROVE  \E m \in Counts(s) : n <= m \/ (IsRefused(s) /\ n = m + 1)
    <2>1. CASE d = c
        <3>1. pc'[c] = "syncing"
            BY <1>1, <1>8, <2>1 DEF CallStep, Goto, InCall, Speaking, TypeOK
        <3>2. CASE n \in {KeyValue(sid[c]), 0}
            BY <1>2, <1>4, <1>8, <2>1, <3>2
        <3>3. CASE pc[c] = "syncing" /\ n = loaded[c]
            <4>1. loaded[c] \in Counts(s)
                BY <1>8, <2>1, <3>3 DEF Counts
            <4> QED
                BY <1>2, <3>3, <4>1
        <3> QED
            BY <1>8, <2>1, <3>1, <3>2, <3>3 DEF LoadedStep
    <2>2. CASE d # c
        <3>1. pc'[d] = pc[d] /\ loaded'[d] = loaded[d]
            BY <2>2 DEF CallStep, Goto, LoadedStep, TypeOK
        <3>2. n \in Counts(s)
            BY <1>8, <3>1 DEF Counts
        <3> QED
            BY <1>2, <1>8, <3>1, <3>2
    <2> QED
        BY <2>1, <2>2
<1>9. \/ n = KeyValue(s)'
      \/ \E d \in Conns : sid[d] = s /\ pc'[d] \in InCall /\ n = Session(d)'.strikes
      \/ \E d \in Conns : /\ sid[d] = s /\ pc'[d] \in {"registering", "syncing"}
                         /\ n = loaded'[d]
    BY <1>1 DEF Counts
<1> QED
    BY <1>6, <1>7, <1>8, <1>9

LEMMA RegisterCounts ==
    ASSUME IInv, NEW c \in Conns, RegisterSession(c),
           NEW s \in Sids, NEW n \in Counts(s)', n > 0
    PROVE  n \in Counts(s)
<1> USE DEF IInv
<1>1. SetSession(c, NewSession(loaded[c]))
    BY DEF RegisterSession
<1>2. /\ pc[c] = "registering" /\ pc'[c] = "receive"
      /\ \A d \in Conns \ {c} : pc'[d] = pc[d] /\ loaded'[d] = loaded[d]
      /\ sid' = sid /\ worker' = worker /\ strikeKey' = strikeKey
    BY DEF RegisterSession, Goto, TypeOK
<1>3. KeyValue(s)' = KeyValue(s) /\ KeyValue(s) \in Counts(s)
    BY <1>2 DEF KeyValue, Counts
<1>4. Session(c)'.strikes = loaded[c] /\ loaded[c] \in Counts(sid[c])
    <2>1. Session(c)' = NewSession(loaded[c])
        BY <1>1, <1>2, SetSessionRead
    <2> QED
        BY <1>2, <2>1 DEF NewSession, Counts
<1>5. ASSUME NEW d \in Conns, sid[d] = s, pc'[d] \in InCall, n = Session(d)'.strikes
      PROVE  n \in Counts(s)
    <2>1. CASE d = c
        BY <1>4, <1>5, <2>1
    <2>2. CASE d # c
        <3>1. pc[d] \in InCall
            BY <1>2, <1>5, <2>2
        <3>2. <<worker[d], sid[d]>> # <<worker[c], sid[c]>>
            BY <1>2, <3>1 DEF Reserved, OneHandlerPerSession, Session
        <3>3. Session(d)' = Session(d)
            BY <1>1, <1>2, <3>2 DEF SetSession, Session, TypeOK
        <3> QED
            BY <1>5, <3>1, <3>3 DEF Counts
    <2> QED
        BY <2>1, <2>2
<1>6. ASSUME NEW d \in Conns, sid[d] = s, pc'[d] \in {"registering", "syncing"},
             n = loaded'[d]
      PROVE  n \in Counts(s)
    BY <1>2, <1>6 DEF Counts
<1> QED
    BY <1>2, <1>3, <1>5, <1>6 DEF Counts

\* A step that only takes handlers out of calls, reads a key, or takes it from Redis.
LEMMA CalmStepCounts ==
    ASSUME sid' = sid, NEW s \in Sids, KeyValue(s)' \in {KeyValue(s), 0},
           \A c \in Conns : pc'[c] \in InCall => pc[c] \in InCall /\ Session(c)' = Session(c),
           \A c \in Conns : pc'[c] \in {"registering", "syncing"} =>
               \/ pc[c] = pc'[c] /\ loaded'[c] = loaded[c]
               \/ loaded'[c] \in {KeyValue(sid[c]), 0},
           NEW n \in Counts(s)', n > 0
    PROVE  n \in Counts(s)
BY DEF Counts

LEMMA NextCounts ==
    ASSUME IInv, EveryJudged, [Next]_vars, NEW s \in Sids, NEW n \in Counts(s)', n > 0
    PROVE  \E m \in Counts(s) : n <= m \/ (IsRefused(s) /\ n = m + 1)
<1> USE DEF IInv
<1>1. \A m \in Counts(s) : m \in Nat
    <2>1. \A c \in Conns : Session(c).strikes \in Nat /\ loaded[c] \in Nat
        BY SessionType DEF TypeOK, SessionRecords
    <2>2. KeyValue(s) \in Nat
        BY DEF KeyValue, TypeOK
    <2> QED
        BY <2>1, <2>2 DEF Counts
<1>2. n \in Counts(s) => \E m \in Counts(s) : n <= m \/ (IsRefused(s) /\ n = m + 1)
    BY <1>1
<1>3. ASSUME NEW c \in Conns, InCallAction(c)
      PROVE  \E m \in Counts(s) : n <= m \/ (IsRefused(s) /\ n = m + 1)
    <2>1. CallStep(c) /\ CountStep(c) /\ LoadedStep(c)
        BY <1>3, InCallActionIsCallStep, InCallActionCounts, InCallActionLoads
    <2> QED
        BY <2>1, CountsAfter
<1>4. ASSUME NEW c \in Conns, RegisterSession(c)
      PROVE  n \in Counts(s)
    BY <1>4, RegisterCounts
<1>5. ASSUME NEW c \in Conns,
             RejectSession(c) \/ AdmitSession(c) \/ HydrateSession(c) \/ ReportCall(c)
      PROVE  n \in Counts(s)
    <2>1. UNCHANGED <<sid, worker, sessions, strikeKey>>
        BY <1>5 DEF RejectSession, AdmitSession, HydrateSession, ReportCall, processVars,
                    strikeVars
    <2>2. \A d \in Conns : pc'[d] \in InCall => pc[d] \in InCall
        BY <1>5 DEF RejectSession, AdmitSession, HydrateSession, ReportCall, Goto, TypeOK,
                    InCall, Speaking
    <2>3. KeyValue(s)' = KeyValue(s) /\ \A d \in Conns : Session(d)' = Session(d)
        BY <2>1 DEF KeyValue, Session
    <2>4. \A d \in Conns : pc'[d] \in {"registering", "syncing"} =>
              \/ pc[d] = pc'[d] /\ loaded'[d] = loaded[d]
              \/ loaded'[d] \in {KeyValue(sid[d]), 0}
        <3>1. CASE HydrateSession(c)
            <4>1. PICK ok \in BOOLEAN : loaded' = [loaded EXCEPT ![c] = Loaded(sid[c], ok)]
                BY <3>1 DEF HydrateSession
            <4>2. loaded'[c] \in {KeyValue(sid[c]), 0}
                BY <4>1 DEF Loaded, TypeOK
            <4>3. \A d \in Conns \ {c} : pc[d] = pc'[d] /\ loaded'[d] = loaded[d]
                BY <3>1, <4>1 DEF HydrateSession, Goto, TypeOK
            <4> QED
                BY <4>2, <4>3
        <3>2. CASE RejectSession(c) \/ AdmitSession(c) \/ ReportCall(c)
            BY <3>2 DEF RejectSession, AdmitSession, ReportCall, Goto, TypeOK
        <3> QED
            BY <1>5, <3>1, <3>2
    <2> QED
        BY <2>1, <2>2, <2>3, <2>4, CalmStepCounts
<1>6. ASSUME NEW w \in Workers, Crash(w)
      PROVE  n \in Counts(s)
    <2>1. UNCHANGED <<sid, worker, strikeKey>>
        BY <1>6 DEF Crash, strikeVars
    <2>2. \A d \in Conns : pc'[d] \in InCall => pc[d] \in InCall /\ worker[d] # w
        BY <1>6 DEF Crash, TypeOK, Finished, InCall, Speaking
    <2>3. \A d \in Conns : worker[d] # w => Session(d)' = Session(d)
        BY <1>6, <2>1 DEF Crash, Session, TypeOK
    <2>4. KeyValue(s)' = KeyValue(s)
        BY <2>1 DEF KeyValue
    <2>5. \A d \in Conns : pc'[d] \in {"registering", "syncing"} =>
              pc[d] = pc'[d] /\ loaded'[d] = loaded[d]
        BY <1>6 DEF Crash, TypeOK, Finished
    <2> QED
        BY <2>1, <2>2, <2>3, <2>4, <2>5, CalmStepCounts
<1>7. ASSUME NEW t \in Sids, ExpireKey(t)
      PROVE  n \in Counts(s)
    <2>1. UNCHANGED <<pc, sid, worker, loaded, sessions>>
        BY <1>7 DEF ExpireKey, connVars, processVars
    <2>2. KeyValue(s)' \in {KeyValue(s), 0}
        BY <1>7 DEF ExpireKey, KeyValue, TypeOK
    <2>3. \A d \in Conns : Session(d)' = Session(d)
        BY <2>1 DEF Session
    <2> QED
        BY <2>1, <2>2, <2>3, CalmStepCounts
<1>8. CASE UNCHANGED vars
    <2>1. UNCHANGED <<pc, sid, worker, loaded, sessions, strikeKey>>
        BY <1>8 DEF vars, connVars, processVars, strikeVars
    <2>2. KeyValue(s)' = KeyValue(s) /\ \A d \in Conns : Session(d)' = Session(d)
        BY <2>1 DEF KeyValue, Session
    <2>3. n \in Counts(s)
        BY <2>1, <2>2, CalmStepCounts
    <2> QED
        BY <1>2, <2>3
<1>9. ASSUME NEW c \in Conns, ClientStep(c) \/ HandlerStep(c) \/ LeaveLoop(c)
      PROVE  \E m \in Counts(s) : n <= m \/ (IsRefused(s) /\ n = m + 1)
    BY <1>2, <1>3, <1>4, <1>5, <1>9
    DEF ClientStep, HandlerStep, Admission, Closing, InCallAction
<1> QED
    BY <1>2, <1>6, <1>7, <1>8, <1>9 DEF Next

LEMMA InCallActionJudged ==
    ASSUME IInv, EveryJudged, NEW c \in Conns, InCallAction(c)
    PROVE  EveryJudged'
<1> USE DEF IInv
<1>1. CallStep(c) /\ sid' = sid /\ worker' = worker
    BY InCallActionIsCallStep DEF CallStep
<1>2. ASSUME NEW d \in Conns \ {c}, pc'[d] = "saving"
      PROVE  Judged(d)'
    <2>1. turn'[d] = turn[d]
        BY DEF TypeOK, InCallAction, TurnStep, EndOfTurn, ClientCloses, ReceiveAudio,
               ReceiveUtterance, ReceiveEnd, LeaveLoop, SttLowConfidence, SttNothing,
               SttTranscript, LoadTurnStrikes, SyncTurnStrikes, GraphReturns, GraphRaises,
               SaveStrikes, AfterSave, BeginSpeaking, FinishApology, FinishWarning, FinishAnswer,
               FinishFallback, FinishEscalation, FinishTermination, SpeechBroken,
               BackToListening, FinishEnd, Cleanup, FinishCleanupDelete, connVars
    <2>2. pc[d] = "saving" /\ pc[d] \in InCall
        BY <1>1, <1>2 DEF CallStep, Goto, TypeOK, InCall
    <2>3. <<worker[d], sid[d]>> # <<worker[c], sid[c]>>
        BY <1>1, <2>2 DEF OneHandlerPerSession, CallStep
    <2>4. Session(d)' = Session(d)
        BY <1>1, <2>3 DEF CallStep, SetSession, Session, TypeOK
    <2> QED
        BY <2>1, <2>2, <2>4 DEF EveryJudged, Judged
<1>3. CASE GraphReturns(c)
    <2>1. PICK query \in Query : \E result \in TurnResults(query, Session(c).strikes) :
              /\ turn' = [turn EXCEPT ![c] = [query |-> query, result |-> result]]
              /\ SetSession(c, [Session(c) EXCEPT !.strikes = result.strikes])
        BY <1>3 DEF GraphReturns
    <2>2. PICK result \in TurnResults(query, Session(c).strikes) :
              /\ turn' = [turn EXCEPT ![c] = [query |-> query, result |-> result]]
              /\ SetSession(c, [Session(c) EXCEPT !.strikes = result.strikes])
        BY <2>1
    <2>3. Session(c) \in SessionRecords
        BY SessionType
    <2>4. Session(c)' = [Session(c) EXCEPT !.strikes = result.strikes]
        BY <1>1, <2>2, SetSessionRead
    <2>5. Session(c)'.strikes = result.strikes /\ turn'[c].result = result
        BY <2>2, <2>3, <2>4 DEF SessionRecords, TypeOK
    <2>6. result.endSession => result.strikes >= StrikeLimit
        BY <2>3, PipelineAddsOne DEF SessionRecords
    <2> QED
        BY <1>2, <2>5, <2>6 DEF EveryJudged, Judged
<1>4. CASE ClientCloses(c)
    <2>1. UNCHANGED <<pc, sid, worker, turn, sessions>>
        BY <1>4 DEF ClientCloses, processVars
    <2>2. Session(c)' = Session(c)
        BY <2>1 DEF Session
    <2> QED
        BY <1>2, <2>1, <2>2 DEF EveryJudged, Judged
<1>5. CASE ~(GraphReturns(c) \/ ClientCloses(c))
    <2>1. pc'[c] # "saving"
        BY <1>5
        DEF InCallAction, TurnStep, EndOfTurn, ReceiveAudio, ReceiveUtterance, ReceiveEnd,
            LeaveLoop, SttLowConfidence, SttNothing, SttTranscript, LoadTurnStrikes,
            SyncTurnStrikes, GraphRaises, SaveStrikes, NextSpeech, BeginSpeaking,
            FinishApology, FinishWarning, FinishAnswer, FinishFallback, FinishEscalation,
            FinishTermination, SpeechBroken, BackToListening, FinishEnd, Cleanup,
            FinishCleanupDelete, Goto, connVars, TypeOK
    <2> QED
        BY <1>2, <2>1 DEF EveryJudged, Judged
<1> QED
    BY <1>3, <1>4, <1>5

\* A step after which whoever saves was saving, with the same session.
LEMMA CalmStepJudged ==
    ASSUME EveryJudged,
           \A c \in Conns : pc'[c] = "saving" =>
               pc[c] = "saving" /\ turn'[c] = turn[c] /\ Session(c)' = Session(c)
    PROVE  EveryJudged'
BY DEF EveryJudged, Judged

LEMMA NextJudged ==
    ASSUME IInv, EveryJudged, [Next]_vars
    PROVE  EveryJudged'
<1> USE DEF IInv
<1>1. ASSUME NEW c \in Conns, RegisterSession(c)
      PROVE  EveryJudged'
    <2>1. PICK session : SetSession(c, session)
        BY <1>1 DEF RegisterSession
    <2>2. /\ pc[c] = "registering" /\ pc'[c] = "receive"
          /\ \A d \in Conns \ {c} : pc'[d] = pc[d]
          /\ UNCHANGED <<sid, worker, turn>>
        BY <1>1 DEF RegisterSession, Goto, TypeOK
    <2>3. ASSUME NEW d \in Conns, pc'[d] = "saving"
          PROVE  pc[d] = "saving" /\ Session(d)' = Session(d)
        <3>1. d # c /\ pc[d] = "saving" /\ pc[d] \in InCall
            BY <2>2, <2>3 DEF InCall
        <3>2. <<worker[d], sid[d]>> # <<worker[c], sid[c]>>
            BY <2>2, <3>1 DEF Reserved, OneHandlerPerSession, Session
        <3> QED
            BY <2>1, <2>2, <3>1, <3>2 DEF SetSession, Session, TypeOK
    <2> QED
        BY <2>2, <2>3, CalmStepJudged
<1>2. ASSUME NEW c \in Conns,
             RejectSession(c) \/ AdmitSession(c) \/ HydrateSession(c) \/ ReportCall(c)
      PROVE  EveryJudged'
    <2>1. UNCHANGED <<sid, worker, turn, sessions>>
        BY <1>2 DEF RejectSession, AdmitSession, HydrateSession, ReportCall, processVars
    <2>2. \A d \in Conns : pc'[d] = "saving" => pc[d] = "saving"
        BY <1>2 DEF RejectSession, AdmitSession, HydrateSession, ReportCall, Goto, TypeOK
    <2>3. \A d \in Conns : Session(d)' = Session(d)
        BY <2>1 DEF Session
    <2> QED
        BY <2>1, <2>2, <2>3, CalmStepJudged
<1>3. ASSUME NEW w \in Workers, Crash(w)
      PROVE  EveryJudged'
    <2>1. \A d \in Conns : pc'[d] = "saving" => pc[d] = "saving" /\ worker[d] # w
        BY <1>3 DEF Crash, TypeOK, Finished
    <2>2. \A d \in Conns : worker[d] # w => Session(d)' = Session(d) /\ turn'[d] = turn[d]
        BY <1>3 DEF Crash, Session, TypeOK
    <2> QED
        BY <2>1, <2>2, CalmStepJudged
<1>4. CASE UNCHANGED <<pc, sid, worker, turn, sessions>>
    <2>1. \A d \in Conns : Session(d)' = Session(d)
        BY <1>4 DEF Session
    <2> QED
        BY <1>4, <2>1, CalmStepJudged
<1>5. ASSUME NEW c \in Conns, ClientStep(c) \/ HandlerStep(c) \/ LeaveLoop(c)
      PROVE  EveryJudged'
    BY <1>1, <1>2, <1>5, InCallActionJudged
    DEF ClientStep, HandlerStep, Admission, Closing, InCallAction
<1> QED
    BY <1>3, <1>4, <1>5 DEF Next, ExpireKey, vars, connVars, processVars

LEMMA TerminatedOnTheLimit ==
    ASSUME IInv, EveryJudged, [Next]_vars, NEW c \in Conns,
           pc[c] = "saving", pc'[c] = "terminating"
    PROVE  \E n \in Counts(sid[c]) : n >= StrikeLimit
<1>1. SaveStrikes(c)
    BY OnlySavingLeavesSaving
<1>2. turn[c].result.endSession
    BY <1>1 DEF SaveStrikes, NextSpeech, Goto, IInv, TypeOK
<1>3. Session(c).strikes \in Counts(sid[c])
    BY DEF Counts, InCall
<1> QED
    BY <1>2, <1>3 DEF EveryJudged, Judged

-----------------------------------------------------------------------------
(* The theorems *)

LEMMA NextIInv ==
    ASSUME IInv, [Next]_vars
    PROVE  IInv'
<1>1. ASSUME NEW c \in Conns, InCallAction(c)
      PROVE  IInv'
    <2>1. CallStep(c)
        BY <1>1, InCallActionIsCallStep DEF IInv
    <2> QED
        BY <1>1, <2>1, InCallActionType, InCallActionFollows, CallStepKeepsInvariants DEF IInv
<1>2. ASSUME NEW c \in Conns, Admission(c)
      PROVE  IInv'
    BY <1>2, RejectSessionIInv, AdmitSessionIInv, HydrateSessionIInv, RegisterSessionIInv
    DEF Admission
<1>3. ASSUME NEW c \in Conns, ClientStep(c) \/ HandlerStep(c) \/ LeaveLoop(c)
      PROVE  IInv'
    BY <1>1, <1>2, <1>3, ReportCallIInv DEF ClientStep, HandlerStep, Closing, InCallAction
<1> QED
    BY <1>3, CrashIInv, ExpireKeyIInv, StutterIInv DEF Next

\* The inductive invariant holds in every reachable state.
THEOREM InductiveInvariant == Safety => []IInv
<1>1. Init => IInv
    BY InitIInv
<1>2. IInv /\ [Next]_vars => IInv'
    BY NextIInv
<1> QED
    BY <1>1, <1>2, PTL DEF Safety

\* Every variable keeps its type.
THEOREM TypeCorrectness == Safety => []TypeOK
BY InductiveInvariant, PTL DEF IInv

\* A worker never runs two handlers for one session, and a handler in a call
\* never finds its session gone.
THEOREM SessionExclusion == Safety => []OneHandlerPerSession
BY InductiveInvariant, PTL DEF IInv

\* MAX_CONCURRENT_SESSIONS is never exceeded, although create_session awaits
\* Redis between counting the sessions and adding its own.
THEOREM Capacity == Safety => []CapacityRespected
BY InductiveInvariant, PTL DEF IInv

\* The active_calls gauge never drifts from the calls in progress.
THEOREM GaugeExact == Safety => []GaugeBalanced
BY InductiveInvariant, PTL DEF IInv

\* Whatever ends a call, what is reported is what the session says.
THEOREM ReportAgreesWithSession == Safety => []ReportedAsEnded
<1>1. IInv => ReportedAsEnded
    BY DEF IInv, SessionFollowsHandler, FollowsHandler, ReportedAsEnded
<1> QED
    BY <1>1, InductiveInvariant, PTL

\* Short of a crash no session comes back to life and no outcome is rewritten:
\* a caller who hangs up during an escalation does not turn it into a
\* completed call.
THEOREM FinalOutcomes == Safety => OutcomeIsFinal
<1>1. IInv /\ [Next]_vars =>
          [restarts' = restarts =>
              \A w \in Workers, s \in Sids :
                  LET old == sessions[w][s]
                      new == sessions'[w][s]
                  IN  /\ old.state = "ended" => new.state = "ended"
                      /\ old.outcome # "none" => new.outcome = old.outcome]_vars
    BY NextKeeps DEF Keeps
<1> QED
    BY <1>1, InductiveInvariant, PTL DEF Safety, OutcomeIsFinal

\* The strike invariant holds in every reachable state.
THEOREM StrikeInvariant == Safety => []StrikeInv
<1>1. Init => StrikeInv
    BY InitStrikes
<1>2. IInv /\ StrikeInv /\ [Next]_vars => StrikeInv'
    BY NextKeepsStrikes
<1> QED
    BY <1>1, <1>2, InductiveInvariant, PTL DEF Safety

\* As long as Redis answers for an id and its key does not expire, the key
\* holds exactly the consecutive harmful turns, over any number of calls,
\* workers and restarts: no turn is lost between a GET and the SET after it.
THEOREM StrikesAreExact == Safety => []StrikesMatchHarm
BY StrikeInvariant, PTL DEF StrikeInv

\* Then the call ends at the third consecutive harmful turn and at no other,
\* whichever call or worker saw the first two.  A turn whose pipeline failed, be it
\* in language_detect before the input rail, is judged neither way.
THEOREM ThirdStrike == Safety => ThirdStrikeEndsCall
<1>1. IInv /\ StrikeInv /\ [Next]_vars =>
          [\A c \in Conns :
              /\ pc[c] = "saving" /\ pc'[c] \notin {"saving", "dead"}
              /\ ~turn[c].result.error /\ ~tainted'[sid[c]]
              => (pc'[c] = "terminating" <=> harm'[sid[c]] >= StrikeLimit)]_vars
    <2> SUFFICES ASSUME IInv, StrikeInv, [Next]_vars, NEW c \in Conns, pc[c] = "saving",
                        pc'[c] \notin {"saving", "dead"}, ~turn[c].result.error,
                        ~tainted'[sid[c]]
                 PROVE  pc'[c] = "terminating" <=> harm'[sid[c]] >= StrikeLimit
        BY Zenon
    <2> QED
        BY SavingEndsTheCall
<1> QED
    BY <1>1, InductiveInvariant, StrikeInvariant, PTL DEF Safety, ThirdStrikeEndsCall

\* A call is reported with an outcome, an active one has at most escalated, and
\* an id that was never used has no trace of one.
THEOREM VerdictInvariant == Safety => []EndsWithVerdict
<1>1. Init => EndsWithVerdict
    BY DEF Init, EndsWithVerdict
<1>2. IInv /\ EndsWithVerdict /\ [Next]_vars => EndsWithVerdict'
    BY NextKeepsVerdict
<1> QED
    BY <1>1, <1>2, InductiveInvariant, PTL DEF Safety

\* Seen from outside, admission is one step although it awaits Redis, and a
\* call that was admitted is counted, ends once, and is reported once with the
\* outcome it ended with, whoever of the turn, the client, the disconnect and
\* the clean-up ended it.
THEOREM ImplementsLedger == Safety => LedgerIsKept
<1>1. IInv /\ IInv' /\ EndsWithVerdict /\ EndsWithVerdict' /\ [Next]_vars =>
          [Ledger!LedgerNext]_(Ledger!ledgerVars)
    BY NextKeepsLedger
<1> QED
    BY <1>1, InitLedger, InductiveInvariant, VerdictInvariant, PTL
    DEF Safety, LedgerIsKept, Ledger!LedgerSpec

\* What a handler is about to save is the count of its session, and it is
\* about to end the call only on a count that has reached the limit.
THEOREM JudgedInvariant == Safety => []EveryJudged
<1>1. Init => EveryJudged
    BY DEF Init, EveryJudged, Judged
<1>2. IInv /\ EveryJudged /\ [Next]_vars => EveryJudged'
    BY NextJudged
<1> QED
    BY <1>1, <1>2, InductiveInvariant, PTL DEF Safety

\* Whatever Redis, the TTL, the crashes and the races do to the counts, none is
\* made up.  A count may be lost, and one that a GET has read may come back after
\* another worker has cleared the key (load_session_strikes and create_session
\* assign it after the await), but with those in flight counted in, a step adds at
\* most one to the counts of an id, for a turn of it that was refused, and no call
\* is terminated on fewer than the limit.
THEOREM EarnedStrikes == Safety => StrikesAreEarned
<1>1. IInv /\ EveryJudged /\ [Next]_vars =>
          [/\ \A s \in Sids : \A n \in Counts(s)' : n > 0 =>
                 \E m \in Counts(s) : n <= m \/ (IsRefused(s) /\ n = m + 1)
           /\ \A c \in Conns : pc[c] = "saving" /\ pc'[c] = "terminating" =>
                 \E n \in Counts(sid[c]) : n >= StrikeLimit]_vars
    BY NextCounts, TerminatedOnTheLimit
<1> QED
    BY <1>1, InductiveInvariant, JudgedInvariant, PTL DEF Safety, StrikesAreEarned

-----------------------------------------------------------------------------
(* How far a call may still go before it receives again *)

\* The places a handler may still come to without a frame of its client.
StepsOwed ==
    [connecting |-> 16, hydrating |-> 15, registering |-> 14, stt |-> 13,
     loading |-> 12, syncing |-> 11, graph |-> 10, saving |-> 9,
     responding |-> 8, fallback |-> 7, apology |-> 7, warning |-> 7, terminating |-> 7,
     speaking |-> 7, receive |-> 6, endDelete |-> 5, cleanup |-> 4, cleanupDelete |-> 3,
     closing |-> 2, rejected |-> 1, done |-> 1, dead |-> 0]

\* Between two frames a handler only ever moves on: it tries nothing twice, and no
\* other handler, no client and no crash sets it back.  A finished one stays where
\* it is.
CallMovesOn ==
    [][\A c \in Conns : pc'[c] # pc[c] =>
          pc[c] = "receive" \/ StepsOwed[pc'[c]] < StepsOwed[pc[c]]]_vars

\* A session lock that is held is held by a handler of the worker that waits for
\* nothing but Redis, or has its answer: whoever waits for the lock waits for one GET.
LockIsBrief ==
    \A w \in Workers : lock[w] # NoConn =>
        lock[w] \in Conns /\ worker[lock[w]] = w /\ pc[lock[w]] \in {"hydrating", "registering"}

LEMMA GotoMovesOn ==
    ASSUME TypeOK, NEW c \in Conns, NEW label \in PCs, Goto(c, label),
           pc[c] = "receive" \/ StepsOwed[label] < StepsOwed[pc[c]]
    PROVE  \A d \in Conns : pc'[d] # pc[d] =>
               pc[d] = "receive" \/ StepsOwed[pc'[d]] < StepsOwed[pc[d]]
BY DEF TypeOK, Goto

LEMMA TurnMovesOn ==
    ASSUME TypeOK, NEW c \in Conns, TurnStep(c) \/ EndOfTurn(c)
    PROVE  \E label \in PCs : Goto(c, label) /\ StepsOwed[label] < StepsOwed[pc[c]]
<1> USE DEF StepsOwed, PCs, InCall, Speaking
<1>1. CASE SttLowConfidence(c) \/ SttNothing(c) \/ SttTranscript(c)
    BY <1>1 DEF SttLowConfidence, SttNothing, SttTranscript
<1>2. CASE \/ LoadTurnStrikes(c) \/ SyncTurnStrikes(c) \/ GraphReturns(c)
           \/ GraphRaises(c) \/ BeginSpeaking(c)
    BY <1>2 DEF LoadTurnStrikes, SyncTurnStrikes, GraphReturns, GraphRaises, BeginSpeaking
<1>3. CASE SaveStrikes(c)
    BY <1>3 DEF SaveStrikes, NextSpeech
<1>4. CASE FinishApology(c) \/ FinishWarning(c) \/ FinishAnswer(c) \/ FinishFallback(c)
    BY <1>4 DEF FinishApology, FinishWarning, FinishAnswer, FinishFallback, BackToListening
<1>5. CASE FinishEscalation(c) \/ FinishTermination(c) \/ SpeechBroken(c)
    BY <1>5 DEF FinishEscalation, FinishTermination, SpeechBroken
<1> QED
    BY <1>1, <1>2, <1>3, <1>4, <1>5 DEF TurnStep, EndOfTurn

LEMMA OutsideTurnMovesOn ==
    ASSUME TypeOK, NEW c \in Conns, Admission(c) \/ Closing(c)
    PROVE  \E label \in PCs : Goto(c, label) /\ StepsOwed[label] < StepsOwed[pc[c]]
<1> USE DEF StepsOwed, PCs, InCall, Finished
<1>1. CASE RejectSession(c) \/ AdmitSession(c) \/ HydrateSession(c) \/ RegisterSession(c)
    BY <1>1 DEF RejectSession, AdmitSession, HydrateSession, RegisterSession
<1>2. CASE FinishEnd(c) \/ FinishCleanupDelete(c) \/ ReportCall(c)
    BY <1>2 DEF FinishEnd, FinishCleanupDelete, ReportCall
<1>3. CASE Cleanup(c)
    BY <1>3 DEF Cleanup
<1> QED
    BY <1>1, <1>2, <1>3 DEF Admission, Closing

LEMMA NextMovesOn ==
    ASSUME IInv, Next
    PROVE  \A c \in Conns : pc'[c] # pc[c] =>
               pc[c] = "receive" \/ StepsOwed[pc'[c]] < StepsOwed[pc[c]]
<1> DEFINE Goal == \A c \in Conns : pc'[c] # pc[c] =>
                       pc[c] = "receive" \/ StepsOwed[pc'[c]] < StepsOwed[pc[c]]
<1>0. TypeOK
    BY DEF IInv
<1>1. ASSUME NEW c \in Conns, HandlerStep(c) PROVE Goal
    <2>1. PICK label \in PCs : Goto(c, label) /\ StepsOwed[label] < StepsOwed[pc[c]]
        BY <1>0, <1>1, TurnMovesOn, OutsideTurnMovesOn DEF HandlerStep
    <2> QED
        BY <1>0, <2>1, GotoMovesOn
<1>2. ASSUME NEW c \in Conns, ClientStep(c) \/ LeaveLoop(c) PROVE Goal
    <2>1. \/ pc' = pc
          \/ pc[c] = "receive" /\ \E label \in PCs : Goto(c, label)
        BY <1>2
        DEF ClientStep, ClientCloses, ReceiveAudio, ReceiveUtterance, ReceiveEnd, LeaveLoop,
            connVars, PCs, InCall
    <2> QED
        BY <1>0, <2>1, GotoMovesOn
<1>3. ASSUME NEW w \in Workers, Crash(w) PROVE Goal
    <2> SUFFICES ASSUME NEW c \in Conns, pc'[c] # pc[c]
                 PROVE  StepsOwed[pc'[c]] < StepsOwed[pc[c]]
        OBVIOUS
    <2>1. pc'[c] = "dead" /\ pc[c] \in PCs \ (Finished \cup {"connecting"})
        BY <1>0, <1>3 DEF Crash, TypeOK
    <2> QED
        BY <2>1 DEF StepsOwed, PCs, Finished, InCall, Speaking
<1>4. CASE \E s \in Sids : ExpireKey(s)
    BY <1>4 DEF ExpireKey, connVars
<1> QED
    BY <1>1, <1>2, <1>3, <1>4 DEF Next

\* Whatever fails in a turn, in admission or in the clean-up, the handler is back
\* at its receive loop or out of the call within a bounded number of its steps
\* (run, _process_speech_turn, _cleanup).
THEOREM CallIsBounded == Safety => CallMovesOn
<1>1. IInv /\ [Next]_vars =>
          [\A c \in Conns : pc'[c] # pc[c] =>
              pc[c] = "receive" \/ StepsOwed[pc'[c]] < StepsOwed[pc[c]]]_vars
    BY NextMovesOn
<1> QED
    BY <1>1, InductiveInvariant, PTL DEF Safety, CallMovesOn

\* Handlers wait for each other only while one of them awaits the GET of
\* create_session (SessionManager._lock).
THEOREM LockIsNeverKept == Safety => []LockIsBrief
<1>1. IInv => LockIsBrief
    BY DEF IInv, TypeOK, LockHeld, LockIsBrief
<1> QED
    BY <1>1, InductiveInvariant, PTL
=============================================================================

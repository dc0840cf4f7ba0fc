------------------------- MODULE AgentPipelineProofs -------------------------
(***************************************************************************)
(* AgentPipeline for any chunks, strikes, numbers of retries and answers   *)
(* of the moderator, with and without guardrails.  The argument: the       *)
(* fields a caller reads are, at every node, those AgentGraph computes for *)
(* some answers of moderator and detector (RailSoFar); a query that passed *)
(* the input rail went through mask_pii, and so did every chunk (Masked);  *)
(* and the text of a turn that is still going on is none of the templates  *)
(* that tell how it ended (TextSoFar).                                     *)
(***************************************************************************)
EXTENDS AgentPipeline, Integers, TLAPS

Before == {"language_detect", "input_guardrails"}
Answering == {"language_bridge", "retrieval", "response", "verification",
              "translate_response", "output_guardrails"}

Railed(m) == InputGuardrails(Asked, m, given)

\* rail is what AgentGraph has computed by the node that runs next.
RailSoFar ==
    /\ pc \in Before => rail = InitialState(given)
    /\ pc = "safety_gate" =>
          \E m \in ModeratorAnswers : ~RoutesToEnd(Railed(m)) /\ rail = Railed(m)
    /\ pc \in Answering \cup {"escalation"} =>
          \E m \in ModeratorAnswers, d \in BOOLEAN :
              /\ ~RoutesToEnd(Railed(m))
              /\ rail = SafetyGate(Railed(m), Asked, d)
              /\ rail.escalate <=> pc = "escalation"
    /\ pc = "done" => rail \in TurnResults(Asked, given)

\* The rails run where they are switched on, and nowhere else.
RailsRun == pc \in {"input_guardrails", "output_guardrails"} => GuardrailsEnabled

\* With guardrails, what is kept after the input rail has gone through mask_pii.
Masked ==
    GuardrailsEnabled =>
        /\ pc \notin Before \cup {"done"} => (queryPii = "plain" => AsksTranslator)
        /\ \A c \in context : c.pii # "plain" /\ c.tenant \in {Tenant, NoTenant}

\* Nothing is sent to the model before the response node.
Unasked ==
    pc \in Before \cup {"safety_gate", "escalation", "language_bridge", "retrieval"} =>
        prompts = {}

Open == {"none", "silence", "apology", "answer"}

\* The texts of a turn that is going on.
TextSoFar ==
    /\ raw.kind \in Open
    /\ raw.kind = "silence" => ~raw.pii
    /\ pc # "done" =>
          /\ final.kind \in Open
          /\ final.kind = "silence" => raw.kind = "silence" /\ ~final.pii
          /\ pc # "output_guardrails" => final.kind = "none"

IInv ==
    /\ TypeOK
    /\ RailSoFar
    /\ RailsRun
    /\ Masked
    /\ Unasked
    /\ TextSoFar
    /\ NoPiiSpoken
    /\ PromptsPassRails
    /\ EmergencyReachesHuman

-----------------------------------------------------------------------------
(* What the rails compute *)

\* The input rail returns a record the caller can read, and never escalates.
LEMMA RailedType ==
    ASSUME NEW q \in Query, NEW m \in BOOLEAN, NEW n \in Nat
    PROVE  /\ InitialState(n) \in Result
           /\ ProcessInput(q, m, n) \in Result
           /\ ~ProcessInput(q, m, n).escalate
           /\ InputGuardrails(q, m, n) \in Result
           /\ ~InputGuardrails(q, m, n).escalate
<1>1. \A k \in Nat : InitialState(k) \in Result /\ ~InitialState(k).escalate
    BY DEF InitialState, Result
<1>2. n + 1 \in Nat /\ 0 \in Nat
    OBVIOUS
<1> DEFINE ends == n + 1 >= StrikeLimit
           waits == n + 1 < StrikeLimit
<1>3. ApplyStrikePolicy(n) \in Result /\ ~ApplyStrikePolicy(n).escalate
    <2>1. ends \in BOOLEAN /\ waits \in BOOLEAN
        OBVIOUS
    <2>2. ApplyStrikePolicy(n) =
              [InitialState(n + 1) EXCEPT !.blocked = TRUE, !.endSession = ends, !.wait = waits]
        BY DEF ApplyStrikePolicy
    <2>3. ASSUME NEW a \in BOOLEAN, NEW b \in BOOLEAN
          PROVE  LET policy == [InitialState(n + 1) EXCEPT
                                    !.blocked = TRUE, !.endSession = a, !.wait = b]
                 IN  policy \in Result /\ ~policy.escalate
        BY <1>2 DEF InitialState, Result
    <2> HIDE DEF ends, waits
    <2> QED
        BY <2>1, <2>2, <2>3
<1>4. ProcessInput(q, m, n) \in Result /\ ~ProcessInput(q, m, n).escalate
    BY <1>1, <1>2, <1>3 DEF ProcessInput, InitialState, Result
<1> QED
    BY <1>1, <1>4 DEF InputGuardrails

LEMMA AskedType == TypeOK => Asked \in Query
BY DEF TypeOK, Asked, Utterances, Query

\* The moderator answers yes or no.
LEMMA Moderated == ModeratorAnswers \subseteq BOOLEAN /\ FALSE \in ModeratorAnswers
BY GuardrailsAssumption

\* The rail of a state in its type is a Result.
LEMMA GivenIsNat == TypeOK => given \in Nat
BY PipelineAssumption DEF TypeOK

\* What has gone through mask_pii does not hold PII as it came.
LEMMA MaskPiiLemma ==
    ASSUME NEW p, NEW misses \in BOOLEAN
    PROVE  MaskPii(p, misses) \in Pii /\ MaskPii(p, misses) # "plain"
BY DEF MaskPii, Pii

\* A masked chunk is known by its tenant, and its text has gone through mask_pii.
LEMMA RedactedLemma ==
    ASSUME NEW c \in Chunks, NEW misses \in BOOLEAN
    PROVE  /\ Redacted(c, misses) \in Retrieved
           /\ Redacted(c, misses).pii # "plain"
           /\ Redacted(c, misses).tenant = c.tenant
BY MaskPiiLemma DEF Redacted, Retrieved

LEMMA TextLemma ==
    ASSUME NEW k \in Kinds, NEW p \in BOOLEAN
    PROVE  Text(k, p) \in Texts /\ Text(k, p).pii = p /\ Text(k, p).kind = k
BY DEF Text, Texts

LEMMA TemplateLemma ==
    ASSUME NEW k \in Kinds
    PROVE  Template(k) \in Texts /\ ~Template(k).pii /\ Template(k).kind = k
BY DEF Template, Text, Texts

-----------------------------------------------------------------------------
(* The inductive invariant *)

LEMMA InitIInv == Init => IInv
<1> SUFFICES ASSUME Init PROVE IInv
    OBVIOUS
<1>1. given \in Nat /\ 0 \in 0..(MaxRetries - 1)
    BY PipelineAssumption DEF Init
<1>2. InitialState(given) \in Result
    BY <1>1 DEF InitialState, Result
<1>3. TypeOK
    BY <1>1, <1>2 DEF Init, TypeOK, Nodes, Languages, Utterances, Texts, Kinds, Template, Text,
           Pii
<1>4. RailSoFar /\ RailsRun /\ Unasked /\ TextSoFar
    BY DEF Init, RailSoFar, RailsRun, Unasked, TextSoFar, Before, Answering, Open, Template, Text
<1>5. Masked
    BY DEF Init, Masked, Before
<1>6. NoPiiSpoken /\ PromptsPassRails /\ EmergencyReachesHuman
    BY DEF Init, NoPiiSpoken, PromptsPassRails, EmergencyReachesHuman
<1> QED
    BY <1>3, <1>4, <1>5, <1>6 DEF IInv

\* A service is asked again: only the number of attempts changes.
LEMMA TryAgainLemma ==
    ASSUME IInv, TryAgain, UNCHANGED <<utterance, given>>
    PROVE  IInv'
<1>1. attempt' \in 0..(MaxRetries - 1)
    BY PipelineAssumption DEF IInv, TypeOK, TryAgain
<1>2. UNCHANGED <<pc, lang, queryPii, rail, context, prompts, raw, final, utterance, given>>
    BY DEF TryAgain
<1>3. TypeOK'
    BY <1>1, <1>2 DEF IInv, TypeOK
<1>4. Asked' = Asked /\ AsksTranslator' = AsksTranslator
    BY <1>2 DEF Asked, AsksTranslator
<1>5. RailSoFar'
    BY <1>2, <1>4 DEF IInv, RailSoFar, Railed
<1>6. RailsRun' /\ Unasked' /\ TextSoFar' /\ NoPiiSpoken' /\ EmergencyReachesHuman'
    BY <1>2
    DEF IInv, RailsRun, Unasked, TextSoFar, NoPiiSpoken, EmergencyReachesHuman, AsksSarvam
<1>7. Masked' /\ PromptsPassRails'
    BY <1>2, <1>4 DEF IInv, Masked, PromptsPassRails
<1> QED
    BY <1>3, <1>5, <1>6, <1>7 DEF IInv

\* Whatever moderator, detector and services answer is listed, and so is a turn
\* that fails.
LEMMA InvokeListed ==
    /\ \A m \in ModeratorAnswers : \A l, d, r \in BOOLEAN :
          Invoke(Asked, given, l, m, d, r) \in TurnResults(Asked, given)
    /\ Failed(given) \in TurnResults(Asked, given)
<1>1. \A m \in ModeratorAnswers : \A l, d, r \in BOOLEAN :
          Invoke(Asked, given, l, m, d, r) \in TurnResults(Asked, given)
    BY DEF TurnResults
<1>2. Invoke(Asked, given, TRUE, FALSE, FALSE, FALSE) = Failed(given)
    BY DEF Invoke
<1>3. Invoke(Asked, given, TRUE, FALSE, FALSE, FALSE) \in TurnResults(Asked, given)
    BY <1>1, Moderated, Zenon
<1> QED
    BY <1>1, <1>2, <1>3

\* What is known of rail at a node that answers: no end was decided, and its value
\* is a result AgentGraph lists.
LEMMA AnsweringFacts ==
    ASSUME IInv, pc \in Answering
    PROVE  /\ ~rail.escalate /\ ~rail.blocked /\ ~utterance.emergency
           /\ rail \in TurnResults(Asked, given)
<1>1. PICK m \in ModeratorAnswers, d \in BOOLEAN :
          /\ ~RoutesToEnd(Railed(m))
          /\ rail = SafetyGate(Railed(m), Asked, d)
          /\ rail.escalate <=> pc = "escalation"
    BY DEF IInv, RailSoFar
<1>2. ~rail.escalate
    BY <1>1 DEF Answering
<1>3. Railed(m) \in Result
    BY RailedType, AskedType, GivenIsNat, Moderated DEF IInv, Railed
<1>4. rail = [Railed(m) EXCEPT !.escalate = Asked.emergency \/ d]
    BY <1>1 DEF SafetyGate
<1>5. ~rail.blocked /\ ~Asked.emergency
    BY <1>1, <1>2, <1>3, <1>4 DEF RoutesToEnd, Result
<1>6. Invoke(Asked, given, FALSE, m, d, FALSE) = rail
    BY <1>1, <1>2 DEF Invoke, Railed, Continue
<1>7. Invoke(Asked, given, FALSE, m, d, FALSE) \in TurnResults(Asked, given)
    BY InvokeListed, Zenon
<1> QED
    BY <1>2, <1>5, <1>6, <1>7 DEF Asked

\* A node that answers and leaves rail alone, on the way or at the end.
LEMMA AnsweringStep ==
    ASSUME IInv, pc \in Answering, pc' \in Answering \cup {"done"},
           UNCHANGED <<utterance, given, rail>>
    PROVE  RailSoFar'
<1>1. Asked' = Asked
    BY DEF Asked
<1>2. pc' # "escalation" /\ pc # "escalation" /\ pc' \notin Before /\ pc' # "safety_gate"
    BY DEF Answering, Before
<1>3. rail' \in TurnResults(Asked, given)'
    BY <1>1, AnsweringFacts
<1>4. \A m : Railed(m)' = Railed(m)
    BY <1>1 DEF Railed
<1>5. \E m \in ModeratorAnswers, d \in BOOLEAN :
          /\ ~RoutesToEnd(Railed(m))
          /\ rail = SafetyGate(Railed(m), Asked, d)
          /\ ~rail.escalate
    BY <1>2 DEF IInv, RailSoFar
<1>6. \E m \in ModeratorAnswers, d \in BOOLEAN :
          /\ ~RoutesToEnd(Railed(m)')
          /\ rail' = SafetyGate(Railed(m)', Asked', d)
          /\ rail'.escalate <=> pc' = "escalation"
    BY <1>1, <1>2, <1>4, <1>5
<1> QED
    BY <1>1, <1>2, <1>3, <1>6 DEF RailSoFar

\* A node that raises, after which the caller is given the initial state: one that
\* answers, or language detection where Sarvam is asked.
LEMMA RaiseLemma ==
    ASSUME IInv, Raise, UNCHANGED <<utterance, given>>,
           pc \in Answering \/ (pc = "language_detect" /\ AsksSarvam)
    PROVE  IInv'
<1>1. /\ pc' = "done" /\ attempt' = 0 /\ final' = Template("error")
      /\ rail' = Failed(given)
      /\ UNCHANGED <<lang, queryPii, context, prompts, raw>>
    BY DEF Raise, Goto
<1>2. Asked' = Asked /\ AsksTranslator' = AsksTranslator
    BY <1>1 DEF Asked, AsksTranslator
<1>3. final' \in Texts /\ ~final'.pii /\ final'.kind = "error"
    BY <1>1 DEF Template, Text, Texts, Kinds
<1>4. rail' \in Result /\ ~rail'.blocked /\ ~rail'.escalate /\ rail'.error
    BY <1>1, GivenIsNat DEF IInv, Failed, InitialState, Result
<1>5. attempt' \in 0..(MaxRetries - 1)
    BY <1>1, PipelineAssumption
<1>6. TypeOK'
    BY <1>1, <1>3, <1>4, <1>5 DEF IInv, TypeOK
<1>7. RailSoFar'
    BY <1>1, <1>2, InvokeListed DEF RailSoFar, Before, Answering
<1>8. RailsRun' /\ Unasked' /\ TextSoFar' /\ NoPiiSpoken'
    BY <1>1, <1>3 DEF IInv, RailsRun, Unasked, TextSoFar, NoPiiSpoken, Before
<1>9. Masked' /\ PromptsPassRails'
    BY <1>1, <1>2 DEF IInv, Masked, PromptsPassRails
<1>10. EmergencyReachesHuman'
    <2>1. CASE pc \in Answering
        BY <1>1, <1>3, <1>4, <2>1, AnsweringFacts DEF EmergencyReachesHuman
    <2>2. CASE pc = "language_detect" /\ AsksSarvam
        BY <1>1, <1>3, <1>4, <2>2 DEF EmergencyReachesHuman, IInv, Unasked, Before, AsksSarvam
    <2> QED
        BY <2>1, <2>2
<1> QED
    BY <1>6, <1>7, <1>8, <1>9, <1>10 DEF IInv

-----------------------------------------------------------------------------
(* One lemma per node *)

LEMMA LanguageDetectKeeps == IInv /\ LanguageDetect => IInv'
<1> SUFFICES ASSUME IInv, LanguageDetect PROVE IInv'
    OBVIOUS
<1>1. CASE TryAgain
    BY <1>1, TryAgainLemma DEF LanguageDetect
<1>2. CASE AsksSarvam /\ Raise
    BY <1>2, RaiseLemma DEF LanguageDetect
<1>3. ASSUME NEW l \in Languages, Detected(l) PROVE IInv'
    <2>1. /\ pc = "language_detect" /\ attempt' = 0 /\ lang' = l
          /\ pc' = IF GuardrailsEnabled THEN "input_guardrails" ELSE "safety_gate"
          /\ UNCHANGED <<utterance, given, queryPii, rail, context, prompts, raw, final>>
        BY <1>3 DEF LanguageDetect, Detected, Goto
    <2>2. attempt' \in 0..(MaxRetries - 1)
        BY <2>1, PipelineAssumption
    <2>3. TypeOK'
        BY <2>1, <2>2 DEF IInv, TypeOK, Nodes
    <2>4. Asked' = Asked /\ rail = InitialState(given) /\ prompts = {}
        BY <2>1 DEF IInv, RailSoFar, Unasked, Before, Asked
    <2>5. RailSoFar'
        <3>1. CASE GuardrailsEnabled
            BY <2>1, <2>4, <3>1 DEF RailSoFar, Before, Answering
        <3>2. CASE ~GuardrailsEnabled
            <4>1. Railed(FALSE)' = rail' /\ ~RoutesToEnd(Railed(FALSE)')
                BY <2>1, <2>4, <3>2 DEF Railed, InputGuardrails, RoutesToEnd, InitialState
            <4> QED
                BY <2>1, <3>2, <4>1, Moderated DEF RailSoFar, Before, Answering
        <3> QED
            BY <3>1, <3>2
    <2>6. RailsRun' /\ Unasked' /\ TextSoFar' /\ NoPiiSpoken' /\ EmergencyReachesHuman'
        BY <2>1, <2>4
        DEF IInv, RailsRun, Unasked, TextSoFar, NoPiiSpoken, EmergencyReachesHuman
    <2>7. Masked' /\ PromptsPassRails'
        BY <2>1, <2>4 DEF IInv, Masked, PromptsPassRails, Before
    <2> QED
        BY <2>3, <2>5, <2>6, <2>7 DEF IInv
<1>4. utterance.script \in Languages
    BY DEF IInv, TypeOK, Utterances
<1> QED
    BY <1>1, <1>3, <1>4, <1>2 DEF LanguageDetect

LEMMA InputRailKeeps == IInv /\ InputRail => IInv'
<1> SUFFICES ASSUME IInv, InputRail PROVE IInv'
    OBVIOUS
<1>1. PICK m \in ModeratorAnswers, misses \in BOOLEAN :
          /\ rail' = ProcessInput(Asked, m, given)
          /\ queryPii' = MaskedPii(misses)
          /\ IF RoutesToEnd(ProcessInput(Asked, m, given))
             THEN /\ final' = Template(IF ProcessInput(Asked, m, given).endSession
                                       THEN "termination" ELSE "warning")
                  /\ Goto("done")
             ELSE Goto("safety_gate") /\ UNCHANGED final
    BY DEF InputRail
<1>2. /\ pc = "input_guardrails" /\ GuardrailsEnabled /\ prompts = {} /\ attempt' = 0
      /\ UNCHANGED <<utterance, given, lang, context, prompts, raw>>
    BY <1>1 DEF InputRail, IInv, RailsRun, Unasked, Before, Goto
<1>3. /\ ProcessInput(Asked, m, given) \in Result
      /\ ~ProcessInput(Asked, m, given).escalate
    BY RailedType, AskedType, GivenIsNat, Moderated DEF IInv
<1>4. Railed(m) = rail' /\ Railed(m)' = rail' /\ Asked' = Asked
    BY <1>1, <1>2 DEF Railed, InputGuardrails, Asked
<1>5. queryPii' \in Pii /\ attempt' \in 0..(MaxRetries - 1)
    <2>1. queryPii \in Pii
        BY DEF IInv, TypeOK
    <2>2. MaskedPii(misses) \in Pii
        BY <2>1, MaskPiiLemma DEF MaskedPii
    <2>3. 0 \in 0..(MaxRetries - 1)
        BY PipelineAssumption
    <2> QED
        BY <1>1, <1>2, <2>2, <2>3
<1>6. CASE RoutesToEnd(rail')
    <2>1. pc' = "done" /\ final' \in {Template("termination"), Template("warning")}
        BY <1>1, <1>6 DEF Goto
    <2>2. final' \in Texts /\ ~final'.pii /\ final'.kind \in {"termination", "warning"}
        BY <2>1, TemplateLemma DEF Kinds
    <2>3. TypeOK'
        BY <1>1, <1>2, <1>3, <1>5, <2>1, <2>2 DEF IInv, TypeOK
    <2>4. Invoke(Asked, given, FALSE, m, FALSE, FALSE) = rail'
        BY <1>4, <1>6 DEF Invoke, Railed
    <2>5. rail' \in TurnResults(Asked', given')
        <3>1. Invoke(Asked, given, FALSE, m, FALSE, FALSE) \in TurnResults(Asked, given)
            BY InvokeListed, Zenon
        <3> QED
            BY <1>2, <1>4, <2>4, <3>1
    <2>6. RailSoFar'
        BY <2>1, <2>5 DEF RailSoFar, Before, Answering
    <2>7. rail'.blocked \/ rail'.endSession
        BY <1>6 DEF RoutesToEnd
    <2>8. rail'.blocked
        BY <1>1, <1>3, <2>7
        DEF ProcessInput, ApplyStrikePolicy, InitialState, Result
    <2>9. RailsRun' /\ Unasked' /\ TextSoFar' /\ NoPiiSpoken' /\ EmergencyReachesHuman'
        BY <1>1, <1>2, <1>3, <2>1, <2>2, <2>8
        DEF IInv, RailsRun, Unasked, TextSoFar, NoPiiSpoken, EmergencyReachesHuman
    <2>10. Masked' /\ PromptsPassRails'
        BY <1>2, <2>1 DEF IInv, Masked, PromptsPassRails
    <2> QED
        BY <2>3, <2>6, <2>9, <2>10 DEF IInv
<1>7. CASE ~RoutesToEnd(rail')
    <2>1. pc' = "safety_gate" /\ UNCHANGED final
        BY <1>1, <1>7 DEF Goto
    <2>2. TypeOK'
        BY <1>1, <1>2, <1>3, <1>5, <2>1 DEF IInv, TypeOK, Nodes
    <2>3. RailSoFar'
        BY <1>4, <1>7, <2>1 DEF RailSoFar, Before, Answering
    <2>4. given < StrikeLimit
        <3>1. CASE given >= StrikeLimit
            BY <1>1, <1>7, <3>1 DEF ProcessInput, RoutesToEnd, InitialState
        <3> QED
            BY <3>1, GivenIsNat DEF IInv, StrikeLimit
    <2>5. queryPii' # "plain"
        BY <1>1, <2>4, GivenIsNat, MaskPiiLemma DEF MaskedPii, IInv, StrikeLimit
    <2>6. RailsRun' /\ Unasked' /\ TextSoFar' /\ NoPiiSpoken' /\ EmergencyReachesHuman'
        BY <1>2, <2>1
        DEF IInv, RailsRun, Unasked, TextSoFar, NoPiiSpoken, EmergencyReachesHuman
    <2>7. Masked' /\ PromptsPassRails'
        BY <1>2, <2>1, <2>5 DEF IInv, Masked, PromptsPassRails
    <2> QED
        BY <2>2, <2>3, <2>6, <2>7 DEF IInv
<1> QED
    BY <1>6, <1>7

LEMMA SafetyGateKeeps == IInv /\ SafetyGateNode => IInv'
<1> SUFFICES ASSUME IInv, SafetyGateNode PROVE IInv'
    OBVIOUS
<1>1. PICK fails \in BOOLEAN :
          /\ rail' = [rail EXCEPT !.escalate = DetectedEmergency(fails)]
          /\ Goto(IF rail'.escalate THEN "escalation" ELSE "language_bridge")
    BY DEF SafetyGateNode
<1>2. /\ pc = "safety_gate" /\ attempt' = 0
      /\ pc' = IF rail'.escalate THEN "escalation" ELSE "language_bridge"
      /\ UNCHANGED <<utterance, given, lang, queryPii, context, prompts, raw, final>>
    BY <1>1 DEF SafetyGateNode, Goto
<1>3. PICK m \in ModeratorAnswers : ~RoutesToEnd(Railed(m)) /\ rail = Railed(m)
    BY <1>2 DEF IInv, RailSoFar
<1>4. rail' = SafetyGate(Railed(m), Asked, fails) /\ Asked' = Asked /\ Railed(m)' = Railed(m)
    BY <1>1, <1>2, <1>3 DEF SafetyGate, DetectedEmergency, Asked, Railed
<1>5. rail' \in Result /\ attempt' \in 0..(MaxRetries - 1)
    <2>1. DetectedEmergency(fails) \in BOOLEAN
        BY DEF DetectedEmergency
    <2>2. rail \in Result
        BY DEF IInv, TypeOK
    <2> QED
        BY <1>1, <1>2, <2>1, <2>2, PipelineAssumption DEF Result
<1>6. TypeOK'
    BY <1>2, <1>5 DEF IInv, TypeOK, Nodes
<1>7. RailSoFar'
    <2>1. rail'.escalate <=> pc' = "escalation"
        BY <1>2
    <2>2. \E n \in ModeratorAnswers, d \in BOOLEAN :
              /\ ~RoutesToEnd(Railed(n)')
              /\ rail' = SafetyGate(Railed(n)', Asked', d)
              /\ rail'.escalate <=> pc' = "escalation"
        BY <1>3, <1>4, <2>1
    <2> QED
        BY <1>2, <2>2 DEF RailSoFar, Before
<1>8. RailsRun' /\ Unasked' /\ TextSoFar' /\ NoPiiSpoken' /\ EmergencyReachesHuman'
    BY <1>2 DEF IInv, RailsRun, Unasked, TextSoFar, NoPiiSpoken, EmergencyReachesHuman
<1>9. Masked' /\ PromptsPassRails'
    BY <1>2 DEF IInv, Masked, PromptsPassRails, AsksTranslator, Before
<1> QED
    BY <1>6, <1>7, <1>8, <1>9 DEF IInv

LEMMA EscalationKeeps == IInv /\ EscalationNode => IInv'
<1> SUFFICES ASSUME IInv, EscalationNode PROVE IInv'
    OBVIOUS
<1>1. /\ pc = "escalation" /\ pc' = "done" /\ attempt' = 0
      /\ rail' = [rail EXCEPT !.escalate = TRUE]
      /\ final' = Template("escalation")
      /\ UNCHANGED <<utterance, given, lang, queryPii, context, prompts, raw>>
    BY DEF EscalationNode, Goto
<1>2. PICK m \in ModeratorAnswers, d \in BOOLEAN :
          /\ ~RoutesToEnd(Railed(m))
          /\ rail = SafetyGate(Railed(m), Asked, d)
          /\ rail.escalate <=> pc = "escalation"
    BY <1>1 DEF IInv, RailSoFar
<1>3. rail \in Result /\ rail.escalate
    BY <1>1, <1>2 DEF IInv, TypeOK
<1>4. rail' = rail
    BY <1>1, <1>3 DEF Result
<1>5. final' \in Texts /\ ~final'.pii /\ final'.kind = "escalation"
    BY <1>1, TemplateLemma DEF Kinds
<1>6. attempt' \in 0..(MaxRetries - 1)
    BY <1>1, PipelineAssumption
<1>7. TypeOK'
    BY <1>1, <1>3, <1>4, <1>5, <1>6 DEF IInv, TypeOK
<1>8. RailSoFar'
    <2>1. Invoke(Asked, given, FALSE, m, d, FALSE) = rail
        BY <1>2, <1>3 DEF Invoke, Railed
    <2>2. Invoke(Asked, given, FALSE, m, d, FALSE) \in TurnResults(Asked, given)
        BY InvokeListed, Zenon
    <2>3. Asked' = Asked
        BY <1>1 DEF Asked
    <2> QED
        BY <1>1, <1>4, <2>1, <2>2, <2>3 DEF RailSoFar, Before, Answering
<1>9. prompts = {}
    BY <1>1 DEF IInv, Unasked
<1>10. RailsRun' /\ Unasked' /\ TextSoFar' /\ NoPiiSpoken' /\ EmergencyReachesHuman'
    BY <1>1, <1>3, <1>4, <1>5, <1>9
    DEF IInv, RailsRun, Unasked, TextSoFar, NoPiiSpoken, EmergencyReachesHuman
<1>11. Masked' /\ PromptsPassRails'
    BY <1>1, <1>9 DEF IInv, Masked, PromptsPassRails
<1> QED
    BY <1>7, <1>8, <1>10, <1>11 DEF IInv

LEMMA LanguageBridgeKeeps == IInv /\ LanguageBridgeNode => IInv'
<1> SUFFICES ASSUME IInv, LanguageBridgeNode PROVE IInv'
    OBVIOUS
<1>1. CASE TryAgain
    BY <1>1, TryAgainLemma DEF LanguageBridgeNode
<1>2. CASE Raise
    BY <1>2, RaiseLemma DEF LanguageBridgeNode, Answering
<1>3. CASE ~TryAgain /\ ~Raise
    <2>1. /\ pc = "language_bridge" /\ pc' = "retrieval" /\ attempt' = 0
          /\ queryPii' \in IF AsksTranslator THEN {"none", "plain", queryPii}
                           ELSE {queryPii}
          /\ UNCHANGED <<utterance, given, lang, rail, context, prompts, raw, final>>
        BY <1>3 DEF LanguageBridgeNode, Goto
    <2>2. /\ queryPii' \in Pii
          /\ AsksTranslator' = AsksTranslator
          /\ ~AsksTranslator => queryPii' = queryPii
        BY <2>1 DEF IInv, TypeOK, AsksTranslator, Pii
    <2>3. attempt' \in 0..(MaxRetries - 1)
        BY <2>1, PipelineAssumption
    <2>4. TypeOK'
        BY <2>1, <2>2, <2>3 DEF IInv, TypeOK, Nodes
    <2>5. RailSoFar'
        BY <2>1, AnsweringStep DEF Answering
    <2>6. RailsRun' /\ Unasked' /\ TextSoFar' /\ NoPiiSpoken' /\ EmergencyReachesHuman'
        BY <2>1 DEF IInv, RailsRun, Unasked, TextSoFar, NoPiiSpoken, EmergencyReachesHuman
    <2>7. Masked' /\ PromptsPassRails'
        BY <2>1, <2>2 DEF IInv, Masked, PromptsPassRails, Before
    <2> QED
        BY <2>4, <2>5, <2>6, <2>7 DEF IInv
<1> QED
    BY <1>1, <1>2, <1>3

LEMMA RetrievalKeeps == IInv /\ RetrievalNode => IInv'
<1> SUFFICES ASSUME IInv, RetrievalNode PROVE IInv'
    OBVIOUS
<1>1. CASE TryAgain
    BY <1>1, TryAgainLemma DEF RetrievalNode
<1>2. CASE Raise
    BY <1>2, RaiseLemma DEF RetrievalNode, Answering
<1>3. CASE ~TryAgain /\ ~Raise
    <2>1. PICK found \in SUBSET Chunks, missed \in SUBSET Chunks :
              context' = IF GuardrailsEnabled THEN ProcessRetrieval(found, missed) ELSE found
        BY <1>3 DEF RetrievalNode
    <2>2. /\ pc = "retrieval" /\ pc' = "response" /\ attempt' = 0
          /\ UNCHANGED <<utterance, given, lang, queryPii, rail, prompts, raw, final>>
        BY <1>3 DEF RetrievalNode, Goto
    <2>3. \A c \in ProcessRetrieval(found, missed) :
              c \in Retrieved /\ c.pii # "plain" /\ c.tenant \in {Tenant, NoTenant}
        <3>1. TAKE c \in ProcessRetrieval(found, missed)
        <3>2. PICK d \in found : /\ d.tenant \in {Tenant, NoTenant}
                                /\ c = Redacted(d, d \in missed)
            BY Zenon DEF ProcessRetrieval
        <3>3. (d \in missed) \in BOOLEAN
            OBVIOUS
        <3>4. /\ Redacted(d, d \in missed) \in Retrieved
              /\ Redacted(d, d \in missed).pii # "plain"
              /\ Redacted(d, d \in missed).tenant = d.tenant
            BY <3>3, RedactedLemma, Zenon
        <3> QED
            BY <3>2, <3>4, Zenon
    <2>4. context' \subseteq Retrieved
        BY <2>1, <2>3 DEF Retrieved
    <2>5. attempt' \in 0..(MaxRetries - 1)
        BY <2>2, PipelineAssumption
    <2>6. TypeOK'
        BY <2>2, <2>4, <2>5 DEF IInv, TypeOK, Nodes
    <2>7. RailSoFar'
        BY <2>2, AnsweringStep DEF Answering
    <2>8. RailsRun' /\ Unasked' /\ TextSoFar' /\ NoPiiSpoken' /\ EmergencyReachesHuman'
        BY <2>2
        DEF IInv, RailsRun, Unasked, TextSoFar, NoPiiSpoken, EmergencyReachesHuman, Before
    <2>9. AsksTranslator' = AsksTranslator
        BY <2>2 DEF AsksTranslator
    <2>10. Masked' /\ PromptsPassRails'
        BY <2>1, <2>2, <2>3, <2>9 DEF IInv, Masked, PromptsPassRails, Before
    <2> QED
        BY <2>6, <2>7, <2>8, <2>10 DEF IInv
<1> QED
    BY <1>1, <1>2, <1>3

LEMMA ResponseKeeps == IInv /\ ResponseNode => IInv'
<1> SUFFICES ASSUME IInv, ResponseNode PROVE IInv'
    OBVIOUS
<1>1. /\ pc = "response" /\ pc' = "verification" /\ attempt' = 0
      /\ prompts' = prompts \cup {Prompt}
      /\ raw' \in {Template("silence"), Template("apology"), Text("answer", FALSE),
                   Text("answer", TRUE)}
      /\ UNCHANGED <<utterance, given, lang, queryPii, rail, context, final>>
    BY DEF ResponseNode, Goto
<1>2. /\ raw' \in Texts /\ raw'.kind \in Open
      /\ raw'.kind = "silence" => ~raw'.pii
    <2>1. CASE raw' = Template("silence") \/ raw' = Template("apology")
        BY <2>1, TemplateLemma DEF Kinds, Open
    <2>2. CASE raw' = Text("answer", FALSE) \/ raw' = Text("answer", TRUE)
        <3>1. \A p \in BOOLEAN : Text("answer", p) \in Texts /\ Text("answer", p).kind = "answer"
            BY TextLemma DEF Kinds
        <3>2. raw' \in Texts /\ raw'.kind = "answer"
            BY <2>2, <3>1, Zenon
        <3> QED
            BY <3>2 DEF Open
    <2> QED
        BY <1>1, <2>1, <2>2
<1>3. Prompt.queryPii = queryPii /\ Prompt.chunks = context
    BY DEF Prompt
<1>4. Prompt \in [queryPii : Pii, chunks : SUBSET Retrieved]
    BY DEF Prompt, IInv, TypeOK
<1>5. attempt' \in 0..(MaxRetries - 1)
    BY <1>1, PipelineAssumption
<1>6. TypeOK'
    BY <1>1, <1>2, <1>4, <1>5 DEF IInv, TypeOK, Nodes
<1>7. RailSoFar'
    BY <1>1, AnsweringStep DEF Answering
<1>8. final.kind = "none"
    BY <1>1 DEF IInv, TextSoFar
<1>9. RailsRun' /\ Unasked' /\ TextSoFar' /\ NoPiiSpoken' /\ EmergencyReachesHuman'
    BY <1>1, <1>2, <1>8
    DEF IInv, RailsRun, Unasked, TextSoFar, NoPiiSpoken, EmergencyReachesHuman, Before
<1>10. AsksTranslator' = AsksTranslator
    BY <1>1 DEF AsksTranslator
<1>11. Masked' /\ PromptsPassRails'
    BY <1>1, <1>3, <1>10 DEF IInv, Masked, PromptsPassRails, Before
<1> QED
    BY <1>6, <1>7, <1>9, <1>11 DEF IInv

LEMMA VerificationKeeps == IInv /\ VerificationNode => IInv'
<1> SUFFICES ASSUME IInv, VerificationNode PROVE IInv'
    OBVIOUS
<1>1. CASE TryAgain
    BY <1>1, TryAgainLemma DEF VerificationNode
<1>2. CASE Raise
    BY <1>2, RaiseLemma DEF VerificationNode, Answering
<1>3. CASE ~TryAgain /\ ~Raise
    <2>1. /\ pc = "verification" /\ pc' = "translate_response" /\ attempt' = 0
          /\ UNCHANGED <<utterance, given, lang, queryPii, rail, context, prompts, raw, final>>
        BY <1>3 DEF VerificationNode, Goto
    <2>2. attempt' \in 0..(MaxRetries - 1)
        BY <2>1, PipelineAssumption
    <2>3. TypeOK'
        BY <2>1, <2>2 DEF IInv, TypeOK, Nodes
    <2>4. RailSoFar'
        BY <2>1, AnsweringStep DEF Answering
    <2>5. RailsRun' /\ Unasked' /\ TextSoFar' /\ NoPiiSpoken' /\ EmergencyReachesHuman'
        BY <2>1
        DEF IInv, RailsRun, Unasked, TextSoFar, NoPiiSpoken, EmergencyReachesHuman, Before
    <2>6. AsksTranslator' = AsksTranslator
        BY <2>1 DEF AsksTranslator
    <2>7. Masked' /\ PromptsPassRails'
        BY <2>1, <2>6 DEF IInv, Masked, PromptsPassRails, Before
    <2> QED
        BY <2>3, <2>4, <2>5, <2>7 DEF IInv
<1> QED
    BY <1>1, <1>2, <1>3

\* A translation keeps the kind of a text, and an empty one is not translated.
LEMMA TranslateResponseKeeps == IInv /\ TranslateResponseNode => IInv'
<1> SUFFICES ASSUME IInv, TranslateResponseNode PROVE IInv'
    OBVIOUS
<1>1. CASE TryAgain
    BY <1>1, TryAgainLemma DEF TranslateResponseNode
<1>2. CASE Raise
    BY <1>2, RaiseLemma DEF TranslateResponseNode, Answering
<1>3. CASE ~TryAgain /\ ~Raise
    <2>1. /\ pc = "translate_response" /\ attempt' = 0
          /\ pc' = IF GuardrailsEnabled THEN "output_guardrails" ELSE "done"
          /\ final' \in IF AsksTranslator /\ raw.kind # "silence"
                        THEN {raw, Text(raw.kind, TRUE), Text(raw.kind, FALSE)} ELSE {raw}
          /\ UNCHANGED <<utterance, given, lang, queryPii, rail, context, prompts, raw>>
        BY <1>3 DEF TranslateResponseNode, Goto
    <2>2. raw \in Texts /\ raw.kind \in Kinds /\ raw.kind \in Open
        BY DEF IInv, TypeOK, Texts, TextSoFar
    <2>3. \A p \in BOOLEAN : Text(raw.kind, p) \in Texts /\ Text(raw.kind, p).kind = raw.kind
        BY <2>2, TextLemma
    <2>4. final' \in Texts /\ final'.kind = raw.kind
        <3>1. final' \in {raw, Text(raw.kind, TRUE), Text(raw.kind, FALSE)}
            BY <2>1
        <3>2. CASE final' = raw
            BY <2>2, <3>2
        <3>3. CASE final' = Text(raw.kind, TRUE) \/ final' = Text(raw.kind, FALSE)
            BY <2>3, <3>3, Zenon
        <3> QED
            BY <3>1, <3>2, <3>3
    <2>5. raw.kind = "silence" => ~final'.pii
        BY <2>1 DEF IInv, TextSoFar
    <2>6. attempt' \in 0..(MaxRetries - 1)
        BY <2>1, PipelineAssumption
    <2>7. TypeOK'
        BY <2>1, <2>4, <2>6 DEF IInv, TypeOK, Nodes
    <2>8. RailSoFar'
        BY <2>1, AnsweringStep DEF Answering
    <2>9. RailsRun' /\ Unasked' /\ TextSoFar' /\ NoPiiSpoken'
        BY <2>1, <2>2, <2>4, <2>5 DEF IInv, RailsRun, Unasked, TextSoFar, NoPiiSpoken, Before
    <2>10. EmergencyReachesHuman'
        BY <2>1, <2>2, <2>4, AnsweringFacts DEF EmergencyReachesHuman, Open, Answering
    <2>11. AsksTranslator' = AsksTranslator
        BY <2>1 DEF AsksTranslator
    <2>12. Masked' /\ PromptsPassRails'
        BY <2>1, <2>11 DEF IInv, Masked, PromptsPassRails, Before
    <2> QED
        BY <2>7, <2>8, <2>9, <2>10, <2>12 DEF IInv
<1> QED
    BY <1>1, <1>2, <1>3

LEMMA OutputRailKeeps == IInv /\ OutputRail => IInv'
<1> SUFFICES ASSUME IInv, OutputRail PROVE IInv'
    OBVIOUS
<1>1. PICK m \in ModeratorAnswers :
          final' = IF ProcessOutput(Examined, m).kind = "fallback"
                   THEN ProcessOutput(Examined, m) ELSE final
    BY DEF OutputRail
<1>2. /\ pc = "output_guardrails" /\ pc' = "done" /\ attempt' = 0
      /\ UNCHANGED <<utterance, given, lang, queryPii, rail, context, prompts, raw>>
    BY DEF OutputRail, Goto
<1>3. /\ final \in Texts /\ raw \in Texts /\ final.kind \in Open /\ raw.kind \in Open
      /\ final.kind = "silence" => raw.kind = "silence" /\ ~final.pii
    BY <1>2 DEF IInv, TypeOK, TextSoFar
<1>4. /\ Template("fallback") \in Texts
      /\ ~Template("fallback").pii
      /\ Template("fallback").kind = "fallback"
    BY TemplateLemma DEF Kinds
<1>5. /\ final' \in Texts /\ ~final'.pii
      /\ final'.kind \in Open \cup {"fallback"}
    <2>1. CASE final.kind = "silence"
        BY <1>1, <1>3, <2>1 DEF Examined, ProcessOutput
    <2>2. CASE final.kind # "silence" /\ (final.pii \/ m)
        BY <1>1, <1>4, <2>2 DEF Examined, ProcessOutput
    <2>3. CASE final.kind # "silence" /\ ~(final.pii \/ m)
        BY <1>1, <1>3, <2>3 DEF Examined, ProcessOutput
    <2> QED
        BY <2>1, <2>2, <2>3
<1>6. attempt' \in 0..(MaxRetries - 1)
    BY <1>2, PipelineAssumption
<1>7. TypeOK'
    BY <1>2, <1>5, <1>6 DEF IInv, TypeOK
<1>8. RailSoFar'
    BY <1>2, AnsweringStep DEF Answering
<1>9. RailsRun' /\ Unasked' /\ TextSoFar' /\ NoPiiSpoken'
    BY <1>2, <1>5 DEF IInv, RailsRun, Unasked, TextSoFar, NoPiiSpoken, Before
<1>10. EmergencyReachesHuman'
    BY <1>2, <1>5, AnsweringFacts DEF EmergencyReachesHuman, Open, Answering
<1>11. AsksTranslator' = AsksTranslator
    BY <1>2 DEF AsksTranslator
<1>12. Masked' /\ PromptsPassRails'
    BY <1>2, <1>11 DEF IInv, Masked, PromptsPassRails, Before
<1> QED
    BY <1>7, <1>8, <1>9, <1>10, <1>12 DEF IInv

LEMMA StutterKeeps == IInv /\ UNCHANGED vars => IInv'
<1> SUFFICES ASSUME IInv, UNCHANGED vars PROVE IInv'
    OBVIOUS
<1>1. TypeOK'
    BY DEF vars, IInv, TypeOK
<1>2. Asked' = Asked /\ AsksTranslator' = AsksTranslator
    BY DEF vars, Asked, AsksTranslator
<1>3. RailSoFar'
    BY <1>2 DEF vars, IInv, RailSoFar, Railed
<1>4. RailsRun' /\ Unasked' /\ TextSoFar' /\ NoPiiSpoken' /\ EmergencyReachesHuman'
    BY DEF vars, IInv, RailsRun, Unasked, TextSoFar, NoPiiSpoken, EmergencyReachesHuman,
           AsksSarvam
<1>5. Masked' /\ PromptsPassRails'
    BY <1>2 DEF vars, IInv, Masked, PromptsPassRails
<1> QED
    BY <1>1, <1>3, <1>4, <1>5 DEF IInv

LEMMA StepKeeps == IInv /\ [Next]_vars => IInv'
BY LanguageDetectKeeps, InputRailKeeps, SafetyGateKeeps, EscalationKeeps,
   LanguageBridgeKeeps, RetrievalKeeps, ResponseKeeps, VerificationKeeps,
   TranslateResponseKeeps, OutputRailKeeps, StutterKeeps DEF Next

-----------------------------------------------------------------------------
(* Results *)

\* The invariant holds at every node of every turn, whatever the services of the
\* graph do (build_koyal_graph).
THEOREM InductiveInvariant == Spec => []IInv
BY InitIInv, StepKeeps, PTL DEF Spec, Safety

\* Every field of the state stays in its type, and no call is tried more than
\* MaxRetries times (the retry loops of the nodes).
THEOREM TypeCorrectness == Spec => []TypeOK
<1>1. IInv => TypeOK
    BY DEF IInv
<1> QED
    BY <1>1, InductiveInvariant, PTL

\* With guardrails no PII is spoken, wherever it came from (output_rail_node).
THEOREM SpeechIsClean == Spec => []NoPiiSpoken
<1>1. IInv => NoPiiSpoken
    BY DEF IInv
<1> QED
    BY <1>1, InductiveInvariant, PTL

\* With guardrails no text reaches the model past mask_pii but what a translator
\* wrote, and no chunk of another tenant (process_input, process_retrieval,
\* response_agent).
THEOREM RailsSeePrompts == Spec => []PromptsPassRails
<1>1. IInv => PromptsPassRails
    BY DEF IInv
<1> QED
    BY <1>1, InductiveInvariant, PTL

\* An emergency is kept from the model, and reaches a human unless the input rail
\* blocks it or language detection raises (safety_gate_agent).
THEOREM EmergenciesEscalate == Spec => []EmergencyReachesHuman
<1>1. IInv => EmergencyReachesHuman
    BY DEF IInv
<1> QED
    BY <1>1, InductiveInvariant, PTL

\* AgentTurn has the AgentGraph of the pipeline.
LEMMA SameGraph ==
    /\ Turn!Query = Query
    /\ \A n : Turn!InitialState(n) = InitialState(n)
    /\ \A q, n : Turn!TurnResults(q, n) = TurnResults(q, n)
<1>1. Turn!Query = Query
    BY DEF Turn!Query, Query
<1>2. \A n : Turn!InitialState(n) = InitialState(n)
    BY DEF Turn!InitialState, InitialState
<1>3. \A q, m, n : Turn!InputGuardrails(q, m, n) = InputGuardrails(q, m, n)
    BY <1>2, Zenon
    DEF Turn!InputGuardrails, InputGuardrails, Turn!ProcessInput, ProcessInput,
        Turn!ApplyStrikePolicy, ApplyStrikePolicy, Turn!StrikeLimit, StrikeLimit
<1>4. \A n : Turn!Failed(n) = Failed(n)
    BY <1>2, Zenon DEF Turn!Failed, Failed
<1>5. \A s, q, d : Turn!SafetyGate(s, q, d) = SafetyGate(s, q, d)
    BY Zenon DEF Turn!SafetyGate, SafetyGate
<1>6. \A s, n, r : Turn!Continue(s, n, r) = Continue(s, n, r)
    BY <1>4, Zenon DEF Turn!Continue, Continue
<1>7. \A q, n, l, m, d, r : Turn!Invoke(q, n, l, m, d, r) = Invoke(q, n, l, m, d, r)
    BY <1>3, <1>5, <1>6, <1>4 DEF Turn!Invoke, Invoke, Turn!RoutesToEnd, RoutesToEnd
<1>8. \A q, n : Turn!TurnResults(q, n) = TurnResults(q, n)
    <2> TAKE q, n
    <2>1. \A x : x \in Turn!TurnResults(q, n) <=> x \in TurnResults(q, n)
        BY <1>7 DEF Turn!TurnResults, TurnResults
    <2> QED
        BY <2>1
<1> QED
    BY <1>1, <1>2, <1>8

\* The nodes implement what AgentGraph lists: a turn answers once, with one of
\* the results VoiceCall takes from the same list (observed_invoke_graph).
THEOREM ImplementsTurn == Spec => TurnIsAnswered
<1>1. Init => Turn!TurnInit
    <2> SUFFICES ASSUME Init PROVE Turn!TurnInit
        OBVIOUS
    <2>1. given \in Nat /\ Asked \in Query
        BY PipelineAssumption DEF Init, Asked, Utterances, Query
    <2>2. pc # "done"
        BY DEF Init
    <2>3. (pc = "done") = FALSE
        BY <2>2
    <2>4. (IF pc = "done" THEN rail ELSE InitialState(given)) = InitialState(given)
        BY <2>2
    <2> QED
        BY <2>1, <2>3, <2>4, SameGraph, Zenon DEF Turn!TurnInit
<1>2. IInv' /\ [Next]_vars => [Turn!Answer]_Turn!turnVars
    <2> SUFFICES ASSUME IInv', [Next]_vars PROVE [Turn!Answer]_Turn!turnVars
        OBVIOUS
    <2>1. UNCHANGED <<utterance, given>>
        BY DEF Next, vars, LanguageDetect, InputRail, SafetyGateNode, EscalationNode,
               LanguageBridgeNode, RetrievalNode, ResponseNode, VerificationNode,
               TranslateResponseNode, OutputRail
    <2>2. Asked' = Asked
        BY <2>1 DEF Asked
    <2>3. CASE UNCHANGED vars
        BY <2>1, <2>2, <2>3 DEF vars, Turn!turnVars
    <2>4. CASE Next
        <3>1. pc # "done"
            BY <2>4
            DEF Next, LanguageDetect, InputRail, SafetyGateNode, EscalationNode,
                LanguageBridgeNode, RetrievalNode, ResponseNode, VerificationNode,
                TranslateResponseNode, OutputRail
        <3>2. CASE pc' = "done"
            <4>1. rail' \in TurnResults(Asked, given)
                BY <2>1, <2>2, <3>2 DEF IInv, RailSoFar
            <4>2. ~(pc = "done")
                BY <3>1
            <4>3. (pc' = "done") = TRUE
                BY <3>2
            <4>4. (IF pc' = "done" THEN rail' ELSE InitialState(given')) = rail'
                BY <3>2
            <4>5. UNCHANGED <<Asked, given>>
                BY <2>1, <2>2
            <4> QED
                BY <4>1, <4>2, <4>3, <4>4, <4>5, SameGraph, Zenon DEF Turn!Answer
        <3>3. CASE pc' # "done"
            BY <2>1, <2>2, <3>1, <3>3 DEF Turn!turnVars
        <3> QED
            BY <3>2, <3>3
    <2> QED
        BY <2>3, <2>4
<1> QED
    BY <1>1, <1>2, InductiveInvariant, PTL DEF Spec, Safety, TurnIsAnswered, Turn!TurnSpec

-----------------------------------------------------------------------------
(* How long a turn may take *)

\* How many nodes may still run, the next one included.
NodesLeft ==
    [language_detect |-> 9, input_guardrails |-> 8, safety_gate |-> 7, escalation |-> 6,
     language_bridge |-> 6, retrieval |-> 5, response |-> 4, verification |-> 3,
     translate_response |-> 2, output_guardrails |-> 1, done |-> 0]

\* The attempts a turn may still make: MaxRetries in every node that is left, but
\* for the ones that have failed.
AttemptsLeft == NodesLeft[pc] * MaxRetries - attempt

\* A node that is left begins with a fresh count of attempts.
DoneIsFresh == pc = "done" => attempt = 0

\* Every step of a turn tries the same node once more, or leaves it for one that
\* comes later.
LEMMA StepMovesOn ==
    ASSUME IInv, Next
    PROVE  /\ pc \in Nodes
           /\ \/ pc' = pc /\ attempt' = attempt + 1 /\ attempt + 1 < MaxRetries
              \/ pc' \in Nodes \cup {"done"} /\ attempt' = 0
                 /\ NodesLeft[pc'] < NodesLeft[pc]
<1>1. CASE LanguageDetect
    BY <1>1 DEF LanguageDetect, Detected, TryAgain, Raise, Goto, Nodes, NodesLeft
<1>2. CASE InputRail
    BY <1>2 DEF InputRail, Goto, Nodes, NodesLeft
<1>3. CASE SafetyGateNode
    BY <1>3 DEF SafetyGateNode, Goto, Nodes, NodesLeft
<1>4. CASE EscalationNode
    BY <1>4 DEF EscalationNode, Goto, Nodes, NodesLeft
<1>5. CASE LanguageBridgeNode
    BY <1>5 DEF LanguageBridgeNode, TryAgain, Raise, Goto, Nodes, NodesLeft
<1>6. CASE RetrievalNode
    BY <1>6 DEF RetrievalNode, TryAgain, Raise, Goto, Nodes, NodesLeft
<1>7. CASE ResponseNode
    BY <1>7 DEF ResponseNode, Goto, Nodes, NodesLeft
<1>8. CASE VerificationNode
    BY <1>8 DEF VerificationNode, TryAgain, Raise, Goto, Nodes, NodesLeft
<1>9. CASE TranslateResponseNode
    <2>1. /\ pc = "translate_response"
          /\ \/ Goto(IF GuardrailsEnabled THEN "output_guardrails" ELSE "done")
             \/ TryAgain
             \/ Raise
        BY <1>9 DEF TranslateResponseNode
    <2> QED
        BY <2>1 DEF TryAgain, Raise, Goto, Nodes, NodesLeft
<1>10. CASE OutputRail
    BY <1>10 DEF OutputRail, Goto, Nodes, NodesLeft
<1> QED
    BY <1>1, <1>2, <1>3, <1>4, <1>5, <1>6, <1>7, <1>8, <1>9, <1>10 DEF Next

LEMMA NodesLeftType == \A n \in Nodes \cup {"done"} : NodesLeft[n] \in 0..9
BY DEF Nodes, NodesLeft

\* Leaving a node gives up at least one attempt, whatever the number of retries.
LEMMA LeavingGivesUp ==
    ASSUME NEW m \in Nat \ {0}, NEW a \in 0..(m - 1),
           NEW k \in 0..9, NEW n \in 0..9, n < k
    PROVE  n * m < k * m - a
<1>1. n + 1 <= k /\ a < m
    OBVIOUS
<1>2. k = 1 \/ k = 2 \/ k = 3 \/ k = 4 \/ k = 5 \/ k = 6 \/ k = 7 \/ k = 8 \/ k = 9
    OBVIOUS
<1>3. n = 0 \/ n = 1 \/ n = 2 \/ n = 3 \/ n = 4 \/ n = 5 \/ n = 6 \/ n = 7 \/ n = 8
    OBVIOUS
<1> QED
    BY <1>1, <1>2, <1>3

\* A turn makes at most nine times MaxRetries steps, one attempt or one node each,
\* whatever fails (build_koyal_graph, the retry loops of its nodes): the bound
\* stays in its range and every step lowers it.  TurnEnds follows wherever the
\* turn keeps taking steps.
THEOREM TurnIsBounded ==
    Spec => /\ [](AttemptsLeft \in 0..(9 * MaxRetries))
            /\ [][AttemptsLeft' < AttemptsLeft]_vars
<1>1. Init => DoneIsFresh
    BY DEF Init, DoneIsFresh
<1>2. IInv /\ DoneIsFresh /\ [Next]_vars => DoneIsFresh'
    <2> SUFFICES ASSUME IInv, DoneIsFresh, [Next]_vars PROVE DoneIsFresh'
        OBVIOUS
    <2>1. CASE Next
        BY <2>1, StepMovesOn DEF DoneIsFresh, Nodes
    <2>2. CASE UNCHANGED vars
        BY <2>2 DEF DoneIsFresh, vars
    <2> QED
        BY <2>1, <2>2
<1>3. IInv /\ DoneIsFresh => AttemptsLeft \in 0..(9 * MaxRetries)
    <2> SUFFICES ASSUME IInv, DoneIsFresh PROVE AttemptsLeft \in 0..(9 * MaxRetries)
        OBVIOUS
    <2>1. /\ pc \in Nodes \cup {"done"} /\ attempt \in 0..(MaxRetries - 1)
          /\ MaxRetries \in Nat \ {0}
        BY PipelineAssumption DEF IInv, TypeOK
    <2>2. CASE pc = "done"
        BY <2>1, <2>2 DEF DoneIsFresh, AttemptsLeft, NodesLeft
    <2>3. CASE pc \in Nodes
        <3>1. NodesLeft[pc] \in 1..9
            BY <2>3 DEF Nodes, NodesLeft
        <3> DEFINE k == NodesLeft[pc]
        <3>2. k \in 1..9
            BY <3>1
        <3> HIDE DEF k
        <3>3. k = 1 \/ k = 2 \/ k = 3 \/ k = 4 \/ k = 5 \/ k = 6 \/ k = 7 \/ k = 8 \/ k = 9
            BY <3>2
        <3>4. k * MaxRetries - attempt \in 0..(9 * MaxRetries)
            BY <2>1, <3>3
        <3> QED
            BY <3>4 DEF k, AttemptsLeft
    <2> QED
        BY <2>1, <2>2, <2>3
<1>4. IInv /\ [Next]_vars => [AttemptsLeft' < AttemptsLeft]_vars
    <2> SUFFICES ASSUME IInv, Next PROVE AttemptsLeft' < AttemptsLeft
        OBVIOUS
    <2>1. attempt \in 0..(MaxRetries - 1) /\ MaxRetries \in Nat \ {0}
        BY PipelineAssumption DEF IInv, TypeOK
    <2>2. CASE pc' = pc /\ attempt' = attempt + 1
        <3>1. NodesLeft[pc] \in 0..9
            BY StepMovesOn, NodesLeftType
        <3> DEFINE product == NodesLeft[pc] * MaxRetries
        <3>2. product \in Int
            BY <2>1, <3>1
        <3>3. AttemptsLeft = product - attempt /\ AttemptsLeft' = product - attempt'
            BY <2>2 DEF AttemptsLeft
        <3> HIDE DEF product
        <3> QED
            BY <2>1, <2>2, <3>2, <3>3
    <2>3. CASE /\ pc' \in Nodes \cup {"done"} /\ attempt' = 0
               /\ NodesLeft[pc'] < NodesLeft[pc]
        <3>1. NodesLeft[pc] \in 0..9 /\ NodesLeft[pc'] \in 0..9
            BY <2>3, StepMovesOn, NodesLeftType
        <3>2. NodesLeft[pc'] * MaxRetries < NodesLeft[pc] * MaxRetries - attempt
            BY <2>1, <2>3, <3>1, LeavingGivesUp
        <3>3. NodesLeft[pc'] * MaxRetries \in Int
            BY <2>1, <3>1
        <3>4. NodesLeft[pc'] * MaxRetries - attempt' = NodesLeft[pc'] * MaxRetries
            BY <2>3, <3>3
        <3> QED
            BY <3>2, <3>4 DEF AttemptsLeft
    <2> QED
        BY <2>2, <2>3, StepMovesOn
<1> QED
    BY <1>1, <1>2, <1>3, <1>4, InductiveInvariant, PTL DEF Spec, Safety
=============================================================================

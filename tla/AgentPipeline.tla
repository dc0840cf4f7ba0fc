---------------------------- MODULE AgentPipeline ----------------------------
(***************************************************************************)
(* One turn inside the LangGraph pipeline, node by node, with the retries  *)
(* of the services the nodes call (backend/agents/*.py, the rails of       *)
(* backend/safety/guardrails_handler.py, observed_invoke_graph).           *)
(* AgentGraph says which results its caller may see; here is how they come *)
(* about, what the model is told and what the caller hears.                *)
(*                                                                         *)
(* Texts are abstracted to what the rails look for: whether a text matches *)
(* _PII_PATTERNS, and what kind of text it is.  A chunk of the knowledge   *)
(* base is [tenant, pii, relevant].  Sarvam, Qdrant, Groq, NeMo and the    *)
(* emergency model may answer, refuse or fail in any way the code tells    *)
(* apart, Sarvam with a body that makes the node raise too.                *)
(*                                                                         *)
(* Left out: an empty utterance, which no caller of the pipeline sends; a  *)
(* language or a translation that Sarvam gives as a list or an object;     *)
(* scores and confidences that are only logged; metrics; and missing API   *)
(* keys, which main.py and the first turn refuse.                          *)
(***************************************************************************)
EXTENDS AgentGraph, FiniteSets

CONSTANTS Tenant,         \* the tenant of the call
          NoTenant,       \* a chunk that does not say whose it is
          Chunks,         \* what Qdrant may return: [tenant, pii, relevant]
          SarvamEnabled,  \* SARVAM_API_KEY is set
          MaxRetries,     \* SARVAM_, QDRANT_QUERY_ and AGENT_MAX_RETRIES
          MaxStrikes      \* bound: strikes a turn may be given

ASSUME PipelineAssumption ==
    /\ SarvamEnabled \in BOOLEAN
    /\ MaxRetries \in Nat \ {0}
    /\ MaxStrikes \in Nat
    /\ \A c \in Chunks : c.pii \in {"none", "plain"} /\ c.relevant \in BOOLEAN

Languages == {"en-IN", "hi-IN", "hi-IN+en-IN"}

Nodes == {"language_detect", "input_guardrails", "safety_gate", "escalation",
          "language_bridge", "retrieval", "response", "verification",
          "translate_response", "output_guardrails"}

\* script is what the codepoints of the utterance say of its language.
Utterances == [offTopic : BOOLEAN, emergency : BOOLEAN, pii : BOOLEAN,
               script : Languages, short : BOOLEAN]

\* "none": not set yet; "silence": the model answered with an empty text.
Kinds == {"none", "warning", "termination", "escalation", "answer", "silence",
          "apology", "fallback", "error"}
Texts == [kind : Kinds, pii : BOOLEAN]

Text(kind, pii) == [kind |-> kind, pii |-> pii]
Template(kind) == Text(kind, FALSE)

\* Whether what the model is sent matches a PII pattern: not at all, as it came, or
\* still after it was masked.
Pii == {"none", "plain", "missed"}

\* mask_pii replaces the first place where the matched characters stand, which may
\* be inside a longer number before the match: the match itself is then missed.
MaskPii(pii, misses) == IF pii # "none" /\ misses THEN "missed" ELSE "none"

\* Chunks as they come and with their text masked.
Redacted(c, misses) ==
    [tenant |-> c.tenant, pii |-> MaskPii(c.pii, misses), relevant |-> c.relevant]
Retrieved == Chunks \cup {Redacted(c, misses) : c \in Chunks, misses \in BOOLEAN}

VARIABLES
    pc,         \* the node that runs next, or "done"
    attempt,    \* attempts of its service call that have failed
    utterance,  \* what the caller said
    given,      \* the strike count the turn was sent with
    lang,       \* detected_language
    queryPii,   \* what Pii says of state["query"], then of state["query_english"]
    rail,       \* the fields of AgentGraph's Result
    context,    \* retrieved_chunks
    prompts,    \* history: what was sent to the language model
    raw,        \* raw_response
    final       \* final_response

vars == <<pc, attempt, utterance, given, lang, queryPii, rail, context, prompts, raw, final>>

TypeOK ==
    /\ pc \in Nodes \cup {"done"}
    /\ attempt \in 0..(MaxRetries - 1)
    /\ utterance \in Utterances
    /\ given \in 0..MaxStrikes
    /\ lang \in Languages
    /\ queryPii \in Pii
    /\ rail \in Result
    /\ context \subseteq Retrieved
    /\ prompts \subseteq [queryPii : Pii, chunks : SUBSET Retrieved]
    /\ raw \in Texts
    /\ final \in Texts

\* make_initial_state
Init ==
    /\ pc = "language_detect"
    /\ attempt = 0
    /\ utterance \in Utterances
    /\ given \in 0..MaxStrikes
    /\ lang = "en-IN"
    /\ queryPii = IF utterance.pii THEN "plain" ELSE "none"
    /\ rail = InitialState(given)
    /\ context = {}
    /\ prompts = {}
    /\ raw = Template("none")
    /\ final = Template("none")

Asked == [offTopic |-> utterance.offTopic, emergency |-> utterance.emergency]

-----------------------------------------------------------------------------
(* Moving on, trying again, giving up *)

Goto(node) == pc' = node /\ attempt' = 0

\* One attempt too many.
TryOnceMore ==
    /\ attempt < MaxRetries
    /\ attempt' = attempt + 1
    /\ UNCHANGED <<pc, lang, queryPii, rail, context, prompts, raw, final>>

\* A retryable failure, when it was not the last attempt.
TryAgain ==
    /\ attempt + 1 < MaxRetries
    /\ attempt' = attempt + 1
    /\ UNCHANGED <<pc, lang, queryPii, rail, context, prompts, raw, final>>

\* What the nodes have written so far is returned.
RaiseKeepingRail ==
    /\ Goto("done")
    /\ rail' = [rail EXCEPT !.error = TRUE]
    /\ final' = Template("error")
    /\ UNCHANGED <<lang, queryPii, context, prompts, raw>>

\* The node raises: observed_invoke_graph returns the initial state and a
\* fallback text.
Raise ==
    /\ Goto("done")
    /\ rail' = Failed(given)
    /\ final' = Template("error")
    /\ UNCHANGED <<lang, queryPii, context, prompts, raw>>

-----------------------------------------------------------------------------
(* language_detection_node and LanguageDetector.detect *)

AsksSarvam == SarvamEnabled /\ (utterance.script = "hi-IN+en-IN" \/ utterance.short)

Detected(l) ==
    /\ lang' = l
    /\ Goto(IF GuardrailsEnabled THEN "input_guardrails" ELSE "safety_gate")
    /\ UNCHANGED <<queryPii, rail, context, prompts, raw, final>>

\* The script decides when Sarvam is not asked, refuses, or has failed for the
\* last time.  An answer without a language or a confidence raises what detect
\* does not catch.
LanguageDetect ==
    /\ pc = "language_detect"
    /\ \/ Detected(utterance.script)
       \/ AsksSarvam /\ \E l \in Languages : Detected(l)
       \/ AsksSarvam /\ TryAgain
       \/ AsksSarvam /\ Raise
    /\ UNCHANGED <<utterance, given>>

-----------------------------------------------------------------------------
(* input_rail_node and process_input *)

\* mask_pii, which a session that is terminated already does not get to.
MaskedPii(misses) == IF given >= StrikeLimit THEN queryPii ELSE MaskPii(queryPii, misses)

InputRail ==
    /\ pc = "input_guardrails"
    /\ \E moderated \in ModeratorAnswers, misses \in BOOLEAN :
          LET railed == ProcessInput(Asked, moderated, given) IN
          /\ rail' = railed
          /\ queryPii' = MaskedPii(misses)
          /\ IF RoutesToEnd(railed)
             THEN /\ final' = Template(IF railed.endSession THEN "termination" ELSE "warning")
                  /\ Goto("done")
             ELSE Goto("safety_gate") /\ UNCHANGED final
    /\ UNCHANGED <<utterance, given, lang, context, prompts, raw>>

-----------------------------------------------------------------------------
(* safety_gate_agent and escalation_handler *)

\* A detector that fails is taken for a query that is safe.
DetectedOpen(fails) == utterance.emergency /\ ~fails

\* A keyword or a similar sentence; the model that cannot be loaded or queried
\* escalates.
DetectedEmergency(fails) == utterance.emergency \/ fails

SafetyGateNode ==
    /\ pc = "safety_gate"
    /\ \E fails \in BOOLEAN :
          /\ rail' = [rail EXCEPT !.escalate = DetectedEmergency(fails)]
          /\ Goto(IF rail'.escalate THEN "escalation" ELSE "language_bridge")
    /\ UNCHANGED <<utterance, given, lang, queryPii, context, prompts, raw, final>>

\* The message is a template of the tenant or a default; no rail sees it.
EscalationNode ==
    /\ pc = "escalation"
    /\ rail' = [rail EXCEPT !.escalate = TRUE]
    /\ final' = Template("escalation")
    /\ Goto("done")
    /\ UNCHANGED <<utterance, given, lang, queryPii, context, prompts, raw>>

-----------------------------------------------------------------------------
(* LanguageBridge *)

AsksTranslator == SarvamEnabled /\ lang # "en-IN"

\* A translation may garble what matched a pattern, or write out in digits a
\* number that was spoken in words.  An answer that is no object raises.
LanguageBridgeNode ==
    /\ pc = "language_bridge"
    /\ \/ /\ queryPii' \in IF AsksTranslator THEN {"none", "plain", queryPii} ELSE {queryPii}
          /\ Goto("retrieval")
          /\ UNCHANGED <<lang, rail, context, prompts, raw, final>>
       \/ AsksTranslator /\ TryAgain
       \/ AsksTranslator /\ Raise
    /\ UNCHANGED <<utterance, given>>

\* What the model wrote may match a pattern only once it is translated.
TranslateResponseNode ==
    /\ pc = "translate_response"
    /\ \/ /\ final' \in IF AsksTranslator /\ raw.kind # "silence"
                        THEN {raw, Text(raw.kind, TRUE), Text(raw.kind, FALSE)} ELSE {raw}
          /\ Goto(IF GuardrailsEnabled THEN "output_guardrails" ELSE "done")
          /\ UNCHANGED <<lang, queryPii, rail, context, prompts, raw>>
       \/ AsksTranslator /\ raw.kind # "silence" /\ TryAgain
       \/ AsksTranslator /\ raw.kind # "silence" /\ Raise
    /\ UNCHANGED <<utterance, given>>

-----------------------------------------------------------------------------
(* retrieval_agent, MultilingualRetriever.retrieve and process_retrieval *)

\* The chunks of another tenant are logged and kept.
KeepForeign(chunks, missed) ==
    {Redacted(c, c \in missed) : c \in {d \in chunks : d.relevant}}

\* missed: the chunks in which mask_pii misses what it matched.
ProcessRetrieval(chunks, missed) ==
    {Redacted(c, c \in missed) :
        c \in {d \in chunks : d.tenant \in {Tenant, NoTenant} /\ d.relevant}}

\* An unreachable Qdrant is asked again; any other error, and the last one,
\* makes the node raise.
RetrievalNode ==
    /\ pc = "retrieval"
    /\ \/ \E found \in SUBSET Chunks, missed \in SUBSET Chunks :
             /\ context' = IF GuardrailsEnabled
                           THEN ProcessRetrieval(found, missed) ELSE found
             /\ Goto("response")
             /\ UNCHANGED <<lang, queryPii, rail, prompts, raw, final>>
       \/ TryAgain
       \/ Raise
    /\ UNCHANGED <<utterance, given>>

-----------------------------------------------------------------------------
(* response_agent and verification_agent *)

Prompt == [queryPii |-> queryPii, chunks |-> context]

\* The model may make up anything; a call that fails is not repeated.
ResponseNode ==
    /\ pc = "response"
    /\ prompts' = prompts \cup {Prompt}
    /\ raw' \in {Template("silence"), Template("apology"), Text("answer", FALSE),
                 Text("answer", TRUE)}
    /\ Goto("verification")
    /\ UNCHANGED <<utterance, given, lang, queryPii, rail, context, final>>

\* An answer that is not verified is generated again.
VerifyUntilTrue ==
    /\ pc = "verification"
    /\ \/ /\ pc' \in {"translate_response", "response"}
          /\ attempt' = 0
          /\ UNCHANGED <<lang, queryPii, rail, context, prompts, raw, final>>
       \/ raw.kind # "silence" /\ TryAgain
       \/ raw.kind # "silence" /\ Raise
    /\ UNCHANGED <<utterance, given>>

\* Whatever the verdict, the answer goes on, unless the verdict cannot be parsed.
VerificationNode ==
    /\ pc = "verification"
    /\ \/ /\ Goto("translate_response")
          /\ UNCHANGED <<lang, queryPii, rail, context, prompts, raw, final>>
       \/ raw.kind # "silence" /\ TryAgain
       \/ raw.kind # "silence" /\ Raise
    /\ UNCHANGED <<utterance, given>>

-----------------------------------------------------------------------------
(* output_rail_node and process_output *)

\* The text before its translation is examined.
ExaminedRaw == raw

\* final_response, or raw_response when that is empty.
Examined == IF final.kind = "silence" THEN raw ELSE final

\* Nothing is examined in an empty text.
ProcessOutput(text, moderated) ==
    IF text.kind # "silence" /\ (text.pii \/ moderated) THEN Template("fallback") ELSE text

OutputRail ==
    /\ pc = "output_guardrails"
    /\ \E moderated \in ModeratorAnswers :
          LET railed == ProcessOutput(Examined, moderated) IN
          final' = IF railed.kind = "fallback" THEN railed ELSE final
    /\ Goto("done")
    /\ UNCHANGED <<utterance, given, lang, queryPii, rail, context, prompts, raw>>

-----------------------------------------------------------------------------

Next ==
    \/ LanguageDetect
    \/ InputRail
    \/ SafetyGateNode
    \/ EscalationNode
    \/ LanguageBridgeNode
    \/ RetrievalNode
    \/ ResponseNode
    \/ VerificationNode
    \/ TranslateResponseNode
    \/ OutputRail

\* The graph runs in a thread of its own and every service call has a time-out.
Safety == Init /\ [][Next]_vars
Spec == Safety /\ WF_vars(Next)

-----------------------------------------------------------------------------
(* Properties *)

\* Whichever nodes ran, failed or were skipped, the result is one AgentGraph
\* allows for this utterance: the abstraction VoiceCall is checked with.
Turn == INSTANCE AgentTurn WITH
            query <- Asked,
            answered <- (pc = "done"),
            result <- IF pc = "done" THEN rail ELSE InitialState(given)
TurnIsAnswered == Turn!TurnSpec

\* With guardrails, nothing that matches a PII pattern is spoken, wherever it came
\* from: the query, a chunk, the model or the translation.
NoPiiSpoken == GuardrailsEnabled /\ pc = "done" => ~final.pii

\* With guardrails, no text reaches the model that mask_pii has not seen, but what
\* a translator wrote, and no chunk that says it is another tenant's.  PII that
\* mask_pii saw and missed may reach it.
PromptsPassRails ==
    GuardrailsEnabled =>
        \A p \in prompts :
            /\ p.queryPii = "plain" => AsksTranslator
            /\ \A c \in p.chunks : c.pii # "plain" /\ c.tenant \in {Tenant, NoTenant}

\* No model is asked about an emergency.  It is handed to a human, unless the input
\* rail blocks it or the answer of the language service, where that is asked, ends
\* the turn before any rail.  What the caller hears is what the flags say.
EmergencyReachesHuman ==
    pc = "done" =>
        /\ utterance.emergency =>
              /\ prompts = {}
              /\ rail.escalate \/ rail.blocked \/ (rail.error /\ AsksSarvam)
        /\ rail.escalate <=> final.kind = "escalation"
        /\ rail.escalate \/ rail.blocked => prompts = {}

\* Every turn is answered: no failure of a service is retried for ever.
TurnEnds == <>(pc = "done")
=============================================================================

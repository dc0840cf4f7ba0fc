----------------------------- MODULE AgentGraph -----------------------------
(***************************************************************************)
(* One turn of the LangGraph pipeline, seen from its caller: which result  *)
(* states observed_invoke_graph may return for an utterance and the strike *)
(* count it was given (backend/agents/graph.py, the input rail of          *)
(* backend/safety/guardrails_handler.py, backend/agents/safety_agent.py).  *)
(*                                                                         *)
(* An utterance is abstracted to what the nodes tell apart:                *)
(*   offTopic   it contains an entry of _OFF_TOPIC_CATEGORIES,             *)
(*   emergency  the emergency detector recognises it.                      *)
(* Both hold of "I want to kill myself": "kill" is in the "illegal"        *)
(* category and "kill myself" is an emergency keyword.  The LLM moderator, *)
(* the retriever, the models and the translator are external: what they    *)
(* answer is a nondeterministic choice.                                    *)
(***************************************************************************)
EXTENDS Naturals

CONSTANTS GuardrailsEnabled,  \* the GUARDRAILS_ENABLED flag of config.py
          ModeratorAnswers    \* what NeMo may say of an utterance; {FALSE} when
                              \* its configuration did not load (regex-only mode)

ASSUME GuardrailsAssumption ==
    /\ GuardrailsEnabled \in BOOLEAN
    /\ ModeratorAnswers \subseteq BOOLEAN
    /\ FALSE \in ModeratorAnswers

StrikeLimit == 3

Query == [offTopic : BOOLEAN, emergency : BOOLEAN]

\* The fields of the final AgentState that the callers of the graph read.
Result == [strikes : Nat, blocked : BOOLEAN, endSession : BOOLEAN,
           wait : BOOLEAN, escalate : BOOLEAN, error : BOOLEAN]

\* make_initial_state: what the graph starts from.
InitialState(strikes) ==
    [strikes |-> strikes, blocked |-> FALSE, endSession |-> FALSE,
     wait |-> FALSE, escalate |-> FALSE, error |-> FALSE]

\* What is returned, with a fallback text, when a node raises: nothing of what the
\* nodes wrote.
Failed(strikes) == [InitialState(strikes) EXCEPT !.error = TRUE]

-----------------------------------------------------------------------------
(* Input rail *)

ApplyStrikePolicyOffByOne(strikes) ==
    [InitialState(strikes + 1) EXCEPT
        !.blocked = TRUE,
        !.endSession = strikes + 1 > StrikeLimit,
        !.wait = strikes + 1 <= StrikeLimit]

ApplyStrikePolicy(strikes) ==
    [InitialState(strikes + 1) EXCEPT
        !.blocked = TRUE,
        !.endSession = strikes + 1 >= StrikeLimit,
        !.wait = strikes + 1 < StrikeLimit]

\* moderated: NeMo answered "blocked".  When it is unavailable or raises, the
\* rail fails open and moderated is FALSE.
ProcessInput(query, moderated, strikes) ==
    IF strikes >= StrikeLimit
    THEN [InitialState(strikes + 1) EXCEPT !.blocked = TRUE, !.endSession = TRUE]
    ELSE IF moderated \/ query.offTopic
         THEN ApplyStrikePolicy(strikes)
         ELSE InitialState(0)

InputGuardrails(query, moderated, strikes) ==
    IF GuardrailsEnabled
    THEN ProcessInput(query, moderated, strikes)
    ELSE InitialState(strikes)

-----------------------------------------------------------------------------
(* Routing and the rest of the pipeline *)

RoutesToEnd(state) == state.endSession \/ state.blocked

\* safety_gate escalates on an emergency and when the detector itself fails.
SafetyGate(state, query, detectorFails) ==
    [state EXCEPT !.escalate = query.emergency \/ detectorFails]

\* language_bridge .. output_guardrails change only the response text; a node
\* of this path that raises makes the whole invocation fail.
Continue(state, strikes, nodeRaises) ==
    IF nodeRaises THEN Failed(strikes) ELSE state

\* language_detect comes first: when the answer of the language service makes it
\* raise, neither the input rail nor the safety gate sees the query.
Invoke(query, strikes, languageRaises, moderated, detectorFails, nodeRaises) ==
    LET railed == InputGuardrails(query, moderated, strikes)
        gated  == SafetyGate(railed, query, detectorFails)
    IN  IF languageRaises THEN Failed(strikes)
        ELSE IF RoutesToEnd(railed) THEN railed
        ELSE IF gated.escalate THEN gated
        ELSE Continue(gated, strikes, nodeRaises)

\* Everything the pipeline may answer to a query.
TurnResults(query, strikes) ==
    {Invoke(query, strikes, l, m, d, r) : m \in ModeratorAnswers, l, d, r \in BOOLEAN}
=============================================================================

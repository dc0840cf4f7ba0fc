------------------------------ MODULE AgentTurn ------------------------------
(***************************************************************************)
(* What one invocation of the pipeline promises the call that awaits it: a *)
(* single answer, one of those AgentGraph lists for the utterance and the  *)
(* strikes it was given.  VoiceCall takes its answers from the same list.  *)
(***************************************************************************)
EXTENDS AgentGraph

VARIABLES query,     \* the utterance
          given,     \* harmful_attempt_count it was sent with
          answered,  \* the result is there
          result     \* the fields of the final state the caller reads

turnVars == <<query, given, answered, result>>

TurnInit ==
    /\ query \in Query
    /\ given \in Nat
    /\ answered = FALSE
    /\ result = InitialState(given)

Answer ==
    /\ ~answered
    /\ answered' = TRUE
    /\ result' \in TurnResults(query, given)
    /\ UNCHANGED <<query, given>>

TurnSpec == TurnInit /\ [][Answer]_turnVars
=============================================================================

------------------------------ MODULE CallLedger ------------------------------
(***************************************************************************)
(* What the session managers promise the browser calls, without locks,     *)
(* awaits or clean-up: a connection is admitted or refused at one instant, *)
(* by what its worker holds at that instant; a call that was admitted is   *)
(* counted, ends once, and is reported once with the outcome it ended      *)
(* with.  A worker that dies forgets everything and reports nothing.       *)
(***************************************************************************)
EXTENDS Integers, FiniteSets

CONSTANTS Conns, Sids, Workers, MaxSessions

VARIABLES sid,     \* [Conns -> the id it asks for]
          worker,  \* [Conns -> the process that serves it]
          stage,   \* [Conns -> how far its call has come]
          calls,   \* [Workers -> [Sids -> the call made under the id]]
          gauge,   \* [Workers -> calls in progress]
          report   \* [Conns -> the outcome it was reported with]

ledgerVars == <<sid, worker, stage, calls, gauge, report>>

Verdicts == {"completed", "escalated", "terminated"}
Going == {"open", "escalating"}

Call(c) == calls[worker[c]][sid[c]]
OpenOn(w) == {s \in Sids : calls[w][s] \in Going}
Full(w) == Cardinality(OpenOn(w)) >= MaxSessions

Enter(c, call) == calls' = [calls EXCEPT ![worker[c]][sid[c]] = call]
Move(c, to) == stage' = [stage EXCEPT ![c] = to]

LedgerInit ==
    /\ sid \in [Conns -> Sids]
    /\ worker \in [Conns -> Workers]
    /\ stage = [c \in Conns |-> "waiting"]
    /\ calls = [w \in Workers |-> [s \in Sids |-> "absent"]]
    /\ gauge = [w \in Workers |-> 0]
    /\ report = [c \in Conns |-> "none"]

\* An id is used once in the life of a worker.
Refuse(c) ==
    /\ stage[c] = "waiting"
    /\ Call(c) # "absent" \/ Full(worker[c])
    /\ Move(c, "refused")
    /\ UNCHANGED <<sid, worker, calls, gauge, report>>

Admit(c) ==
    /\ stage[c] = "waiting"
    /\ Call(c) = "absent"
    /\ ~Full(worker[c])
    /\ Move(c, "open")
    /\ Enter(c, "open")
    /\ gauge' = [gauge EXCEPT ![worker[c]] = @ + 1]
    /\ UNCHANGED <<sid, worker, report>>

\* An escalation is noted before the call ends, and the note is not taken back.
Follows(call, next) ==
    \/ call = "open" /\ next \in Verdicts \cup {"escalating"}
    \/ call = "escalating" /\ next = "escalated"

Proceed(c) ==
    /\ stage[c] = "open"
    /\ LET next == calls'[worker[c]][sid[c]]
       IN  Follows(Call(c), next) /\ Enter(c, next)
    /\ UNCHANGED <<sid, worker, stage, gauge, report>>

Report(c) ==
    /\ stage[c] = "open"
    /\ Call(c) \in Verdicts
    /\ Move(c, "reported")
    /\ report' = [report EXCEPT ![c] = Call(c)]
    /\ gauge' = [gauge EXCEPT ![worker[c]] = @ - 1]
    /\ UNCHANGED <<sid, worker, calls>>

\* A connection that was waiting may be lost with the process or made again.
Forget(w) ==
    /\ gauge' = [gauge EXCEPT ![w] = 0]
    /\ calls' = [calls EXCEPT ![w] = [s \in Sids |-> "absent"]]
    /\ \E lost \in SUBSET {c \in Conns : worker[c] = w /\ stage[c] = "waiting"} :
          stage' = [c \in Conns |-> IF c \in lost \/ (worker[c] = w /\ stage[c] = "open")
                                    THEN "lost" ELSE stage[c]]
    /\ UNCHANGED <<sid, worker, report>>

LedgerNext ==
    \/ \E c \in Conns :
          Refuse(c) \/ Admit(c) \/ Proceed(c) \/ Report(c)
    \/ \E w \in Workers : Forget(w)

LedgerSpec == LedgerInit /\ [][LedgerNext]_ledgerVars
=============================================================================

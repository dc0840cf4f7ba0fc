---------------------------- MODULE SipProvisioning ----------------------------
(***************************************************************************)
(* Runs of scripts/provision_sip.py against a LiveKit server, through      *)
(* SIPTrunkManager (backend/telephony/sip_trunk.py): every deploy finds or *)
(* creates an inbound trunk, a dispatch rule and an outbound trunk for     *)
(* each tenant; --recreate deletes what is there first.                    *)
(*                                                                         *)
(* One action per request to the server.  A request may be refused, be     *)
(* carried out with its answer lost, or never arrive; a run may be killed  *)
(* between two requests; runs may overlap.                                 *)
(*                                                                         *)
(* Left out: phone numbers, addresses and metadata; names, which are one   *)
(* to one with tenants; --list, which only prints; and closing the client, *)
(* whose failure is logged.  The server keeps a rule whose trunk is gone.  *)
(***************************************************************************)
EXTENDS Naturals, Sequences, FiniteSets

CONSTANTS TENANT_SIP_CONFIG,  \* the tenants, in the order they are provisioned
          Provisioners,       \* processes of the script
          MaxRuns,            \* bound: runs started
          MaxId               \* bound: trunks and rules ever created

Tenants == {TENANT_SIP_CONFIG[k] : k \in 1..Len(TENANT_SIP_CONFIG)}

ASSUME SipAssumption ==
    /\ TENANT_SIP_CONFIG \in Seq(Tenants) \ {<<>>}
    /\ MaxRuns \in Nat
    /\ MaxId \in Nat

Kinds == {"rule", "inbound", "outbound"}
NoId == 0

VARIABLES
    objects,   \* what the server keeps: [id, kind, tenant, trunk]
    created,   \* how many ids the server has given out
    runs,      \* how many runs were started
    pc,        \* [Provisioners -> the request a run is about to make]
    stage,     \* [Provisioners -> which kind it is about: DeleteOrder, CreateOrder]
    at,        \* [Provisioners -> the entry of TENANT_SIP_CONFIG it is about]
    doomed,    \* [Provisioners -> ids listed and not yet deleted]
    results,   \* [Provisioners -> results, for each tenant and kind an id]
    fresh,     \* history: [Provisioners -> no other run was alive since it started]
    overlap,   \* history: two runs were alive at once
    blind,     \* history: an outbound trunk was created without a list to look in
    ruleKept   \* history: --recreate could not list or delete a rule

runVars == <<pc, stage, at, doomed, results>>
serverVars == <<objects, created>>
history == <<runs, fresh, overlap, blind, ruleKept>>
vars == <<serverVars, runVars, history>>

Objects == [id : 1..MaxId, kind : Kinds, tenant : Tenants, trunk : 0..MaxId]

TypeOK ==
    /\ objects \subseteq Objects
    /\ created \in 0..MaxId
    /\ runs \in 0..MaxRuns
    /\ pc \in [Provisioners -> {"idle", "list", "delete", "find", "create", "done"}]
    /\ stage \in [Provisioners -> 1..3]
    /\ at \in [Provisioners -> 1..Len(TENANT_SIP_CONFIG)]
    /\ doomed \in [Provisioners -> SUBSET (1..MaxId)]
    /\ results \in [Provisioners -> [Tenants -> [Kinds -> 0..MaxId]]]
    /\ fresh \in [Provisioners -> BOOLEAN]
    /\ overlap \in BOOLEAN
    /\ blind \in BOOLEAN
    /\ ruleKept \in BOOLEAN

NoResults == [t \in Tenants |-> [k \in Kinds |-> NoId]]

Init ==
    /\ objects = {}
    /\ created = 0
    /\ runs = 0
    /\ pc = [p \in Provisioners |-> "idle"]
    /\ stage = [p \in Provisioners |-> 1]
    /\ at = [p \in Provisioners |-> 1]
    /\ doomed = [p \in Provisioners |-> {}]
    /\ results = [p \in Provisioners |-> NoResults]
    /\ fresh = [p \in Provisioners |-> FALSE]
    /\ overlap = FALSE
    /\ blind = FALSE
    /\ ruleKept = FALSE

Alive(p) == pc[p] \notin {"idle", "done"}
OthersAlive(p) == \E q \in Provisioners \ {p} : Alive(q)

\* The trunks go before the rules that refer to them.
TrunksFirst == <<"inbound", "outbound", "rule">>

\* "Delete dispatch rules FIRST (they reference trunk IDs)".
DeleteOrder == <<"rule", "inbound", "outbound">>
CreateOrder == <<"inbound", "rule", "outbound">>

Tenant(p) == TENANT_SIP_CONFIG[at[p]]
Wanted(p) == CreateOrder[stage[p]]
OfKind(kind) == {o \in objects : o.kind = kind}

-----------------------------------------------------------------------------
(* The course of a run *)

Start(p) ==
    /\ ~Alive(p)
    /\ runs < MaxRuns
    /\ runs' = runs + 1
    /\ \E recreate \in BOOLEAN :
          pc' = [pc EXCEPT ![p] = IF recreate THEN "list" ELSE "find"]
    /\ stage' = [stage EXCEPT ![p] = 1]
    /\ at' = [at EXCEPT ![p] = 1]
    /\ doomed' = [doomed EXCEPT ![p] = {}]
    /\ results' = [results EXCEPT ![p] = NoResults]
    /\ fresh' = [q \in Provisioners |-> q = p /\ ~OthersAlive(p)]
    /\ overlap' = (overlap \/ OthersAlive(p))
    /\ UNCHANGED <<serverVars, blind, ruleKept>>

\* An exception that nothing catches ends the script, and so does a signal; what
\* it had obtained is forgotten.
Abort(p) ==
    /\ pc' = [pc EXCEPT ![p] = "idle"]
    /\ stage' = [stage EXCEPT ![p] = 1]
    /\ at' = [at EXCEPT ![p] = 1]
    /\ doomed' = [doomed EXCEPT ![p] = {}]
    /\ results' = [results EXCEPT ![p] = NoResults]

Killed(p) ==
    /\ Alive(p)
    /\ Abort(p)
    /\ UNCHANGED <<serverVars, history>>

-----------------------------------------------------------------------------
(* --recreate *)

\* list_dispatch_rules, list_inbound_trunks, list_outbound_trunks: [] on error.
List(p) ==
    /\ pc[p] = "list"
    /\ pc' = [pc EXCEPT ![p] = "delete"]
    /\ \E answered \in BOOLEAN :
          /\ doomed' = [doomed EXCEPT ![p] =
                 IF answered THEN {o.id : o \in OfKind(DeleteOrder[stage[p]])} ELSE {}]
          /\ ruleKept' = (ruleKept \/ (~answered /\ DeleteOrder[stage[p]] = "rule"))
    /\ UNCHANGED <<serverVars, stage, at, results, runs, fresh, overlap, blind>>

\* delete_dispatch_rule, delete_trunk: a failure is logged, the loop goes on.
Delete(p) ==
    /\ pc[p] = "delete"
    /\ \E id \in doomed[p] :
          /\ doomed' = [doomed EXCEPT ![p] = @ \ {id}]
          /\ \E deleted \in BOOLEAN :
                /\ objects' = IF deleted THEN {o \in objects : o.id # id} ELSE objects
                /\ ruleKept' = (ruleKept \/ (~deleted /\ DeleteOrder[stage[p]] = "rule"))
    /\ UNCHANGED <<created, pc, stage, at, results, runs, fresh, overlap, blind>>

\* The next kind is looked for past the end of the list.
DeletedOneTooMany(p) ==
    /\ pc[p] = "delete"
    /\ doomed[p] = {}
    /\ pc' = [pc EXCEPT ![p] = IF stage[p] <= 3 THEN "list" ELSE "find"]
    /\ stage' = [stage EXCEPT ![p] = IF stage[p] <= 3 THEN @ + 1 ELSE 1]
    /\ UNCHANGED <<serverVars, at, doomed, results, history>>

\* On to the next kind, and after the last one to the first tenant.
Deleted(p) ==
    /\ pc[p] = "delete"
    /\ doomed[p] = {}
    /\ pc' = [pc EXCEPT ![p] = IF stage[p] < 3 THEN "list" ELSE "find"]
    /\ stage' = [stage EXCEPT ![p] = IF stage[p] < 3 THEN @ + 1 ELSE 1]
    /\ UNCHANGED <<serverVars, at, doomed, results, history>>

-----------------------------------------------------------------------------
(* create_..._idempotent, for one tenant after the other *)

\* The id goes into results; the next kind, the next tenant, or the end.
Obtain(p, id) ==
    /\ results' = [results EXCEPT ![p][Tenant(p)][Wanted(p)] = id]
    /\ \/ /\ stage[p] < 3
          /\ stage' = [stage EXCEPT ![p] = @ + 1]
          /\ pc' = [pc EXCEPT ![p] = "find"]
          /\ UNCHANGED at
       \/ /\ stage[p] = 3
          /\ at[p] < Len(TENANT_SIP_CONFIG)
          /\ stage' = [stage EXCEPT ![p] = 1]
          /\ at' = [at EXCEPT ![p] = @ + 1]
          /\ pc' = [pc EXCEPT ![p] = "find"]
       \/ /\ stage[p] = 3
          /\ at[p] = Len(TENANT_SIP_CONFIG)
          /\ pc' = [pc EXCEPT ![p] = "done"]
          /\ UNCHANGED <<stage, at>>
    /\ UNCHANGED doomed

\* The first one that has the name is taken as it is.
Found(p) ==
    /\ pc[p] = "find"
    /\ \E o \in OfKind(Wanted(p)) : o.tenant = Tenant(p) /\ Obtain(p, o.id)
    /\ UNCHANGED <<serverVars, history>>

NotFound(p) ==
    /\ pc[p] = "find"
    /\ ~\E o \in OfKind(Wanted(p)) : o.tenant = Tenant(p)
    /\ pc' = [pc EXCEPT ![p] = "create"]
    /\ UNCHANGED <<serverVars, stage, at, doomed, results, history>>

\* Whatever it looked for, the run goes on to create it.
CannotLookNoMatter(p) ==
    /\ pc[p] = "find"
    /\ pc' = [pc EXCEPT ![p] = "create"]
    /\ blind' = (blind \/ Wanted(p) = "outbound")
    /\ UNCHANGED <<serverVars, stage, at, doomed, results, runs, fresh, overlap, ruleKept>>

\* The list fails: create_outbound_trunk_idempotent creates all the same, the
\* others let the error out.
CannotLook(p) ==
    /\ pc[p] = "find"
    /\ IF Wanted(p) = "outbound"
       THEN /\ blind' = TRUE
            /\ pc' = [pc EXCEPT ![p] = "create"]
            /\ UNCHANGED <<stage, at, doomed, results>>
       ELSE Abort(p) /\ UNCHANGED blind
    /\ UNCHANGED <<serverVars, runs, fresh, overlap, ruleKept>>

\* A rule refers to the trunk obtained for the same tenant.
New(p) ==
    [id |-> created + 1, kind |-> Wanted(p), tenant |-> Tenant(p),
     trunk |-> IF Wanted(p) = "rule" THEN results[p][Tenant(p)]["inbound"] ELSE NoId]

\* The answer may be lost, which is an error like a refusal.
Created(p) ==
    /\ pc[p] = "create"
    /\ created < MaxId
    /\ created' = created + 1
    /\ objects' = objects \cup {New(p)}
    /\ Obtain(p, created + 1) \/ Abort(p)
    /\ UNCHANGED history

Refused(p) ==
    /\ pc[p] = "create"
    /\ Abort(p)
    /\ UNCHANGED <<serverVars, history>>

Provision(p) ==
    \/ Found(p)
    \/ NotFound(p)
    \/ CannotLook(p)
    \/ Created(p)
    \/ Refused(p)

-----------------------------------------------------------------------------

Next ==
    \E p \in Provisioners :
        \/ Start(p)
        \/ Killed(p)
        \/ List(p)
        \/ Delete(p)
        \/ Deleted(p)
        \/ Provision(p)

Spec == Init /\ [][Next]_vars

-----------------------------------------------------------------------------
(* Properties *)

AtMostOne(kind) ==
    \A o1, o2 \in OfKind(kind) : o1.tenant = o2.tenant => o1 = o2

\* "Re-running provision_sip.py never creates duplicates", sip_trunk.py:6:
\* however many runs were killed, refused or left without an answer, a tenant has
\* one inbound trunk and one rule, unless two runs were alive at once, and one
\* outbound trunk, unless a run could not look for it.
NeverDuplicated ==
    ~overlap =>
        /\ AtMostOne("inbound")
        /\ AtMostOne("rule")
        /\ ~blind => AtMostOne("outbound")

\* What a run has obtained and will report is there, for as long as no other run
\* interferes, and the rule of a tenant refers to the tenant's trunk, so that calls
\* to its numbers reach an agent, unless an earlier --recreate left a rule behind
\* or two runs were alive at once.
ReportIsTrue ==
    \A p \in Provisioners, t \in Tenants, k \in Kinds :
        fresh[p] /\ results[p][t][k] # NoId =>
            \E o \in OfKind(k) :
                /\ o.tenant = t
                /\ o.id = results[p][t][k]
                /\ k = "rule" /\ ~ruleKept /\ ~overlap => o.trunk = results[p][t]["inbound"]
=============================================================================

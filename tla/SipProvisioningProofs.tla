------------------------ MODULE SipProvisioningProofs ------------------------
(***************************************************************************)
(* SipProvisioning for any tenants, any number of overlapping runs and any *)
(* bounds.  The argument: ids are given out once, so an id that is doomed  *)
(* names what was listed (IdsAreFresh, DoomedAreOfKind); a run that was    *)
(* never alive together with another one may rely on what it saw last      *)
(* (AloneOrOverlap): what it is about to create is still missing           *)
(* (StillMissing), what it obtained is still there (ObtainedIsThere), and  *)
(* the rules are gone before the trunks they refer to (RulesGoFirst,       *)
(* RulesRefer).                                                            *)
(***************************************************************************)
EXTENDS SipProvisioning, TLAPS

IdsAreFresh ==
    /\ \A o \in objects : o.id <= created
    /\ \A o1, o2 \in objects : o1.id = o2.id => o1 = o2
    /\ \A p \in Provisioners : \A id \in doomed[p] : id <= created

DoomedAreOfKind ==
    \A p \in Provisioners, o \in objects :
        pc[p] = "delete" /\ o.id \in doomed[p] => o.kind = DeleteOrder[stage[p]]

\* fresh is lost, and overlap set, as soon as two runs are alive.
AloneOrOverlap ==
    /\ \A p, q \in Provisioners : fresh[p] /\ p # q => ~Alive(q)
    /\ \A p \in Provisioners : Alive(p) => fresh[p] \/ overlap

\* Nothing of the kind has appeared since NotFound.
StillMissing ==
    \A p \in Provisioners :
        pc[p] = "create" /\ ~overlap /\ (Wanted(p) = "outbound" => ~blind) =>
            \A o \in OfKind(Wanted(p)) : o.tenant # Tenant(p)

\* --recreate is over before anything is obtained.
DeletesFirst ==
    \A p \in Provisioners : pc[p] \in {"list", "delete"} => results[p] = NoResults

\* The inbound trunk of a tenant is obtained before its rule.
InboundFirst ==
    \A p \in Provisioners :
        /\ pc[p] \in {"find", "create"} /\ stage[p] > 1 =>
              results[p][Tenant(p)]["inbound"] # NoId
        /\ \A t \in Tenants :
              results[p][t]["rule"] # NoId => results[p][t]["inbound"] # NoId

ObtainedIsThere ==
    \A p \in Provisioners, t \in Tenants, k \in Kinds :
        fresh[p] /\ results[p][t][k] # NoId =>
            \E o \in OfKind(k) : o.tenant = t /\ o.id = results[p][t][k]

\* Unless one was kept, every rule is gone when the trunks are deleted.
RulesGoFirst ==
    \A p \in Provisioners : ~overlap /\ ~ruleKept =>
        /\ pc[p] = "delete" /\ stage[p] = 1 => \A o \in OfKind("rule") : o.id \in doomed[p]
        /\ pc[p] \in {"list", "delete"} /\ stage[p] > 1 => OfKind("rule") = {}

RulesRefer ==
    ~overlap /\ ~ruleKept =>
        \A o \in OfKind("rule") : \E i \in OfKind("inbound") :
            i.tenant = o.tenant /\ i.id = o.trunk

IInv ==
    /\ TypeOK
    /\ IdsAreFresh
    /\ DoomedAreOfKind
    /\ AloneOrOverlap
    /\ StillMissing
    /\ NeverDuplicated
    /\ DeletesFirst
    /\ InboundFirst
    /\ ObtainedIsThere
    /\ RulesGoFirst
    /\ RulesRefer

\* Where a run stands and what it wants.
LEMMA Wants ==
    ASSUME TypeOK, NEW p \in Provisioners
    PROVE  /\ Tenant(p) \in Tenants
           /\ Wanted(p) \in Kinds
           /\ DeleteOrder[stage[p]] \in Kinds
           /\ stage[p] = 1 => Wanted(p) = "inbound" /\ DeleteOrder[stage[p]] = "rule"
           /\ stage[p] = 2 => Wanted(p) = "rule" /\ DeleteOrder[stage[p]] = "inbound"
           /\ stage[p] = 3 => Wanted(p) = "outbound" /\ DeleteOrder[stage[p]] = "outbound"
           /\ stage[p] \in {1, 2, 3}
<1>1. stage[p] \in {1, 2, 3} /\ at[p] \in 1..Len(TENANT_SIP_CONFIG)
    BY DEF TypeOK
<1> QED
    BY <1>1 DEF Tenant, Tenants, Wanted, Kinds, DeleteOrder, CreateOrder

\* Nothing is obtained at first.
LEMMA NothingObtained ==
    /\ NoResults \in [Tenants -> [Kinds -> 0..MaxId]]
    /\ \A t \in Tenants, k \in Kinds : NoResults[t][k] = NoId
    BY SipAssumption DEF NoResults, NoId

LEMMA InitIInv == Init => IInv
<1> SUFFICES ASSUME Init PROVE IInv
    OBVIOUS
<1>1. 1 \in 1..Len(TENANT_SIP_CONFIG)
    BY SipAssumption
<1>2. results \in [Provisioners -> [Tenants -> [Kinds -> 0..MaxId]]]
    BY NothingObtained DEF Init
<1>7. TypeOK
    <2>1. /\ pc \in [Provisioners -> {"idle", "list", "delete", "find", "create", "done"}]
          /\ stage \in [Provisioners -> 1..3]
          /\ at \in [Provisioners -> 1..Len(TENANT_SIP_CONFIG)]
        BY <1>1 DEF Init
    <2>2. /\ doomed \in [Provisioners -> SUBSET (1..MaxId)]
          /\ fresh \in [Provisioners -> BOOLEAN]
        BY DEF Init
    <2>3. objects \subseteq Objects /\ created \in 0..MaxId /\ runs \in 0..MaxRuns
        BY SipAssumption DEF Init
    <2>4. overlap \in BOOLEAN /\ blind \in BOOLEAN /\ ruleKept \in BOOLEAN
        BY DEF Init
    <2> QED
        BY <1>2, <2>1, <2>2, <2>3, <2>4 DEF TypeOK
<1>3. IdsAreFresh /\ DoomedAreOfKind /\ AloneOrOverlap /\ StillMissing
    BY DEF Init, IdsAreFresh, DoomedAreOfKind, AloneOrOverlap, StillMissing, Alive, OfKind
<1>4. NeverDuplicated /\ DeletesFirst /\ RulesGoFirst /\ RulesRefer
    BY DEF Init, NeverDuplicated, AtMostOne, DeletesFirst, RulesGoFirst, RulesRefer, OfKind
<1>5. InboundFirst /\ ObtainedIsThere
    BY NothingObtained DEF Init, InboundFirst, ObtainedIsThere, Kinds
<1> QED
    BY <1>7, <1>3, <1>4, <1>5 DEF IInv


\* What Abort does, point by point.
Aborted(p) ==
    /\ pc'[p] = "idle" /\ doomed'[p] = {} /\ results'[p] = NoResults
    /\ pc' \in [Provisioners -> {"idle", "list", "delete", "find", "create", "done"}]
    /\ stage' \in [Provisioners -> 1..3]
    /\ at' \in [Provisioners -> 1..Len(TENANT_SIP_CONFIG)]
    /\ doomed' \in [Provisioners -> SUBSET (1..MaxId)]
    /\ results' \in [Provisioners -> [Tenants -> [Kinds -> 0..MaxId]]]
    /\ \A q \in Provisioners \ {p} :
          /\ pc'[q] = pc[q] /\ stage'[q] = stage[q] /\ at'[q] = at[q]
          /\ doomed'[q] = doomed[q] /\ results'[q] = results[q]

LEMMA Aborts ==
    ASSUME TypeOK, NEW p \in Provisioners, Abort(p)
    PROVE  Aborted(p)
<1>1. 1 \in 1..Len(TENANT_SIP_CONFIG)
    BY SipAssumption
<1> QED
    BY <1>1, NothingObtained DEF TypeOK, Abort, Aborted

\* What Obtain does, point by point.
Obtained(p, id) ==
    /\ pc' \in [Provisioners -> {"idle", "list", "delete", "find", "create", "done"}]
    /\ stage' \in [Provisioners -> 1..3]
    /\ at' \in [Provisioners -> 1..Len(TENANT_SIP_CONFIG)]
    /\ doomed' = doomed
    /\ results' \in [Provisioners -> [Tenants -> [Kinds -> 0..MaxId]]]
    /\ \A q \in Provisioners \ {p} :
          /\ pc'[q] = pc[q] /\ stage'[q] = stage[q] /\ at'[q] = at[q]
          /\ results'[q] = results[q]
    /\ \A t \in Tenants, k \in Kinds :
          results'[p][t][k] = IF t = Tenant(p) /\ k = Wanted(p) THEN id
                              ELSE results[p][t][k]
    /\ \/ pc'[p] = "done"
       \/ pc'[p] = "find" /\ stage'[p] = 1
       \/ /\ pc'[p] = "find" /\ stage[p] < 3 /\ stage'[p] = stage[p] + 1
          /\ at'[p] = at[p]

LEMMA Obtains ==
    ASSUME TypeOK, NEW p \in Provisioners, NEW id \in 1..MaxId, Obtain(p, id)
    PROVE  Obtained(p, id)
<1>1. Tenant(p) \in Tenants /\ Wanted(p) \in Kinds
    BY Wants
<1>2. results' = [results EXCEPT ![p][Tenant(p)][Wanted(p)] = id]
    BY DEF Obtain
<1>3. results' \in [Provisioners -> [Tenants -> [Kinds -> 0..MaxId]]]
    <2>1. [results[p] EXCEPT ![Tenant(p)][Wanted(p)] = id] \in [Tenants -> [Kinds -> 0..MaxId]]
        <3>1. results[p] \in [Tenants -> [Kinds -> 0..MaxId]]
            BY DEF TypeOK
        <3>2. [results[p][Tenant(p)] EXCEPT ![Wanted(p)] = id] \in [Kinds -> 0..MaxId]
            BY <1>1, <3>1, SipAssumption
        <3> QED
            BY <1>1, <3>1, <3>2
    <2> QED
        BY <1>2, <2>1 DEF TypeOK
<1>4. \A t \in Tenants, k \in Kinds :
          results'[p][t][k] = IF t = Tenant(p) /\ k = Wanted(p) THEN id ELSE results[p][t][k]
    BY <1>1, <1>2 DEF TypeOK
<1>5. \A q \in Provisioners \ {p} : results'[q] = results[q]
    BY <1>2 DEF TypeOK
<1>6. stage[p] \in 1..3 /\ at[p] \in 1..Len(TENANT_SIP_CONFIG) /\ Len(TENANT_SIP_CONFIG) \in Nat
    BY SipAssumption DEF TypeOK
<1>7. /\ pc' \in [Provisioners -> {"idle", "list", "delete", "find", "create", "done"}]
      /\ stage' \in [Provisioners -> 1..3]
      /\ at' \in [Provisioners -> 1..Len(TENANT_SIP_CONFIG)]
    <2>1. CASE stage[p] < 3
        <3>1. stage[p] + 1 \in 1..3
            BY <1>6, <2>1
        <3>2. /\ stage' = [stage EXCEPT ![p] = stage[p] + 1]
              /\ at' = at
              /\ pc' = [pc EXCEPT ![p] = "find"]
            BY <1>6, <2>1 DEF Obtain
        <3> QED
            BY <3>1, <3>2 DEF TypeOK
    <2>2. CASE stage[p] = 3 /\ at[p] < Len(TENANT_SIP_CONFIG)
        <3>1. at[p] + 1 \in 1..Len(TENANT_SIP_CONFIG)
            BY <1>6, <2>2
        <3>2. /\ stage' = [stage EXCEPT ![p] = 1]
              /\ at' = [at EXCEPT ![p] = at[p] + 1]
              /\ pc' = [pc EXCEPT ![p] = "find"]
            BY <1>6, <2>2 DEF Obtain
        <3> QED
            BY <3>1, <3>2 DEF TypeOK
    <2>3. CASE stage[p] = 3 /\ at[p] = Len(TENANT_SIP_CONFIG)
        BY <1>6, <2>3 DEF TypeOK, Obtain
    <2> QED
        BY <1>6, <2>1, <2>2, <2>3
<1>8. \A q \in Provisioners \ {p} : pc'[q] = pc[q] /\ stage'[q] = stage[q] /\ at'[q] = at[q]
    BY <1>6 DEF TypeOK, Obtain
<1>9. \/ pc'[p] = "done"
      \/ pc'[p] = "find" /\ stage'[p] = 1
      \/ /\ pc'[p] = "find" /\ stage[p] < 3 /\ stage'[p] = stage[p] + 1
         /\ at'[p] = at[p]
    BY <1>6 DEF TypeOK, Obtain
<1>10. doomed' = doomed
    BY DEF Obtain
<1> QED
    BY <1>3, <1>4, <1>5, <1>7, <1>8, <1>9, <1>10 DEF Obtained

\* A run starts: it is alone, or overlap is set.
LEMMA StartKeeps ==
    ASSUME IInv, NEW p \in Provisioners, Start(p)
    PROVE  IInv'
<1>1. TypeOK'
    BY NothingObtained, SipAssumption
    DEF IInv, Start, serverVars, Alive, OthersAlive, TypeOK
<1>2. /\ IdsAreFresh'
      /\ DoomedAreOfKind'
    BY DEF IInv, Start, serverVars, IdsAreFresh, DoomedAreOfKind, TypeOK
<1>3. AloneOrOverlap'
    BY DEF IInv, Start, Alive, OthersAlive, AloneOrOverlap, TypeOK
<1>4. StillMissing'
    BY DEF IInv, Start, serverVars, StillMissing, OfKind, Wanted, Tenant, TypeOK
<1>5. NeverDuplicated'
    BY DEF IInv, Start, serverVars, NeverDuplicated, AtMostOne, OfKind
<1>6. DeletesFirst'
    BY DEF IInv, Start, DeletesFirst, TypeOK
<1>7. InboundFirst'
    BY NothingObtained DEF IInv, Start, InboundFirst, Tenant, TypeOK, Kinds
<1>8. ObtainedIsThere'
    <2>1. \A q \in Provisioners : fresh'[q] => q = p
        BY DEF Start
    <2>2. results'[p] = NoResults
        BY DEF IInv, Start, TypeOK
    <2> QED
        BY <2>1, <2>2, NothingObtained DEF ObtainedIsThere
<1>9. RulesGoFirst'
    BY DEF IInv, Start, serverVars, RulesGoFirst, OfKind, TypeOK
<1>10. RulesRefer'
    BY DEF IInv, Start, serverVars, RulesRefer, OfKind
<1> QED
    BY <1>1, <1>2, <1>3, <1>4, <1>5, <1>6, <1>7, <1>8, <1>9, <1>10 DEF IInv

\* A run that ends leaves the server as it is.
LEMMA AbortKeeps ==
    ASSUME IInv, NEW p \in Provisioners, Abort(p), UNCHANGED <<serverVars, history>>
    PROVE  IInv'
<1>1. Aborted(p)
    BY Aborts DEF IInv
<1>2. TypeOK'
    BY <1>1 DEF IInv, TypeOK, Aborted, serverVars, history
<1>3. IdsAreFresh' /\ DoomedAreOfKind'
    <2>1. UNCHANGED <<objects, created>>
        BY DEF serverVars
    <2>2. \A q \in Provisioners : doomed'[q] = {} \/ doomed'[q] = doomed[q]
        BY <1>1 DEF Aborted
    <2>3. \A q \in Provisioners : pc'[q] = "idle" \/ (pc'[q] = pc[q] /\ stage'[q] = stage[q])
        BY <1>1 DEF Aborted
    <2>4. IdsAreFresh'
        BY <2>1, <2>2 DEF IInv, IdsAreFresh
    <2>5. DoomedAreOfKind'
        BY <2>1, <2>2, <2>3 DEF IInv, DoomedAreOfKind
    <2> QED
        BY <2>4, <2>5
<1>4. AloneOrOverlap'
    BY <1>1 DEF IInv, AloneOrOverlap, Alive, Aborted, history
<1>5. StillMissing'
    <2> SUFFICES ASSUME NEW q \in Provisioners, pc'[q] = "create", ~overlap',
                        Wanted(q)' = "outbound" => ~blind'
                 PROVE  \A o \in OfKind(Wanted(q))' : o.tenant # Tenant(q)'
        BY DEF StillMissing
    <2>1. q # p
        BY <1>1 DEF Aborted
    <2>2. UNCHANGED <<Wanted(q), Tenant(q)>> /\ pc[q] = "create"
        BY <1>1, <2>1 DEF Aborted, Wanted, Tenant
    <2>3. UNCHANGED <<objects, overlap, blind>>
        BY DEF serverVars, history
    <2> QED
        BY <2>2, <2>3 DEF IInv, StillMissing, OfKind
<1>6. NeverDuplicated'
    BY DEF IInv, NeverDuplicated, AtMostOne, OfKind, serverVars, history
<1>7. DeletesFirst' /\ InboundFirst'
    <2>1. DeletesFirst'
        BY <1>1 DEF IInv, DeletesFirst, Aborted
    <2>2. \A q \in Provisioners \ {p} : Tenant(q)' = Tenant(q)
        BY <1>1 DEF Aborted, Tenant
    <2>3. \A t \in Tenants : results'[p][t]["rule"] = NoId
        BY <1>1, NothingObtained DEF Aborted, Kinds
    <2>4. ASSUME NEW q \in Provisioners
          PROVE  /\ pc'[q] \in {"find", "create"} /\ stage'[q] > 1 =>
                       results'[q][Tenant(q)']["inbound"] # NoId
                 /\ \A t \in Tenants :
                       results'[q][t]["rule"] # NoId => results'[q][t]["inbound"] # NoId
        <3>1. CASE q = p
            BY <1>1, <2>3, <3>1 DEF Aborted
        <3>2. CASE q # p
            <4>1. /\ pc'[q] = pc[q] /\ stage'[q] = stage[q]
                  /\ results'[q] = results[q] /\ Tenant(q)' = Tenant(q)
                BY <1>1, <2>2, <3>2 DEF Aborted
            <4> QED
                BY <4>1 DEF IInv, InboundFirst
        <3> QED
            BY <3>1, <3>2
    <2>5. InboundFirst'
        BY <2>4 DEF InboundFirst
    <2> QED
        BY <2>1, <2>5
<1>8. ObtainedIsThere'
    <2>1. UNCHANGED <<objects, fresh>>
        BY DEF serverVars, history
    <2>2. \A k \in Kinds : OfKind(k)' = OfKind(k)
        BY <2>1 DEF OfKind
    <2>3. \A t \in Tenants, k \in Kinds : results'[p][t][k] = NoId
        BY <1>1, NothingObtained DEF Aborted
    <2>4. ASSUME NEW q \in Provisioners, NEW t \in Tenants, NEW k \in Kinds,
                 fresh'[q], results'[q][t][k] # NoId
          PROVE  \E o \in OfKind(k)' : o.tenant = t /\ o.id = results'[q][t][k]
        <3>1. q # p
            BY <2>3, <2>4
        <3>2. results'[q] = results[q]
            BY <1>1, <3>1 DEF Aborted
        <3> QED
            BY <2>1, <2>2, <2>4, <3>2 DEF IInv, ObtainedIsThere
    <2> QED
        BY <2>4 DEF ObtainedIsThere
<1>9. RulesGoFirst' /\ RulesRefer'
    BY <1>1 DEF IInv, RulesGoFirst, RulesRefer, OfKind, Aborted, serverVars, history
<1> QED
    BY <1>2, <1>3, <1>4, <1>5, <1>6, <1>7, <1>8, <1>9 DEF IInv

\* What is listed is what is there, by ids nothing else has.
LEMMA ListKeeps ==
    ASSUME IInv, NEW p \in Provisioners, List(p)
    PROVE  IInv'
<1> DEFINE kind == DeleteOrder[stage[p]]
           listed == {o.id : o \in OfKind(kind)}
<1>1. /\ pc[p] = "list" /\ pc' = [pc EXCEPT ![p] = "delete"]
      /\ UNCHANGED <<objects, created, stage, at, results, runs, fresh, overlap, blind>>
      /\ \/ doomed' = [doomed EXCEPT ![p] = listed] /\ ruleKept' = ruleKept
         \/ /\ doomed' = [doomed EXCEPT ![p] = {}]
            /\ ruleKept' = (ruleKept \/ kind = "rule")
    BY DEF IInv, TypeOK, List, serverVars
<1>2. /\ \A o \in objects : o.id \in listed => o.kind = kind
      /\ \A o \in OfKind(kind) : o.id \in listed
      /\ \A id \in listed : id <= created /\ id \in 1..MaxId
    BY DEF IInv, IdsAreFresh, TypeOK, OfKind, Objects
<1>3. ruleKept' \in BOOLEAN /\ (ruleKept => ruleKept')
    BY <1>1 DEF IInv, TypeOK
<1> HIDE DEF listed
<1>4. TypeOK'
    BY <1>1, <1>2, <1>3 DEF IInv, TypeOK
<1>5. IdsAreFresh'
    BY <1>1, <1>2 DEF IInv, IdsAreFresh, TypeOK
<1>6. DoomedAreOfKind'
    BY <1>1, <1>2 DEF IInv, DoomedAreOfKind, TypeOK
<1>7. AloneOrOverlap'
    BY <1>1 DEF IInv, AloneOrOverlap, Alive, TypeOK
<1>8. StillMissing'
    BY <1>1 DEF IInv, StillMissing, OfKind, Wanted, Tenant, TypeOK
<1>9. NeverDuplicated'
    BY <1>1 DEF IInv, NeverDuplicated, AtMostOne, OfKind
<1>10. DeletesFirst' /\ InboundFirst'
    BY <1>1 DEF IInv, DeletesFirst, InboundFirst, Tenant, TypeOK
<1>11. ObtainedIsThere'
    BY <1>1 DEF IInv, ObtainedIsThere, OfKind
<1>12. RulesGoFirst'
    <2> SUFFICES ASSUME NEW q \in Provisioners, ~overlap', ~ruleKept'
                 PROVE  /\ pc'[q] = "delete" /\ stage'[q] = 1 =>
                              \A o \in OfKind("rule")' : o.id \in doomed'[q]
                        /\ pc'[q] \in {"list", "delete"} /\ stage'[q] > 1 => OfKind("rule")' = {}
        BY DEF RulesGoFirst
    <2>1. OfKind("rule")' = OfKind("rule") /\ ~overlap /\ ~ruleKept
        BY <1>1, <1>3 DEF OfKind
    <2>2. CASE q = p
        <3>1. stage[p] = 1 => kind = "rule"
            BY Wants DEF IInv
        <3> HIDE DEF kind
        <3>2. stage[p] = 1 => doomed'[p] = listed
            BY <1>1, <1>3, <3>1 DEF IInv, TypeOK
        <3>3. stage[p] > 1 => OfKind("rule") = {}
            BY <1>1, <2>1 DEF IInv, RulesGoFirst
        <3> QED
            BY <1>1, <1>2, <2>1, <2>2, <3>1, <3>2, <3>3
    <2>3. CASE q # p
        BY <1>1, <2>1, <2>3 DEF IInv, TypeOK, RulesGoFirst
    <2> QED
        BY <2>2, <2>3
<1>13. RulesRefer'
    BY <1>1, <1>3 DEF IInv, RulesRefer, OfKind
<1> QED
    BY <1>4, <1>5, <1>6, <1>7, <1>8, <1>9, <1>10, <1>11, <1>12, <1>13 DEF IInv

\* Only what was listed is deleted; the rules go first.
LEMMA DeleteKeeps ==
    ASSUME IInv, NEW p \in Provisioners, Delete(p)
    PROVE  IInv'
<1>1. PICK id \in doomed[p] :
          /\ doomed' = [doomed EXCEPT ![p] = @ \ {id}]
          /\ \E deleted \in BOOLEAN :
                /\ objects' = IF deleted THEN {o \in objects : o.id # id} ELSE objects
                /\ ruleKept' = (ruleKept \/ (~deleted /\ DeleteOrder[stage[p]] = "rule"))
    BY DEF Delete
<1>2. /\ pc[p] = "delete"
      /\ UNCHANGED <<created, pc, stage, at, results, runs, fresh, overlap, blind>>
    BY DEF Delete
<1>3. /\ objects' \subseteq objects
      /\ \A o \in objects \ objects' : o.id = id /\ o.kind = DeleteOrder[stage[p]]
      /\ ruleKept' \in BOOLEAN /\ (ruleKept => ruleKept')
      /\ \/ objects' = {o \in objects : o.id # id}
         \/ objects' = objects /\ (DeleteOrder[stage[p]] = "rule" => ruleKept')
    BY <1>1, <1>2 DEF IInv, TypeOK, DoomedAreOfKind
<1>4. \A k \in Kinds : OfKind(k)' \subseteq OfKind(k)
    BY <1>3 DEF OfKind
<1>5. \A q \in Provisioners : doomed'[q] \subseteq doomed[q] /\ (q # p => doomed'[q] = doomed[q])
    BY <1>1 DEF IInv, TypeOK
<1>6. \A q \in Provisioners : UNCHANGED <<Wanted(q), Tenant(q)>>
    BY <1>2 DEF Wanted, Tenant
<1>7. TypeOK'
    BY <1>1, <1>2, <1>3 DEF IInv, TypeOK
<1>8. IdsAreFresh'
    BY <1>2, <1>3, <1>5 DEF IInv, IdsAreFresh
<1>9. DoomedAreOfKind'
    BY <1>2, <1>3, <1>5 DEF IInv, DoomedAreOfKind
<1>10. AloneOrOverlap'
    BY <1>2 DEF IInv, AloneOrOverlap, Alive
<1>11. StillMissing'
    BY <1>2, <1>4, <1>6, Wants DEF IInv, StillMissing
<1>12. NeverDuplicated'
    BY <1>2, <1>4 DEF IInv, NeverDuplicated, AtMostOne, Kinds
<1>13. DeletesFirst' /\ InboundFirst'
    BY <1>2, <1>6 DEF IInv, DeletesFirst, InboundFirst
<1>14. ObtainedIsThere'
    <2> SUFFICES ASSUME NEW q \in Provisioners, NEW t \in Tenants, NEW k \in Kinds,
                        fresh'[q], results'[q][t][k] # NoId
                 PROVE  FALSE
        BY DEF ObtainedIsThere
    <2>1. q = p
        BY <1>2 DEF IInv, AloneOrOverlap, Alive
    <2> QED
        BY <1>2, <2>1, NothingObtained DEF IInv, DeletesFirst
<1>15. RulesGoFirst'
    <2> SUFFICES ASSUME NEW q \in Provisioners, ~overlap', ~ruleKept'
                 PROVE  /\ pc'[q] = "delete" /\ stage'[q] = 1 =>
                              \A o \in OfKind("rule")' : o.id \in doomed'[q]
                        /\ pc'[q] \in {"list", "delete"} /\ stage'[q] > 1 => OfKind("rule")' = {}
        BY DEF RulesGoFirst
    <2>1. OfKind("rule")' \subseteq OfKind("rule") /\ ~overlap /\ ~ruleKept
        BY <1>2, <1>3, <1>4 DEF Kinds
    <2>2. pc'[q] \in {"list", "delete"} /\ stage'[q] > 1 => OfKind("rule")' = {}
        BY <1>2, <2>1 DEF IInv, RulesGoFirst
    <2>3. ASSUME pc'[q] = "delete", stage'[q] = 1, NEW o \in OfKind("rule")'
          PROVE  o.id \in doomed'[q]
        <3>1. q = p
            BY <1>2, <2>1, <2>3 DEF IInv, AloneOrOverlap, Alive
        <3>2. DeleteOrder[stage[p]] = "rule"
            BY <1>2, <2>3, <3>1, Wants DEF IInv
        <3>3. o.id # id
            BY <1>3, <2>3, <3>2 DEF OfKind
        <3>4. o.id \in doomed[p]
            BY <1>2, <2>1, <2>3, <3>1 DEF IInv, RulesGoFirst
        <3> QED
            BY <1>1, <3>1, <3>3, <3>4 DEF IInv, TypeOK
    <2> QED
        BY <2>2, <2>3
<1>16. RulesRefer'
    <2> SUFFICES ASSUME ~overlap', ~ruleKept', NEW o \in OfKind("rule")'
                 PROVE  \E i \in OfKind("inbound")' : i.tenant = o.tenant /\ i.id = o.trunk
        BY DEF RulesRefer
    <2>1. o \in OfKind("rule") /\ ~overlap /\ ~ruleKept
        BY <1>2, <1>3, <1>4 DEF Kinds
    <2>2. PICK i \in OfKind("inbound") : i.tenant = o.tenant /\ i.id = o.trunk
        BY <2>1 DEF IInv, RulesRefer
    <2>3. stage[p] = 1
        BY <1>2, <2>1, Wants DEF IInv, RulesGoFirst
    <2>4. DeleteOrder[stage[p]] = "rule"
        BY <2>3, Wants DEF IInv
    <2>5. i \in objects'
        BY <1>3, <2>4 DEF OfKind
    <2> QED
        BY <2>2, <2>5 DEF OfKind
<1> QED
    BY <1>7, <1>8, <1>9, <1>10, <1>11, <1>12, <1>13, <1>14, <1>15, <1>16 DEF IInv

\* The next kind, or the first tenant.
LEMMA DeletedKeeps ==
    ASSUME IInv, NEW p \in Provisioners, Deleted(p)
    PROVE  IInv'
<1>1. /\ pc[p] = "delete" /\ doomed[p] = {}
      /\ UNCHANGED <<objects, created, at, doomed, results, runs, fresh, overlap, blind, ruleKept>>
    BY DEF Deleted, serverVars, history
<1>2. \/ stage[p] < 3 /\ pc'[p] = "list" /\ stage'[p] = stage[p] + 1
      \/ stage[p] = 3 /\ pc'[p] = "find" /\ stage'[p] = 1
    <2>1. stage[p] \in {1, 2, 3}
        BY Wants DEF IInv
    <2>2. CASE stage[p] < 3
        BY <2>2 DEF IInv, TypeOK, Deleted
    <2>3. CASE stage[p] = 3
        BY <2>3 DEF IInv, TypeOK, Deleted
    <2> QED
        BY <2>1, <2>2, <2>3
<1>3. \A q \in Provisioners \ {p} : pc'[q] = pc[q] /\ stage'[q] = stage[q]
    BY DEF IInv, TypeOK, Deleted
<1>4. \A k \in Kinds : OfKind(k)' = OfKind(k)
    BY <1>1 DEF OfKind
<1>5. \A q \in Provisioners : Tenant(q)' = Tenant(q)
    BY <1>1 DEF Tenant
<1>6. \A q \in Provisioners \ {p} : Wanted(q)' = Wanted(q)
    BY <1>3 DEF Wanted
<1>7. TypeOK'
    <2>1. stage' \in [Provisioners -> 1..3]
        <3>1. (IF stage[p] < 3 THEN stage[p] + 1 ELSE 1) \in 1..3
            BY Wants DEF IInv
        <3>2. stage' = [stage EXCEPT ![p] = IF stage[p] < 3 THEN stage[p] + 1 ELSE 1]
            BY DEF Deleted
        <3> QED
            BY <3>1, <3>2 DEF IInv, TypeOK
    <2>2. pc' \in [Provisioners -> {"idle", "list", "delete", "find", "create", "done"}]
        BY DEF IInv, TypeOK, Deleted
    <2> QED
        BY <1>1, <2>1, <2>2 DEF IInv, TypeOK
<1>8. IdsAreFresh'
    BY <1>1 DEF IInv, IdsAreFresh
<1>9. DoomedAreOfKind'
    BY <1>1, <1>2, <1>3 DEF IInv, DoomedAreOfKind
<1>10. AloneOrOverlap'
    BY <1>1, <1>2, <1>3 DEF IInv, AloneOrOverlap, Alive
<1>11. StillMissing'
    BY <1>1, <1>2, <1>3, <1>4, <1>5, <1>6, Wants DEF IInv, StillMissing
<1>12. NeverDuplicated'
    BY <1>1, <1>4 DEF IInv, NeverDuplicated, AtMostOne, Kinds
<1>13. DeletesFirst'
    BY <1>1, <1>2, <1>3 DEF IInv, DeletesFirst
<1>14. InboundFirst'
    BY <1>1, <1>2, <1>3, <1>5 DEF IInv, InboundFirst
<1>15. ObtainedIsThere'
    BY <1>1, <1>4 DEF IInv, ObtainedIsThere
<1>16. RulesGoFirst'
    <2> SUFFICES ASSUME NEW q \in Provisioners, ~overlap', ~ruleKept'
                 PROVE  /\ pc'[q] = "delete" /\ stage'[q] = 1 =>
                              \A o \in OfKind("rule")' : o.id \in doomed'[q]
                        /\ pc'[q] \in {"list", "delete"} /\ stage'[q] > 1 => OfKind("rule")' = {}
        BY DEF RulesGoFirst
    <2>1. OfKind("rule")' = OfKind("rule") /\ ~overlap /\ ~ruleKept
        BY <1>1, <1>4 DEF Kinds
    <2>2. CASE q = p
        <3>1. OfKind("rule") = {}
            BY <1>1, <2>1, Wants DEF IInv, RulesGoFirst
        <3> QED
            BY <2>1, <3>1
    <2>3. CASE q # p
        BY <1>1, <1>3, <2>1, <2>3 DEF IInv, RulesGoFirst
    <2> QED
        BY <2>2, <2>3
<1>17. RulesRefer'
    BY <1>1, <1>4 DEF IInv, RulesRefer, Kinds
<1> QED
    BY <1>7, <1>8, <1>9, <1>10, <1>11, <1>12, <1>13, <1>14, <1>15, <1>16, <1>17 DEF IInv

\* What a run obtains by id, found or created, if every fact about the server that
\* it relies on holds after the step.
LEMMA ObtainKeeps ==
    ASSUME IInv, NEW p \in Provisioners, NEW id \in 1..MaxId, Obtain(p, id),
           pc[p] \in {"find", "create"}, UNCHANGED history,
           \A k \in Kinds : OfKind(k) \subseteq OfKind(k)',
           \E o \in objects' : o.kind = Wanted(p) /\ o.tenant = Tenant(p) /\ o.id = id
    PROVE  /\ AloneOrOverlap'
           /\ DeletesFirst'
           /\ InboundFirst'
           /\ ObtainedIsThere'
           /\ \A q \in Provisioners :
                 /\ pc'[q] = "create" \/ pc'[q] = "delete" \/ pc'[q] = "list" =>
                       /\ q # p /\ pc'[q] = pc[q] /\ stage'[q] = stage[q]
                       /\ UNCHANGED <<Wanted(q), Tenant(q)>>
<1>1. Obtained(p, id)
    BY Obtains DEF IInv
<1>2. id # NoId
    BY DEF NoId
<1>3. \A q \in Provisioners \ {p} : UNCHANGED <<Wanted(q), Tenant(q)>>
    BY <1>1 DEF Obtained, Wanted, Tenant
<1>4. pc'[p] \in {"find", "done"}
    BY <1>1 DEF Obtained
<1>5. AloneOrOverlap'
    BY <1>1, <1>4 DEF IInv, AloneOrOverlap, Alive, Obtained, history
<1>6. DeletesFirst'
    BY <1>1, <1>4 DEF IInv, DeletesFirst, Obtained
<1>7. InboundFirst'
    <2> SUFFICES ASSUME NEW q \in Provisioners
                 PROVE  /\ pc'[q] \in {"find", "create"} /\ stage'[q] > 1 =>
                              results'[q][Tenant(q)']["inbound"] # NoId
                        /\ \A t \in Tenants :
                              results'[q][t]["rule"] # NoId => results'[q][t]["inbound"] # NoId
        BY DEF InboundFirst
    <2>1. CASE q # p
        <3>1. /\ pc'[q] = pc[q] /\ stage'[q] = stage[q]
              /\ results'[q] = results[q] /\ Tenant(q)' = Tenant(q)
            BY <1>1, <1>3, <2>1 DEF Obtained
        <3> QED
            BY <3>1 DEF IInv, InboundFirst
    <2>2. CASE q = p
        <3>1. \A t \in Tenants : results[p][t]["inbound"] # NoId => results'[p][t]["inbound"] # NoId
            BY <1>1, <1>2 DEF Obtained, Kinds
        <3>2. stage[p] = 1 => results'[p][Tenant(p)]["inbound"] # NoId
            BY <1>1, <1>2, Wants DEF IInv, Obtained, Kinds
        <3>3. stage[p] > 1 => results'[p][Tenant(p)]["inbound"] # NoId
            BY <3>1, Wants DEF IInv, InboundFirst
        <3>4. results'[p][Tenant(p)]["inbound"] # NoId
            BY <3>2, <3>3, Wants DEF IInv
        <3>5. pc'[p] \in {"find", "create"} /\ stage'[p] > 1 => Tenant(p)' = Tenant(p)
            BY <1>1 DEF Obtained, Tenant
        <3>6. ASSUME NEW t \in Tenants, results'[p][t]["rule"] # NoId
              PROVE  results'[p][t]["inbound"] # NoId
            <4>1. CASE t = Tenant(p)
                BY <3>4, <4>1
            <4>2. CASE t # Tenant(p)
                BY <1>1, <3>1, <3>6, <4>2 DEF IInv, InboundFirst, Obtained, Kinds
            <4> QED
                BY <4>1, <4>2
        <3> QED
            BY <2>2, <3>4, <3>5, <3>6
    <2> QED
        BY <2>1, <2>2
<1>8. ObtainedIsThere'
    <2> SUFFICES ASSUME NEW q \in Provisioners, NEW t \in Tenants, NEW k \in Kinds,
                        fresh'[q], results'[q][t][k] # NoId
                 PROVE  \E o \in OfKind(k)' : o.tenant = t /\ o.id = results'[q][t][k]
        BY DEF ObtainedIsThere
    <2>1. fresh[q]
        BY DEF history
    <2>2. CASE results'[q][t][k] = results[q][t][k]
        BY <2>1, <2>2 DEF IInv, ObtainedIsThere
    <2>3. CASE results'[q][t][k] # results[q][t][k]
        <3>1. q = p /\ t = Tenant(p) /\ k = Wanted(p) /\ results'[q][t][k] = id
            BY <1>1, <2>3 DEF Obtained
        <3>2. PICK o \in objects' : o.kind = Wanted(p) /\ o.tenant = Tenant(p) /\ o.id = id
            OBVIOUS
        <3>3. o \in OfKind(k)'
            BY <3>1, <3>2 DEF OfKind
        <3> QED
            BY <3>1, <3>2, <3>3
    <2> QED
        BY <2>2, <2>3
<1>9. ASSUME NEW q \in Provisioners, pc'[q] = "create" \/ pc'[q] = "delete" \/ pc'[q] = "list"
      PROVE  /\ q # p /\ pc'[q] = pc[q] /\ stage'[q] = stage[q]
             /\ UNCHANGED <<Wanted(q), Tenant(q)>>
    BY <1>1, <1>3, <1>4, <1>9 DEF Obtained
<1> QED
    BY <1>5, <1>6, <1>7, <1>8, <1>9

\* What is found is there.
LEMMA FoundKeeps ==
    ASSUME IInv, NEW p \in Provisioners, Found(p)
    PROVE  IInv'
<1>1. PICK o \in OfKind(Wanted(p)) : o.tenant = Tenant(p) /\ Obtain(p, o.id)
    BY DEF Found
<1>2. o \in objects /\ o.kind = Wanted(p) /\ o.id \in 1..MaxId
    BY DEF IInv, TypeOK, OfKind, Objects
<1>3. pc[p] = "find" /\ UNCHANGED <<objects, created>> /\ UNCHANGED history
    BY DEF Found, serverVars
<1>4. \A k \in Kinds : OfKind(k)' = OfKind(k)
    BY <1>3 DEF OfKind
<1>5. Obtained(p, o.id)
    BY <1>1, <1>2, Obtains DEF IInv
<1>6. /\ AloneOrOverlap' /\ DeletesFirst' /\ InboundFirst' /\ ObtainedIsThere'
      /\ \A q \in Provisioners :
            /\ pc'[q] = "create" \/ pc'[q] = "delete" \/ pc'[q] = "list" =>
                  /\ q # p /\ pc'[q] = pc[q] /\ stage'[q] = stage[q]
                  /\ UNCHANGED <<Wanted(q), Tenant(q)>>
    <2>1. \E x \in objects' : x.kind = Wanted(p) /\ x.tenant = Tenant(p) /\ x.id = o.id
        BY <1>1, <1>2, <1>3
    <2>2. \A k \in Kinds : OfKind(k) \subseteq OfKind(k)'
        BY <1>4
    <2> QED
        BY <1>1, <1>2, <1>3, <2>1, <2>2, ObtainKeeps
<1>7. TypeOK'
    BY <1>3, <1>5 DEF IInv, TypeOK, Obtained, history
<1>8. IdsAreFresh'
    BY <1>3, <1>5 DEF IInv, IdsAreFresh, Obtained
<1>9. DoomedAreOfKind'
    <2>1. \A q \in Provisioners : pc'[q] = "delete" =>
              pc[q] = "delete" /\ stage'[q] = stage[q] /\ doomed'[q] = doomed[q]
        BY <1>5, <1>6 DEF Obtained
    <2> QED
        BY <1>3, <2>1 DEF IInv, DoomedAreOfKind
<1>10. StillMissing'
    BY <1>3, <1>4, <1>6, Wants DEF IInv, StillMissing, history
<1>11. NeverDuplicated'
    BY <1>3, <1>4 DEF IInv, NeverDuplicated, AtMostOne, Kinds, history
<1>12. RulesGoFirst'
    BY <1>3, <1>4, <1>5, <1>6 DEF IInv, RulesGoFirst, Kinds, Obtained, history
<1>13. RulesRefer'
    BY <1>3, <1>4 DEF IInv, RulesRefer, Kinds, history
<1> QED
    BY <1>6, <1>7, <1>8, <1>9, <1>10, <1>11, <1>12, <1>13 DEF IInv

\* What is not found is missing.
LEMMA NotFoundKeeps ==
    ASSUME IInv, NEW p \in Provisioners, NotFound(p)
    PROVE  IInv'
<1>1. /\ pc[p] = "find" /\ pc' = [pc EXCEPT ![p] = "create"]
      /\ \A o \in OfKind(Wanted(p)) : o.tenant # Tenant(p)
      /\ UNCHANGED <<objects, created, stage, at, doomed, results>> /\ UNCHANGED history
    BY DEF NotFound, serverVars
<1>2. \A k \in Kinds : OfKind(k)' = OfKind(k)
    BY <1>1 DEF OfKind
<1>3. \A q \in Provisioners : UNCHANGED <<Wanted(q), Tenant(q)>>
    BY <1>1 DEF Wanted, Tenant
<1>4. pc'[p] = "create" /\ \A q \in Provisioners \ {p} : pc'[q] = pc[q]
    BY <1>1 DEF IInv, TypeOK
<1>5. TypeOK'
    BY <1>1 DEF IInv, TypeOK, history
<1>6. IdsAreFresh' /\ DoomedAreOfKind'
    BY <1>1, <1>4 DEF IInv, IdsAreFresh, DoomedAreOfKind
<1>7. AloneOrOverlap'
    BY <1>1, <1>4 DEF IInv, AloneOrOverlap, Alive, history
<1>8. StillMissing'
    BY <1>1, <1>2, <1>3, <1>4, Wants DEF IInv, StillMissing, history
<1>9. NeverDuplicated'
    BY <1>1, <1>2 DEF IInv, NeverDuplicated, AtMostOne, Kinds, history
<1>10. DeletesFirst' /\ InboundFirst'
    BY <1>1, <1>3, <1>4 DEF IInv, DeletesFirst, InboundFirst
<1>11. ObtainedIsThere'
    BY <1>1, <1>2 DEF IInv, ObtainedIsThere, history
<1>12. RulesGoFirst' /\ RulesRefer'
    BY <1>1, <1>2, <1>4 DEF IInv, RulesGoFirst, RulesRefer, Kinds, history
<1> QED
    BY <1>5, <1>6, <1>7, <1>8, <1>9, <1>10, <1>11, <1>12 DEF IInv

\* Only an outbound trunk is created blindly.
LEMMA CannotLookKeeps ==
    ASSUME IInv, NEW p \in Provisioners, CannotLook(p)
    PROVE  IInv'
<1>1. CASE Wanted(p) # "outbound"
    BY <1>1, AbortKeeps DEF CannotLook, history
<1>2. CASE Wanted(p) = "outbound"
    <2>1. /\ pc[p] = "find" /\ pc' = [pc EXCEPT ![p] = "create"] /\ blind' = TRUE
          /\ UNCHANGED <<objects, created, stage, at, doomed, results, runs, fresh, overlap,
                         ruleKept>>
        BY <1>2 DEF CannotLook, serverVars
    <2>2. \A k \in Kinds : OfKind(k)' = OfKind(k)
        BY <2>1 DEF OfKind
    <2>3. \A q \in Provisioners : UNCHANGED <<Wanted(q), Tenant(q)>>
        BY <2>1 DEF Wanted, Tenant
    <2>4. pc'[p] = "create" /\ \A q \in Provisioners \ {p} : pc'[q] = pc[q]
        BY <2>1 DEF IInv, TypeOK
    <2>5. TypeOK'
        BY <2>1 DEF IInv, TypeOK
    <2>6. IdsAreFresh' /\ DoomedAreOfKind'
        BY <2>1, <2>4 DEF IInv, IdsAreFresh, DoomedAreOfKind
    <2>7. AloneOrOverlap'
        BY <2>1, <2>4 DEF IInv, AloneOrOverlap, Alive
    <2>8. StillMissing'
        BY <1>2, <2>1, <2>2, <2>3, <2>4, Wants DEF IInv, StillMissing
    <2>9. NeverDuplicated'
        BY <2>1, <2>2 DEF IInv, NeverDuplicated, AtMostOne, Kinds
    <2>10. DeletesFirst' /\ InboundFirst'
        BY <2>1, <2>3, <2>4 DEF IInv, DeletesFirst, InboundFirst
    <2>11. ObtainedIsThere'
        BY <2>1, <2>2 DEF IInv, ObtainedIsThere
    <2>12. RulesGoFirst' /\ RulesRefer'
        BY <2>1, <2>2, <2>4 DEF IInv, RulesGoFirst, RulesRefer, Kinds
    <2> QED
        BY <2>5, <2>6, <2>7, <2>8, <2>9, <2>10, <2>11, <2>12 DEF IInv
<1> QED
    BY <1>1, <1>2

\* What the server holds after a creation.
LEMMA NewIsNew ==
    ASSUME IInv, NEW p \in Provisioners, pc[p] = "create", created < MaxId,
           created' = created + 1, objects' = objects \cup {New(p)}
    PROVE  /\ created + 1 \in 1..MaxId /\ created' \in 0..MaxId
           /\ New(p) \in Objects /\ objects' \subseteq Objects
           /\ \A o \in objects : o.id # created + 1
           /\ New(p).id = created + 1 /\ New(p).kind = Wanted(p) /\ New(p).tenant = Tenant(p)
           /\ Wanted(p) = "rule" => New(p).trunk = results[p][Tenant(p)]["inbound"]
           /\ \A k \in Kinds : OfKind(k) \subseteq OfKind(k)'
           /\ \A k \in Kinds : \A o \in OfKind(k)' :
                 o \in OfKind(k) \/ (k = Wanted(p) /\ o = New(p))
<1>1. created \in 0..MaxId /\ objects \subseteq Objects
    BY DEF IInv, TypeOK
<1>2. created + 1 \in 1..MaxId
    BY <1>1, SipAssumption
<1>3. Tenant(p) \in Tenants /\ Wanted(p) \in Kinds
    BY Wants DEF IInv
<1>4. \A o \in objects : o.id # created + 1
    BY <1>1 DEF IInv, IdsAreFresh, Objects
<1>5. /\ New(p).id = created + 1 /\ New(p).kind = Wanted(p) /\ New(p).tenant = Tenant(p)
      /\ Wanted(p) = "rule" => New(p).trunk = results[p][Tenant(p)]["inbound"]
    BY DEF New
<1>6. New(p) \in Objects
    <2>1. (IF Wanted(p) = "rule" THEN results[p][Tenant(p)]["inbound"] ELSE NoId) \in 0..MaxId
        <3>1. results[p][Tenant(p)]["inbound"] \in 0..MaxId
            BY <1>3 DEF IInv, TypeOK, Kinds
        <3> QED
            BY <3>1, SipAssumption DEF NoId
    <2> QED
        BY <1>2, <1>3, <2>1 DEF New, Objects
<1>7. /\ \A k \in Kinds : OfKind(k) \subseteq OfKind(k)'
      /\ \A k \in Kinds : \A o \in OfKind(k)' :
            o \in OfKind(k) \/ (k = Wanted(p) /\ o = New(p))
    BY <1>5 DEF OfKind
<1>8. created' \in 0..MaxId /\ objects' \subseteq Objects
    BY <1>1, <1>2, <1>6
<1> QED
    BY <1>2, <1>4, <1>5, <1>6, <1>7, <1>8

\* A creation is carried out: what no run relies on but this one.  The run goes
\* on, or ends without the answer.
LEMMA CreatedKeeps ==
    ASSUME IInv, NEW p \in Provisioners, Created(p)
    PROVE  IInv'
<1>1. /\ pc[p] = "create" /\ created < MaxId /\ created' = created + 1
      /\ objects' = objects \cup {New(p)}
      /\ UNCHANGED <<runs, fresh, overlap, blind, ruleKept>> /\ UNCHANGED history
    BY DEF Created, history
<1> DEFINE id == created + 1
<1>2. /\ id \in 1..MaxId /\ created' \in 0..MaxId
      /\ New(p) \in Objects /\ objects' \subseteq Objects
      /\ \A o \in objects : o.id # id
      /\ New(p).id = id /\ New(p).kind = Wanted(p) /\ New(p).tenant = Tenant(p)
      /\ Wanted(p) = "rule" => New(p).trunk = results[p][Tenant(p)]["inbound"]
      /\ \A k \in Kinds : OfKind(k) \subseteq OfKind(k)'
      /\ \A k \in Kinds : \A o \in OfKind(k)' :
            o \in OfKind(k) \/ (k = Wanted(p) /\ o = New(p))
    BY <1>1, NewIsNew
<1>3. created \in Nat /\ id \in Nat /\ created < id
    BY SipAssumption DEF IInv, TypeOK
<1>4. Obtain(p, id) \/ Abort(p)
    BY DEF Created
<1> HIDE DEF id
<1>5. /\ AloneOrOverlap' /\ DeletesFirst' /\ InboundFirst' /\ ObtainedIsThere'
      /\ \A q \in Provisioners :
            /\ pc'[q] = "create" \/ pc'[q] = "delete" \/ pc'[q] = "list" =>
                  /\ q # p /\ pc'[q] = pc[q] /\ stage'[q] = stage[q]
                  /\ UNCHANGED <<Wanted(q), Tenant(q)>>
      /\ pc' \in [Provisioners -> {"idle", "list", "delete", "find", "create", "done"}]
      /\ stage' \in [Provisioners -> 1..3]
      /\ at' \in [Provisioners -> 1..Len(TENANT_SIP_CONFIG)]
      /\ doomed' \in [Provisioners -> SUBSET (1..MaxId)]
      /\ results' \in [Provisioners -> [Tenants -> [Kinds -> 0..MaxId]]]
      /\ \A q \in Provisioners : doomed'[q] \subseteq doomed[q] /\ (q # p => doomed'[q] = doomed[q])
    <2>1. CASE Obtain(p, id)
        <3>1. \E x \in objects' : x.kind = Wanted(p) /\ x.tenant = Tenant(p) /\ x.id = id
            BY <1>1, <1>2
        <3>2. /\ AloneOrOverlap' /\ DeletesFirst' /\ InboundFirst' /\ ObtainedIsThere'
              /\ \A q \in Provisioners :
                    /\ pc'[q] = "create" \/ pc'[q] = "delete" \/ pc'[q] = "list" =>
                          /\ q # p /\ pc'[q] = pc[q] /\ stage'[q] = stage[q]
                          /\ UNCHANGED <<Wanted(q), Tenant(q)>>
            BY <1>1, <1>2, <2>1, <3>1, ObtainKeeps
        <3>3. Obtained(p, id)
            BY <1>2, <2>1, Obtains DEF IInv
        <3> QED
            BY <3>2, <3>3 DEF IInv, TypeOK, Obtained
    <2>2. CASE Abort(p)
        <3>1. Aborted(p)
            BY <2>2, Aborts DEF IInv
        <3>2. \A q \in Provisioners \ {p} : UNCHANGED <<Wanted(q), Tenant(q)>>
            BY <3>1 DEF Aborted, Wanted, Tenant
        <3>3. AloneOrOverlap'
            BY <1>1, <3>1 DEF IInv, AloneOrOverlap, Alive, Aborted
        <3>4. DeletesFirst'
            BY <3>1 DEF IInv, DeletesFirst, Aborted
        <3>5. \A t \in Tenants, k \in Kinds : results'[p][t][k] = NoId
            BY <3>1, NothingObtained DEF Aborted
        <3>6. InboundFirst'
            <4> SUFFICES ASSUME NEW q \in Provisioners
                         PROVE  /\ pc'[q] \in {"find", "create"} /\ stage'[q] > 1 =>
                                      results'[q][Tenant(q)']["inbound"] # NoId
                                /\ \A t \in Tenants :
                                      results'[q][t]["rule"] # NoId =>
                                          results'[q][t]["inbound"] # NoId
                BY DEF InboundFirst
            <4>1. CASE q = p
                BY <3>1, <3>5, <4>1 DEF Aborted, Kinds
            <4>2. CASE q # p
                <5>1. /\ pc'[q] = pc[q] /\ stage'[q] = stage[q]
                      /\ results'[q] = results[q] /\ Tenant(q)' = Tenant(q)
                    BY <3>1, <3>2, <4>2 DEF Aborted
                <5> QED
                    BY <5>1 DEF IInv, InboundFirst
            <4> QED
                BY <4>1, <4>2
        <3>7. ObtainedIsThere'
            <4> SUFFICES ASSUME NEW q \in Provisioners, NEW t \in Tenants, NEW k \in Kinds,
                                fresh'[q], results'[q][t][k] # NoId
                         PROVE  \E o \in OfKind(k)' : o.tenant = t /\ o.id = results'[q][t][k]
                BY DEF ObtainedIsThere
            <4>1. q # p
                BY <3>5
            <4>2. results'[q] = results[q] /\ fresh[q]
                BY <1>1, <3>1, <4>1 DEF Aborted
            <4> QED
                BY <1>2, <4>2 DEF IInv, ObtainedIsThere
        <3> QED
            BY <3>1, <3>2, <3>3, <3>4, <3>6, <3>7 DEF Aborted
    <2> QED
        BY <1>4, <2>1, <2>2
<1>6. \A q \in Provisioners : pc'[q] = "delete" =>
          pc[q] = "delete" /\ stage'[q] = stage[q] /\ doomed'[q] = doomed[q]
    BY <1>5
<1>7. TypeOK'
    BY <1>1, <1>2, <1>5 DEF IInv, TypeOK
<1>8. IdsAreFresh'
    <2>1. \A o \in objects' : o.id <= created'
        <3>1. \A o \in objects : o.id \in Nat /\ o.id <= created
            BY DEF IInv, TypeOK, IdsAreFresh, Objects
        <3> QED
            BY <1>1, <1>2, <1>3, <3>1 DEF id
    <2>2. \A o1, o2 \in objects' : o1.id = o2.id => o1 = o2
        BY <1>1, <1>2 DEF IInv, IdsAreFresh
    <2>3. ASSUME NEW q \in Provisioners, NEW i \in doomed'[q]
          PROVE  i <= created'
        <3>1. i \in 1..MaxId /\ i <= created
            BY <1>5, <2>3 DEF IInv, TypeOK, IdsAreFresh
        <3> QED
            BY <1>1, <1>3, <3>1 DEF id
    <2> QED
        BY <2>1, <2>2, <2>3 DEF IdsAreFresh
<1>9. DoomedAreOfKind'
    <2> SUFFICES ASSUME NEW q \in Provisioners, NEW o \in objects',
                        pc'[q] = "delete", o.id \in doomed'[q]
                 PROVE  o.kind = DeleteOrder[stage'[q]]
        BY DEF DoomedAreOfKind
    <2>1. o.id <= created
        BY <1>6 DEF IInv, IdsAreFresh
    <2>2. o # New(p)
        BY <1>2, <1>3, <2>1 DEF id
    <2> QED
        BY <1>1, <1>6, <2>2 DEF IInv, DoomedAreOfKind
<1>10. StillMissing'
    <2> SUFFICES ASSUME NEW q \in Provisioners, pc'[q] = "create", ~overlap'
                 PROVE  FALSE
        BY DEF StillMissing
    <2>1. q # p /\ pc[q] = "create"
        BY <1>5
    <2> QED
        BY <1>1, <2>1 DEF IInv, AloneOrOverlap, Alive
<1>11. NeverDuplicated'
    <2> SUFFICES ASSUME ~overlap', NEW k \in Kinds, k = "outbound" => ~blind',
                        NEW o1 \in OfKind(k)', NEW o2 \in OfKind(k)', o1.tenant = o2.tenant
                 PROVE  o1 = o2
        BY DEF NeverDuplicated, AtMostOne, Kinds
    <2>1. \A x, y \in OfKind(k) : x.tenant = y.tenant => x = y
        BY <1>1 DEF IInv, NeverDuplicated, AtMostOne, Kinds
    <2>2. k = Wanted(p) => \A x \in OfKind(k) : x.tenant # Tenant(p)
        BY <1>1 DEF IInv, StillMissing
    <2> QED
        BY <1>2, <2>1, <2>2
<1>12. RulesGoFirst'
    <2> SUFFICES ASSUME NEW q \in Provisioners, ~overlap', pc'[q] \in {"list", "delete"}
                 PROVE  FALSE
        BY DEF RulesGoFirst
    <2>1. q # p /\ pc[q] \in {"list", "delete"}
        BY <1>5
    <2> QED
        BY <1>1, <2>1 DEF IInv, AloneOrOverlap, Alive
<1>13. RulesRefer'
    <2> SUFFICES ASSUME ~overlap', ~ruleKept', NEW o \in OfKind("rule")'
                 PROVE  \E i \in OfKind("inbound")' : i.tenant = o.tenant /\ i.id = o.trunk
        BY DEF RulesRefer
    <2>1. CASE o \in OfKind("rule")
        BY <1>1, <1>2, <2>1 DEF IInv, RulesRefer, Kinds
    <2>2. CASE Wanted(p) = "rule" /\ o = New(p)
        <3>1. fresh[p]
            BY <1>1 DEF IInv, AloneOrOverlap, Alive
        <3>2. results[p][Tenant(p)]["inbound"] # NoId
            BY <1>1, <2>2, Wants DEF IInv, InboundFirst
        <3>3. \E i \in OfKind("inbound") :
                  i.tenant = Tenant(p) /\ i.id = results[p][Tenant(p)]["inbound"]
            BY <3>1, <3>2, Wants DEF IInv, ObtainedIsThere, Kinds
        <3> QED
            BY <1>2, <2>2, <3>3 DEF Kinds
    <2> QED
        BY <1>2, <2>1, <2>2 DEF Kinds
<1> QED
    BY <1>5, <1>7, <1>8, <1>9, <1>10, <1>11, <1>12, <1>13 DEF IInv

\* A step of the script, or none, keeps the invariant.
LEMMA StepKeeps ==
    ASSUME IInv, [Next]_vars
    PROVE  IInv'
<1>1. CASE UNCHANGED vars
    BY <1>1
    DEF vars, serverVars, runVars, history, IInv, TypeOK, IdsAreFresh, DoomedAreOfKind,
        AloneOrOverlap, Alive, StillMissing, NeverDuplicated, AtMostOne, DeletesFirst,
        InboundFirst, ObtainedIsThere, RulesGoFirst, RulesRefer, OfKind, Wanted, Tenant
<1>2. ASSUME NEW p \in Provisioners, Killed(p) \/ Refused(p)
      PROVE  IInv'
    BY <1>2, AbortKeeps DEF Killed, Refused
<1>3. CASE Next
    BY <1>2, <1>3, StartKeeps, ListKeeps, DeleteKeeps, DeletedKeeps, FoundKeeps,
       NotFoundKeeps, CannotLookKeeps, CreatedKeeps DEF Next, Provision
<1> QED
    BY <1>1, <1>3

\* The invariant of the argument above.
THEOREM InductiveInvariant == Spec => []IInv
    BY InitIInv, StepKeeps, PTL DEF Spec

\* The variables keep their types.
THEOREM TypeCorrectness == Spec => []TypeOK
<1>1. IInv => TypeOK
    BY DEF IInv
<1> QED
    BY <1>1, InductiveInvariant, PTL

\* "Re-running provision_sip.py never creates duplicates", but for the cases
\* NeverDuplicated names (sip_trunk.py).
THEOREM NoDuplicates == Spec => []NeverDuplicated
<1>1. IInv => NeverDuplicated
    BY DEF IInv
<1> QED
    BY <1>1, InductiveInvariant, PTL

\* What a run reports is there, and its rules lead to its trunks
\* (provision_all, create_dispatch_rule_idempotent).
THEOREM ReportsAreTrue == Spec => []ReportIsTrue
<1>1. IInv => ReportIsTrue
    <2> SUFFICES ASSUME IInv, NEW p \in Provisioners, NEW t \in Tenants, NEW k \in Kinds,
                        fresh[p], results[p][t][k] # NoId
                 PROVE  \E o \in OfKind(k) :
                            /\ o.tenant = t
                            /\ o.id = results[p][t][k]
                            /\ k = "rule" /\ ~ruleKept /\ ~overlap =>
                                   o.trunk = results[p][t]["inbound"]
        BY DEF ReportIsTrue
    <2>1. PICK o \in OfKind(k) : o.tenant = t /\ o.id = results[p][t][k]
        BY DEF IInv, ObtainedIsThere
    <2>2. ASSUME k = "rule", ~ruleKept, ~overlap
          PROVE  o.trunk = results[p][t]["inbound"]
        <3>1. PICK i \in OfKind("inbound") : i.tenant = t /\ i.id = o.trunk
            BY <2>1, <2>2 DEF IInv, RulesRefer
        <3>2. results[p][t]["inbound"] # NoId
            BY <2>2 DEF IInv, InboundFirst
        <3>3. PICK j \in OfKind("inbound") : j.tenant = t /\ j.id = results[p][t]["inbound"]
            BY <3>2 DEF IInv, ObtainedIsThere, Kinds
        <3>4. i = j
            BY <2>2, <3>1, <3>3 DEF IInv, NeverDuplicated, AtMostOne
        <3> QED
            BY <3>1, <3>3, <3>4
    <2> QED
        BY <2>1, <2>2
<1> QED
    BY <1>1, InductiveInvariant, PTL

-----------------------------------------------------------------------------
(* What a run that finishes has provisioned *)

\* All kinds of the tenants before this one, and the kinds before this one of its
\* tenant, are in results; there is nothing between the last tenant and "done".
SoFar(p) ==
    /\ pc[p] \in {"list", "delete"} => at[p] = 1
    /\ pc[p] \in {"find", "create"} =>
          \A j \in 1..Len(TENANT_SIP_CONFIG), s \in 1..3 :
              j < at[p] \/ (j = at[p] /\ s < stage[p]) =>
                  results[p][TENANT_SIP_CONFIG[j]][CreateOrder[s]] # NoId
    /\ pc[p] = "done" => \A t \in Tenants, k \in Kinds : results[p][t][k] # NoId

ProvisionedSoFar == \A p \in Provisioners : SoFar(p)

\* A script that comes to its end has skipped no tenant and nothing of one; and
\* until another run interferes every tenant has its two trunks and a rule, which
\* leads to the inbound one unless an earlier --recreate left a rule behind or two
\* runs were alive at once.
FinishedIsComplete ==
    \A p \in Provisioners : pc[p] = "done" =>
        \A t \in Tenants :
            /\ \A k \in Kinds : results[p][t][k] # NoId
            /\ fresh[p] =>
                  \E i \in OfKind("inbound"), r \in OfKind("rule"), o \in OfKind("outbound") :
                      /\ i.tenant = t /\ r.tenant = t /\ o.tenant = t
                      /\ ~ruleKept /\ ~overlap => r.trunk = i.id

\* A run that does not move keeps what it has.
LEMMA SoFarStays ==
    ASSUME NEW p \in Provisioners, SoFar(p), pc'[p] = pc[p], stage'[p] = stage[p],
           at'[p] = at[p], results'[p] = results[p]
    PROVE  SoFar(p)'
BY DEF SoFar

\* What a run obtains completes what it has so far.
LEMMA ObtainGoesOn ==
    ASSUME TypeOK, ProvisionedSoFar, NEW p \in Provisioners, NEW id \in 1..MaxId,
           Obtain(p, id), pc[p] \in {"find", "create"}
    PROVE  ProvisionedSoFar'
<1>1. Obtained(p, id) /\ id # NoId
    BY Obtains DEF NoId
<1>2. stage[p] \in 1..3 /\ at[p] \in 1..Len(TENANT_SIP_CONFIG) /\ Len(TENANT_SIP_CONFIG) \in Nat
    BY SipAssumption DEF TypeOK
<1>3. ASSUME NEW j \in 1..Len(TENANT_SIP_CONFIG), NEW s \in 1..3,
             j < at[p] \/ (j = at[p] /\ s <= stage[p])
      PROVE  results'[p][TENANT_SIP_CONFIG[j]][CreateOrder[s]] # NoId
    <2>1. TENANT_SIP_CONFIG[j] \in Tenants /\ CreateOrder[s] \in Kinds
        BY DEF Tenants, CreateOrder, Kinds
    <2>2. CASE j = at[p] /\ s = stage[p]
        BY <1>1, <2>1, <2>2 DEF Obtained, Tenant, Wanted
    <2>3. CASE j < at[p] \/ (j = at[p] /\ s < stage[p])
        <3>1. results[p][TENANT_SIP_CONFIG[j]][CreateOrder[s]] # NoId
            BY <2>3 DEF ProvisionedSoFar, SoFar
        <3> QED
            BY <1>1, <2>1, <3>1 DEF Obtained
    <2> QED
        BY <1>2, <1>3, <2>2, <2>3
<1>4. ASSUME NEW q \in Provisioners \ {p}
      PROVE  SoFar(q)'
    BY <1>1, SoFarStays DEF ProvisionedSoFar, Obtained
<1>5. SoFar(p)'
    <2>1. CASE stage[p] < 3
        <3>1. pc'[p] = "find" /\ stage'[p] = stage[p] + 1 /\ at'[p] = at[p]
            BY <1>2, <2>1 DEF Obtain, TypeOK
        <3> QED
            BY <1>2, <1>3, <3>1 DEF SoFar
    <2>2. CASE stage[p] = 3 /\ at[p] < Len(TENANT_SIP_CONFIG)
        <3>1. pc'[p] = "find" /\ stage'[p] = 1 /\ at'[p] = at[p] + 1
            BY <1>2, <2>2 DEF Obtain, TypeOK
        <3> QED
            BY <1>2, <1>3, <2>2, <3>1 DEF SoFar
    <2>3. CASE stage[p] = 3 /\ at[p] = Len(TENANT_SIP_CONFIG)
        <3>1. pc'[p] = "done"
            BY <1>2, <2>3 DEF Obtain, TypeOK
        <3>2. ASSUME NEW t \in Tenants, NEW k \in Kinds
              PROVE  results'[p][t][k] # NoId
            <4>1. PICK j \in 1..Len(TENANT_SIP_CONFIG) : t = TENANT_SIP_CONFIG[j]
                BY DEF Tenants
            <4>2. PICK s \in 1..3 : k = CreateOrder[s]
                BY DEF Kinds, CreateOrder
            <4> QED
                BY <1>2, <1>3, <2>3, <4>1, <4>2
        <3> QED
            BY <3>1, <3>2 DEF SoFar
    <2> QED
        BY <1>2, <2>1, <2>2, <2>3
<1> QED
    BY <1>4, <1>5 DEF ProvisionedSoFar

LEMMA SoFarKept ==
    ASSUME IInv, ProvisionedSoFar, [Next]_vars
    PROVE  ProvisionedSoFar'
<1> USE DEF IInv
<1>1. CASE UNCHANGED vars
    BY <1>1 DEF vars, runVars, ProvisionedSoFar, SoFar
<1>2. ASSUME NEW p \in Provisioners, Abort(p)
      PROVE  ProvisionedSoFar'
    <2>1. Aborted(p)
        BY <1>2, Aborts
    <2>2. \A q \in Provisioners \ {p} : SoFar(q)'
        BY <2>1, SoFarStays DEF Aborted, ProvisionedSoFar
    <2> QED
        BY <2>1, <2>2 DEF Aborted, ProvisionedSoFar, SoFar
<1>3. ASSUME NEW p \in Provisioners, Start(p)
      PROVE  ProvisionedSoFar'
    BY <1>3, SipAssumption DEF Start, ProvisionedSoFar, SoFar, TypeOK
<1>4. ASSUME NEW p \in Provisioners, List(p) \/ Delete(p) \/ NotFound(p)
      PROVE  ProvisionedSoFar'
    BY <1>4 DEF List, Delete, NotFound, ProvisionedSoFar, SoFar, TypeOK
<1>5. ASSUME NEW p \in Provisioners, Deleted(p)
      PROVE  ProvisionedSoFar'
    BY <1>5 DEF Deleted, ProvisionedSoFar, SoFar, TypeOK
<1>6. ASSUME NEW p \in Provisioners, Found(p)
      PROVE  ProvisionedSoFar'
    <2>1. PICK o \in objects : Obtain(p, o.id)
        BY <1>6 DEF Found, OfKind
    <2>2. o.id \in 1..MaxId /\ pc[p] \in {"find", "create"}
        BY <1>6 DEF Found, TypeOK, Objects
    <2> QED
        BY <2>1, <2>2, ObtainGoesOn
<1>7. ASSUME NEW p \in Provisioners, CannotLook(p)
      PROVE  ProvisionedSoFar'
    <2>1. CASE Wanted(p) = "outbound"
        BY <1>7, <2>1 DEF CannotLook, ProvisionedSoFar, SoFar, TypeOK
    <2> QED
        BY <1>2, <1>7, <2>1 DEF CannotLook
<1>8. ASSUME NEW p \in Provisioners, Created(p)
      PROVE  ProvisionedSoFar'
    <2>1. created + 1 \in 1..MaxId /\ pc[p] \in {"find", "create"}
        BY <1>8, SipAssumption DEF Created, TypeOK
    <2> QED
        BY <1>2, <1>8, <2>1, ObtainGoesOn DEF Created
<1> QED
    BY <1>1, <1>2, <1>3, <1>4, <1>5, <1>6, <1>7, <1>8 DEF Next, Provision, Killed, Refused

\* Whatever was there before, whatever is found, created or refused on the way, a
\* run of provision_sip.py that reaches its summary has provisioned every tenant
\* (provision_all).
THEOREM RunsAreComplete == Spec => []FinishedIsComplete
<1>1. Init => ProvisionedSoFar
    BY DEF Init, ProvisionedSoFar, SoFar
<1>2. IInv /\ ReportIsTrue /\ ProvisionedSoFar => FinishedIsComplete
    <2> SUFFICES ASSUME IInv, ReportIsTrue, ProvisionedSoFar, NEW p \in Provisioners,
                        pc[p] = "done", NEW t \in Tenants
                 PROVE  /\ \A k \in Kinds : results[p][t][k] # NoId
                        /\ fresh[p] =>
                              \E i \in OfKind("inbound"), r \in OfKind("rule"),
                                 o \in OfKind("outbound") :
                                  /\ i.tenant = t /\ r.tenant = t /\ o.tenant = t
                                  /\ ~ruleKept /\ ~overlap => r.trunk = i.id
        BY DEF FinishedIsComplete
    <2>1. \A k \in Kinds : results[p][t][k] # NoId
        BY DEF ProvisionedSoFar, SoFar
    <2>2. ASSUME fresh[p]
          PROVE  \E i \in OfKind("inbound"), r \in OfKind("rule"), o \in OfKind("outbound") :
                     /\ i.tenant = t /\ r.tenant = t /\ o.tenant = t
                     /\ ~ruleKept /\ ~overlap => r.trunk = i.id
        <3>1. PICK i \in OfKind("inbound") : i.tenant = t /\ i.id = results[p][t]["inbound"]
            BY <2>1, <2>2 DEF ReportIsTrue, Kinds
        <3>2. PICK r \in OfKind("rule") :
                  r.tenant = t /\ (~ruleKept /\ ~overlap => r.trunk = results[p][t]["inbound"])
            BY <2>1, <2>2 DEF ReportIsTrue, Kinds
        <3>3. PICK o \in OfKind("outbound") : o.tenant = t
            BY <2>1, <2>2 DEF ReportIsTrue, Kinds
        <3> QED
            BY <3>1, <3>2, <3>3
    <2> QED
        BY <2>1, <2>2
<1> QED
    BY <1>1, <1>2, SoFarKept, InductiveInvariant, ReportsAreTrue, PTL DEF Spec
==============================================================================

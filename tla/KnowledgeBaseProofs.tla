------------------------ MODULE KnowledgeBaseProofs ------------------------
(***************************************************************************)
(* KnowledgeBase for any tenants, documents, numbers of attempts and of    *)
(* overlapping runs, and any callers.  The argument: a run that no other   *)
(* one was alive with (AloneOrOverlap) finds in its collection what it put *)
(* there and nothing else: nothing once it has created it, and then what   *)
(* is confirmed and at most what it is sending (InProgress); it comes back *)
(* to no tenant it has reported (StillToCome).  What is prepared, and so   *)
(* what is stored, names its tenant and its run (PreparedAreOwn,           *)
(* StoredAreOwn).                                                          *)
(***************************************************************************)
EXTENDS KnowledgeBase, SequenceTheorems, TLAPS

Writing(i) == pc[i] = "upsert"

\* The first n points of a run.
First(i, n) == {points[i][k] : k \in 1..n}
AllOf(i) == First(i, Len(points[i]))

\* fresh is lost, and overlap set, as soon as two runs are alive.
AloneOrOverlap ==
    /\ \A i, j \in Ingestors : fresh[i] /\ i # j => ~Alive(j)
    /\ \A i \in Ingestors : Alive(i) => fresh[i] \/ overlap

PreparedAreOwn ==
    \A i \in Ingestors :
        /\ Alive(i) => run[i] \in 1..MaxRuns
        /\ ~Writing(i) => points[i] = <<>>
        /\ \A k \in 1..Len(points[i]) :
              points[i][k].tenant = Tenant(i) /\ points[i][k].run = run[i]

StoredAreOwn ==
    \A t \in Tenants : collection[t] # Missing =>
        /\ \A p \in collection[t] : p.tenant = t
        /\ ~overlap => \A p, q \in collection[t] : p.run = q.run

InProgress ==
    \A i \in Ingestors : fresh[i] =>
        /\ pc[i] = "read" => collection[Target(i)] = {}
        /\ Writing(i) => First(i, sent[i]) \subseteq collection[Target(i)]
                         /\ collection[Target(i)] \subseteq AllOf(i)

\* The tenant a run is about, and those after it, are not reported.
StillToCome ==
    \A i \in Ingestors : Alive(i) =>
        \A k \in 1..Len(TENANTS) : at[i] <= k => ingested[i][TENANTS[k]] = NoResult

WaitingForTenant == \A c \in Callers : waiting[c] => asked[c] \in Tenants

IInv ==
    /\ TypeOK
    /\ WaitingForTenant
    /\ AloneOrOverlap
    /\ PreparedAreOwn
    /\ StoredAreOwn
    /\ InProgress
    /\ StillToCome
    /\ IngestedOnce
    /\ FoundIsOwn

-----------------------------------------------------------------------------
(* The run of one ingestor *)

\* What a step of i leaves behind, as far as it is about i: the others' variables
\* are untouched, and the invariant holds of i's own.
RunKeeps(i) ==
    /\ pc' \in [Ingestors -> Steps \cup {"idle", "done"}]
    /\ at' \in [Ingestors -> 1..Len(TENANTS)]
    /\ points' \in [Ingestors -> Seq(Points)]
    /\ sent' \in [Ingestors -> Nat]
    /\ sent'[i] <= Len(points'[i])
    /\ attempt' \in [Ingestors -> 0..(UPSERT_MAX_RETRIES - 1)]
    /\ DOMAIN ingested' = Ingestors
    /\ DOMAIN ingested'[i] = Tenants
    /\ \A j \in Ingestors \ {i} :
          /\ pc'[j] = pc[j] /\ at'[j] = at[j] /\ points'[j] = points[j]
          /\ sent'[j] = sent[j] /\ ingested'[j] = ingested[j]
    /\ ~Writing(i)' => points'[i] = <<>>
    /\ \A k \in 1..Len(points'[i]) :
          points'[i][k].tenant = Tenant(i)' /\ points'[i][k].run = run[i]
    /\ fresh[i] =>
          /\ pc'[i] = "read" => collection'[Target(i)'] = {}
          /\ Writing(i)' => First(i, sent[i])' \subseteq collection'[Target(i)']
                            /\ collection'[Target(i)'] \subseteq AllOf(i)'
          /\ \A t \in Tenants : ingested'[i][t] # NoResult => collection'[t] = ingested'[i][t]
    /\ Alive(i)' =>
          \A k \in 1..Len(TENANTS) : at'[i] <= k => ingested'[i][TENANTS[k]] = NoResult

\* The only collection i touches is the one it is about.
TouchesOwn(i) ==
    /\ DOMAIN collection' = Tenants
    /\ \A t \in Tenants \ {Target(i)} : collection'[t] = collection[t]

LEMMA Here ==
    ASSUME TypeOK, NEW i \in Ingestors
    PROVE  /\ at[i] \in 1..Len(TENANTS) /\ Len(TENANTS) \in Nat
           /\ Tenant(i) \in Tenants /\ Target(i) = Tenant(i)
    BY KnowledgeAssumption DEF TypeOK, Tenant, Tenants, Target, collection_name

LEMMA BatchIsPrepared ==
    ASSUME TypeOK, NEW i \in Ingestors
    PROVE  Batch(i) \subseteq AllOf(i)
    BY DEF Batch, AllOf, First

\* What a step of i owes to everybody else.
LEMMA RunStepKeeps ==
    ASSUME IInv, NEW i \in Ingestors, Alive(i), UNCHANGED <<startVars, callVars>>,
           TouchesOwn(i), RunKeeps(i),
           \/ collection'[Target(i)] = collection[Target(i)]
           \/ collection'[Target(i)] = Missing
           \/ collection'[Target(i)] = {}
           \/ /\ collection[Target(i)] # Missing
              /\ collection'[Target(i)] = collection[Target(i)] \cup Batch(i)
    PROVE  IInv'
<1>1. UNCHANGED <<runs, run, fresh, overlap, asked, waiting, tries, found>>
    BY DEF startVars, callVars
<1>2. Tenant(i) \in Tenants /\ Target(i) = Tenant(i)
    BY Here DEF IInv
<1>3. Batch(i) \subseteq AllOf(i) /\ AllOf(i) \subseteq Points
    <2>1. \A k \in 1..Len(points[i]) : points[i][k] \in Points
        BY DEF IInv, TypeOK
    <2> QED
        BY <2>1, BatchIsPrepared DEF IInv, AllOf, First
<1>4. \A p \in AllOf(i) : p.tenant = Tenant(i) /\ p.run = run[i]
    BY DEF IInv, PreparedAreOwn, AllOf, First
<1>5. \A t \in Tenants : collection'[t] # Missing => collection'[t] \subseteq Points
    BY <1>2, <1>3 DEF IInv, TypeOK, TouchesOwn
<1>6. TypeOK'
    <2>1. \A j \in Ingestors : sent'[j] <= Len(points'[j])
        BY DEF IInv, TypeOK, RunKeeps
    <2>2. \A j \in Ingestors : DOMAIN ingested'[j] = Tenants
        BY DEF IInv, TypeOK, RunKeeps
    <2>3. Points' = Points /\ Tenants' = Tenants
        BY DEF Points, Tenants
    <2> QED
        BY <1>1, <1>5, <2>1, <2>2, <2>3 DEF IInv, TypeOK, RunKeeps, TouchesOwn
<1>7. AloneOrOverlap'
    BY <1>1 DEF IInv, AloneOrOverlap, Alive, RunKeeps
<1>8. \A j \in Ingestors \ {i} : UNCHANGED <<Tenant(j), Target(j), AllOf(j), Writing(j), Alive(j)>>
    BY DEF Tenant, Target, collection_name, AllOf, First, Writing, Alive, RunKeeps
<1>9. PreparedAreOwn'
    <2> SUFFICES ASSUME NEW j \in Ingestors
                 PROVE  /\ Alive(j)' => run'[j] \in 1..MaxRuns
                        /\ ~Writing(j)' => points'[j] = <<>>
                        /\ \A k \in 1..Len(points'[j]) :
                              points'[j][k].tenant = Tenant(j)' /\ points'[j][k].run = run'[j]
        BY DEF PreparedAreOwn
    <2>1. CASE j = i
        BY <1>1, <2>1 DEF IInv, PreparedAreOwn, RunKeeps
    <2>2. CASE j # i
        <3>1. points'[j] = points[j]
            BY <2>2 DEF RunKeeps
        <3> QED
            BY <1>1, <1>8, <2>2, <3>1 DEF IInv, PreparedAreOwn
    <2> QED
        BY <2>1, <2>2
<1>10. StoredAreOwn'
    <2> SUFFICES ASSUME NEW t \in Tenants, collection'[t] # Missing
                 PROVE  /\ \A p \in collection'[t] : p.tenant = t
                        /\ ~overlap' => \A p, q \in collection'[t] : p.run = q.run
        BY DEF StoredAreOwn
    <2>1. CASE collection'[t] = collection[t]
        BY <1>1, <2>1 DEF IInv, StoredAreOwn
    <2>2. CASE collection'[t] = {}
        BY <2>2
    <2>3. CASE t = Target(i) /\ collection[t] # Missing
               /\ collection'[t] = collection[t] \cup Batch(i)
        <3>1. \A p \in collection'[t] : p.tenant = t
            BY <1>2, <1>3, <1>4, <2>3 DEF IInv, StoredAreOwn
        <3>2. CASE Writing(i) /\ ~overlap
            <4>1. collection[t] \subseteq AllOf(i)
                BY <2>3, <3>2 DEF IInv, InProgress, AloneOrOverlap
            <4> QED
                BY <1>3, <1>4, <2>3, <3>1, <4>1
        <3>3. CASE ~Writing(i)
            <4>1. Batch(i) = {}
                BY <1>3, <3>3 DEF IInv, PreparedAreOwn, AllOf, First
            <4> QED
                BY <1>1, <2>3, <3>1, <4>1 DEF IInv, StoredAreOwn
        <3> QED
            BY <1>1, <3>1, <3>2, <3>3
    <2> QED
        BY <2>1, <2>2, <2>3 DEF TouchesOwn
<1>11. ASSUME NEW j \in Ingestors \ {i}, fresh'[j]
       PROVE  FALSE
    BY <1>1, <1>11 DEF IInv, AloneOrOverlap
<1>12. InProgress'
    <2> SUFFICES ASSUME NEW j \in Ingestors, fresh'[j]
                 PROVE  /\ pc'[j] = "read" => collection'[Target(j)'] = {}
                        /\ Writing(j)' => First(j, sent[j])' \subseteq collection'[Target(j)']
                                          /\ collection'[Target(j)'] \subseteq AllOf(j)'
        BY DEF InProgress
    <2> QED
        BY <1>1, <1>11 DEF RunKeeps
<1>13. StillToCome'
    <2> SUFFICES ASSUME NEW j \in Ingestors, Alive(j)',
                        NEW k \in 1..Len(TENANTS), at'[j] <= k
                 PROVE  ingested'[j][TENANTS[k]] = NoResult
        BY DEF StillToCome
    <2>1. CASE j = i
        BY <2>1 DEF RunKeeps
    <2>2. CASE j # i
        <3>1. Alive(j) /\ at[j] <= k
            BY <1>8, <2>2 DEF RunKeeps
        <3>2. ingested'[j] = ingested[j]
            BY <2>2 DEF RunKeeps
        <3> QED
            BY <3>1, <3>2 DEF IInv, StillToCome
    <2> QED
        BY <2>1, <2>2
<1>14. IngestedOnce'
    <2> SUFFICES ASSUME NEW j \in Ingestors, NEW t \in Tenants,
                        fresh'[j], ingested'[j][t] # NoResult
                 PROVE  collection'[t] = ingested'[j][t]
        BY DEF IngestedOnce
    <2> QED
        BY <1>1, <1>11 DEF RunKeeps
<1>15. FoundIsOwn' /\ WaitingForTenant'
    BY <1>1 DEF IInv, FoundIsOwn, WaitingForTenant
<1> QED
    BY <1>6, <1>7, <1>9, <1>10, <1>12, <1>13, <1>14, <1>15 DEF IInv

\* A run that is done with a tenant, or at an end, keeps nothing prepared.
LEMMA NothingPreparedKeeps ==
    ASSUME IInv, NEW i \in Ingestors, Alive(i), TouchesOwn(i), NothingPrepared(i),
           NEW s \in {"files", "done", "idle"}, pc' = [pc EXCEPT ![i] = s],
           NEW n \in 1..Len(TENANTS), at' = [at EXCEPT ![i] = n],
           s = "files" => n = at[i] + 1,
           DOMAIN ingested' = Ingestors, DOMAIN ingested'[i] = Tenants,
           \A j \in Ingestors \ {i} : ingested'[j] = ingested[j],
           \A t \in Tenants :
               \/ ingested'[i][t] = NoResult
               \/ t # Tenant(i) /\ ingested'[i][t] = ingested[i][t]
               \/ t = Tenant(i) /\ (fresh[i] => collection'[t] = ingested'[i][t])
    PROVE  RunKeeps(i)
<1>1. /\ pc' \in [Ingestors -> Steps \cup {"idle", "done"}]
      /\ at' \in [Ingestors -> 1..Len(TENANTS)]
    BY DEF IInv, TypeOK, Steps
<1>2. /\ points' \in [Ingestors -> Seq(Points)] /\ sent' \in [Ingestors -> Nat]
      /\ attempt' \in [Ingestors -> 0..(UPSERT_MAX_RETRIES - 1)]
    <2>1. <<>> \in Seq(Points) /\ 0 \in 0..(UPSERT_MAX_RETRIES - 1)
        BY KnowledgeAssumption
    <2> QED
        BY <2>1 DEF IInv, TypeOK, NothingPrepared
<1>3. pc'[i] = s /\ at'[i] = n /\ points'[i] = <<>> /\ sent'[i] = 0
    BY DEF IInv, TypeOK, NothingPrepared
<1>4. \A j \in Ingestors \ {i} :
          /\ pc'[j] = pc[j] /\ at'[j] = at[j] /\ points'[j] = points[j]
          /\ sent'[j] = sent[j] /\ ingested'[j] = ingested[j]
    BY DEF IInv, TypeOK, NothingPrepared
<1>5. DOMAIN ingested' = Ingestors /\ DOMAIN ingested'[i] = Tenants
    OBVIOUS
<1>6. ~Writing(i)' /\ pc'[i] # "read" /\ Len(points'[i]) = 0
    BY <1>3 DEF Writing
<1>7. ASSUME fresh[i], NEW t \in Tenants, ingested'[i][t] # NoResult
      PROVE  collection'[t] = ingested'[i][t]
    <2>1. CASE t # Tenant(i) /\ ingested'[i][t] = ingested[i][t]
        <3>1. collection'[t] = collection[t]
            BY <2>1, Here DEF IInv, TouchesOwn
        <3> QED
            BY <1>3, <1>7, <2>1, <3>1 DEF IInv, IngestedOnce
    <2> QED
        BY <1>3, <1>7, <2>1
<1>8. ASSUME Alive(i)', NEW k \in 1..Len(TENANTS), at'[i] <= k
      PROVE  ingested'[i][TENANTS[k]] = NoResult
    <2>1. s = "files" /\ n = at[i] + 1
        BY <1>3, <1>8 DEF Alive, Steps
    <2>2. at[i] \in 1..Len(TENANTS) /\ at[i] < k
        BY <1>3, <1>8, <2>1, Here DEF IInv
    <2>3. TENANTS[k] \in Tenants /\ TENANTS[k] # Tenant(i)
        <3>1. TENANTS[k] \in Tenants
            BY DEF Tenants
        <3>2. k \in 1..Len(TENANTS) /\ at[i] # k
            BY <2>2
        <3>3. TENANTS[k] # TENANTS[at[i]]
            BY <2>2, <3>2, KnowledgeAssumption
        <3> QED
            BY <3>1, <3>3 DEF Tenant
    <2>4. ingested[i][TENANTS[k]] = NoResult
        BY <2>2 DEF IInv, StillToCome
    <2> QED
        BY <1>3, <2>3, <2>4
<1> QED
    BY <1>1, <1>2, <1>3, <1>4, <1>5, <1>6, <1>7, <1>8 DEF RunKeeps

\* A tenant that fails, and a script that does.
LEMMA FailsKeeps ==
    ASSUME IInv, NEW i \in Ingestors, Alive(i), TouchesOwn(i), TenantFails(i) \/ Abort(i)
    PROVE  RunKeeps(i)
<1>1. at[i] \in 1..Len(TENANTS) /\ Len(TENANTS) \in Nat /\ Tenant(i) \in Tenants
    BY Here DEF IInv
<1>2. CASE Abort(i)
    <2>1. 1 \in 1..Len(TENANTS)
        BY <1>1
    <2>2. DOMAIN NoResults = Tenants /\ \A t \in Tenants : NoResults[t] = NoResult
        BY DEF NoResults
    <2>3. /\ NothingPrepared(i) /\ pc' = [pc EXCEPT ![i] = "idle"] /\ at' = [at EXCEPT ![i] = 1]
          /\ ingested'[i] = NoResults /\ DOMAIN ingested' = Ingestors
          /\ \A j \in Ingestors \ {i} : ingested'[j] = ingested[j]
        BY <1>2 DEF IInv, TypeOK, Abort, Goto
    <2>4. DOMAIN ingested'[i] = Tenants /\ \A t \in Tenants : ingested'[i][t] = NoResult
        BY <2>2, <2>3
    <2> QED
        BY <2>1, <2>3, <2>4, NothingPreparedKeeps
<1>3. CASE TenantFails(i)
    <2>1. /\ DOMAIN ingested' = Ingestors /\ DOMAIN ingested'[i] = Tenants
          /\ \A j \in Ingestors \ {i} : ingested'[j] = ingested[j]
        BY <1>3 DEF IInv, TypeOK, TenantFails
    <2>2. ingested[i][Tenant(i)] = NoResult
        BY <1>1 DEF IInv, StillToCome, Tenant
    <2>3. \A t \in Tenants :
              \/ ingested'[i][t] = NoResult
              \/ t # Tenant(i) /\ ingested'[i][t] = ingested[i][t]
        BY <1>3, <2>2 DEF TenantFails
    <2>4. NothingPrepared(i)
        BY <1>3 DEF TenantFails, NextTenant
    <2>5. CASE at[i] < Len(TENANTS)
        <3>1. at[i] + 1 \in 1..Len(TENANTS)
            BY <1>1, <2>5
        <3>2. pc' = [pc EXCEPT ![i] = "files"] /\ at' = [at EXCEPT ![i] = at[i] + 1]
            BY <1>1, <1>3, <2>5 DEF TenantFails, NextTenant, Goto
        <3> QED
            BY <2>1, <2>3, <2>4, <3>1, <3>2, NothingPreparedKeeps
    <2>6. CASE at[i] = Len(TENANTS)
        <3>1. 1 \in 1..Len(TENANTS)
            BY <1>1
        <3>2. pc' = [pc EXCEPT ![i] = "done"] /\ at' = [at EXCEPT ![i] = 1]
            BY <1>1, <1>3, <2>6 DEF TenantFails, NextTenant, Goto
        <3> QED
            BY <2>1, <2>3, <2>4, <3>1, <3>2, NothingPreparedKeeps
    <2> QED
        BY <1>1, <2>5, <2>6
<1> QED
    BY <1>2, <1>3

\* The next request of the same tenant, up to the reading of its files.
LEMMA GotoKeeps ==
    ASSUME IInv, NEW i \in Ingestors, Alive(i), TouchesOwn(i), ~Writing(i),
           NEW s \in Steps \ {"upsert"}, Goto(i, s), UNCHANGED <<tenantVars, ingested>>,
           s = "read" => collection'[Target(i)] = {}
    PROVE  RunKeeps(i)
<1>1. pc'[i] = s /\ \A j \in Ingestors \ {i} : pc'[j] = pc[j]
    BY DEF IInv, TypeOK, Goto
<1>2. UNCHANGED <<at, points, sent, attempt, ingested>>
    BY DEF tenantVars
<1>3. pc' \in [Ingestors -> Steps \cup {"idle", "done"}]
    BY DEF IInv, TypeOK, Goto
<1>4. UNCHANGED <<Tenant(i), Target(i)>> /\ ~Writing(i)'
    BY <1>1, <1>2 DEF Tenant, Target, collection_name, Writing
<1>5. ASSUME fresh[i], NEW t \in Tenants, ingested'[i][t] # NoResult
      PROVE  collection'[t] = ingested'[i][t]
    <2>1. ingested[i][Tenant(i)] = NoResult
        BY Here DEF IInv, StillToCome, Tenant
    <2>2. collection'[t] = collection[t]
        BY <1>2, <1>5, <2>1, Here DEF IInv, TouchesOwn
    <2> QED
        BY <1>2, <1>5, <2>2 DEF IInv, IngestedOnce
<1> QED
    BY <1>1, <1>2, <1>3, <1>4, <1>5 DEF IInv, TypeOK, PreparedAreOwn, StillToCome, RunKeeps

-----------------------------------------------------------------------------
(* The steps *)

LEMMA InitIInv == Init => IInv
<1> SUFFICES ASSUME Init PROVE IInv
    OBVIOUS
<1>1. 1 \in 1..Len(TENANTS) /\ <<>> \in Seq(Points) /\ 0 \in 0..MaxRuns
      /\ 0 \in 0..(UPSERT_MAX_RETRIES - 1) /\ 0 \in 0..(QDRANT_QUERY_MAX_RETRIES - 1)
    BY KnowledgeAssumption
<1>2. TypeOK
    <2>1. /\ pc \in [Ingestors -> Steps \cup {"idle", "done"}]
          /\ run \in [Ingestors -> 0..MaxRuns]
          /\ at \in [Ingestors -> 1..Len(TENANTS)]
        BY <1>1 DEF Init
    <2>2. /\ points \in [Ingestors -> Seq(Points)]
          /\ sent \in [Ingestors -> Nat]
          /\ \A i \in Ingestors : sent[i] <= Len(points[i])
          /\ attempt \in [Ingestors -> 0..(UPSERT_MAX_RETRIES - 1)]
        BY <1>1 DEF Init
    <2>3. DOMAIN ingested = Ingestors /\ \A i \in Ingestors : DOMAIN ingested[i] = Tenants
        BY DEF Init, NoResults
    <2>4. /\ asked \in [Callers -> Tenants \cup {NoTenant}]
          /\ waiting \in [Callers -> BOOLEAN]
          /\ tries \in [Callers -> 0..(QDRANT_QUERY_MAX_RETRIES - 1)]
          /\ found \in [Callers -> SUBSET Points]
          /\ fresh \in [Ingestors -> BOOLEAN]
        BY <1>1 DEF Init
    <2>5. /\ DOMAIN collection = Tenants
          /\ \A t \in Tenants : collection[t] # Missing => collection[t] \subseteq Points
        BY DEF Init
    <2>6. runs \in 0..MaxRuns
        BY <1>1 DEF Init
    <2>7. overlap \in BOOLEAN
        BY DEF Init
    <2> QED
        BY <2>1, <2>2, <2>3, <2>4, <2>5, <2>6, <2>7 DEF TypeOK
<1>3. AloneOrOverlap /\ StillToCome
    BY DEF Init, AloneOrOverlap, StillToCome, Alive, Steps
<1>4. PreparedAreOwn /\ StoredAreOwn /\ InProgress
    BY DEF Init, PreparedAreOwn, StoredAreOwn, InProgress, Writing, Alive, Steps
<1>5. IngestedOnce /\ FoundIsOwn /\ WaitingForTenant
    BY DEF Init, IngestedOnce, FoundIsOwn, WaitingForTenant
<1> QED
    BY <1>2, <1>3, <1>4, <1>5 DEF IInv

\* A run starts: it is alone, or overlap is set.
LEMMA StartKeeps ==
    ASSUME IInv, NEW i \in Ingestors, Start(i)
    PROVE  IInv'
<1>1. UNCHANGED <<collection, at, points, sent, attempt, asked, waiting, tries, found>>
    BY DEF Start, tenantVars, callVars
<1>2. /\ runs' = runs + 1 /\ runs' \in 1..MaxRuns
      /\ run' = [run EXCEPT ![i] = runs'] /\ pc' = [pc EXCEPT ![i] = "files"]
      /\ ingested' = [ingested EXCEPT ![i] = NoResults]
      /\ fresh' = [j \in Ingestors |-> j = i /\ ~OthersAlive(i)]
      /\ overlap' = (overlap \/ OthersAlive(i)) /\ ~Alive(i)
    BY KnowledgeAssumption DEF IInv, TypeOK, Start
<1>3. /\ pc'[i] = "files" /\ run'[i] = runs' /\ ingested'[i] = NoResults
      /\ \A j \in Ingestors \ {i} :
            pc'[j] = pc[j] /\ run'[j] = run[j] /\ ingested'[j] = ingested[j]
    BY <1>2 DEF IInv, TypeOK
<1>4. ~Writing(i) /\ points[i] = <<>>
    BY <1>2 DEF IInv, PreparedAreOwn, Writing, Alive, Steps
<1>5. TypeOK'
    <2>1. pc' \in [Ingestors -> Steps \cup {"idle", "done"}] /\ run' \in [Ingestors -> 0..MaxRuns]
        BY <1>2 DEF IInv, TypeOK, Steps
    <2>2. DOMAIN ingested' = Ingestors /\ \A j \in Ingestors : DOMAIN ingested'[j] = Tenants
        BY <1>2, <1>3 DEF IInv, TypeOK, NoResults
    <2>3. fresh' \in [Ingestors -> BOOLEAN] /\ overlap' \in BOOLEAN
        BY <1>2 DEF IInv, TypeOK, OthersAlive
    <2>4. runs' \in 0..MaxRuns
        BY <1>2 DEF IInv, TypeOK
    <2> QED
        BY <1>1, <2>1, <2>2, <2>3, <2>4 DEF IInv, TypeOK
<1>6. AloneOrOverlap'
    BY <1>2, <1>3 DEF IInv, AloneOrOverlap, Alive, OthersAlive
<1>7. PreparedAreOwn'
    <2> SUFFICES ASSUME NEW j \in Ingestors
                 PROVE  /\ Alive(j)' => run'[j] \in 1..MaxRuns
                        /\ ~Writing(j)' => points'[j] = <<>>
                        /\ \A k \in 1..Len(points'[j]) :
                              points'[j][k].tenant = Tenant(j)' /\ points'[j][k].run = run'[j]
        BY DEF PreparedAreOwn
    <2>1. CASE j = i
        BY <1>1, <1>2, <1>3, <1>4, <2>1
    <2>2. CASE j # i
        BY <1>1, <1>3, <2>2 DEF IInv, PreparedAreOwn, Alive, Writing, Tenant
    <2> QED
        BY <2>1, <2>2
<1>8. StoredAreOwn'
    BY <1>1, <1>2 DEF IInv, StoredAreOwn
<1>9. InProgress'
    <2>1. \A j \in Ingestors : fresh'[j] => j = i
        BY <1>2
    <2> QED
        BY <1>3, <2>1 DEF InProgress, Writing
<1>10. StillToCome'
    <2> SUFFICES ASSUME NEW j \in Ingestors, Alive(j)',
                        NEW k \in 1..Len(TENANTS), at'[j] <= k
                 PROVE  ingested'[j][TENANTS[k]] = NoResult
        BY DEF StillToCome
    <2>1. TENANTS[k] \in Tenants
        BY DEF Tenants
    <2>2. CASE j = i
        BY <1>3, <2>1, <2>2 DEF NoResults
    <2>3. CASE j # i
        BY <1>1, <1>3, <2>3 DEF IInv, StillToCome, Alive
    <2> QED
        BY <2>2, <2>3
<1>11. IngestedOnce'
    <2>1. \A j \in Ingestors : fresh'[j] => j = i
        BY <1>2
    <2>2. \A t \in Tenants : ingested'[i][t] = NoResult
        BY <1>3 DEF NoResults
    <2> QED
        BY <2>1, <2>2 DEF IngestedOnce
<1>12. FoundIsOwn' /\ WaitingForTenant'
    BY <1>1, <1>2 DEF IInv, FoundIsOwn, WaitingForTenant
<1> QED
    BY <1>5, <1>6, <1>7, <1>8, <1>9, <1>10, <1>11, <1>12 DEF IInv

\* A run may end at any request, and a tenant at some.
LEMMA EndsKeep ==
    ASSUME IInv, NEW i \in Ingestors, Alive(i), UNCHANGED <<startVars, callVars>>,
           TenantFails(i) \/ Abort(i),
           \/ UNCHANGED collection
           \/ collection' = [collection EXCEPT ![Target(i)] = Missing]
           \/ collection' = [collection EXCEPT ![Target(i)] = {}]
           \/ Stored(i)
    PROVE  IInv'
<1>1. Target(i) \in Tenants
    BY Here DEF IInv
<1>2. TouchesOwn(i)
    BY <1>1 DEF IInv, TypeOK, TouchesOwn, Stored
<1>3. \/ collection'[Target(i)] = collection[Target(i)]
      \/ collection'[Target(i)] = Missing
      \/ collection'[Target(i)] = {}
      \/ /\ collection[Target(i)] # Missing
         /\ collection'[Target(i)] = collection[Target(i)] \cup Batch(i)
    BY <1>1 DEF IInv, TypeOK, Stored
<1> QED
    BY <1>2, <1>3, FailsKeeps, RunStepKeeps

\* The requests before the files are read.
LEMMA PreparingKeeps ==
    ASSUME IInv, NEW i \in Ingestors,
           FindFiles(i) \/ CollectionExists(i) \/ DeleteCollection(i) \/ CreateCollection(i)
    PROVE  IInv'
<1>1. Alive(i) /\ ~Writing(i) /\ UNCHANGED <<startVars, callVars>>
    BY DEF FindFiles, CollectionExists, DeleteCollection, CreateCollection, Alive, Steps, Writing
<1>2. Target(i) \in Tenants
    BY Here DEF IInv
<1>3. CASE /\ TenantFails(i) \/ Abort(i)
           /\ \/ UNCHANGED collection
              \/ collection' = [collection EXCEPT ![Target(i)] = Missing]
              \/ collection' = [collection EXCEPT ![Target(i)] = {}]
    BY <1>1, <1>3, EndsKeep
<1>4. ASSUME UNCHANGED <<tenantVars, ingested>>, NEW s \in Steps \ {"upsert"}, Goto(i, s),
             \/ UNCHANGED collection /\ s # "read"
             \/ collection' = [collection EXCEPT ![Target(i)] = Missing] /\ s # "read"
             \/ collection' = [collection EXCEPT ![Target(i)] = {}]
      PROVE  IInv'
    <2>1. TouchesOwn(i)
        BY <1>2, <1>4 DEF IInv, TypeOK, TouchesOwn
    <2>2. s = "read" => collection'[Target(i)] = {}
        BY <1>2, <1>4 DEF IInv, TypeOK
    <2>3. \/ collection'[Target(i)] = collection[Target(i)]
          \/ collection'[Target(i)] = Missing
          \/ collection'[Target(i)] = {}
        BY <1>2, <1>4 DEF IInv, TypeOK
    <2> QED
        BY <1>1, <1>4, <2>1, <2>2, <2>3, GotoKeeps, RunStepKeeps
<1>5. CASE FindFiles(i)
    BY <1>3, <1>4, <1>5 DEF FindFiles, Steps
<1>6. CASE CollectionExists(i)
    BY <1>3, <1>4, <1>6 DEF CollectionExists, Steps
<1>7. CASE DeleteCollection(i)
    BY <1>3, <1>4, <1>7 DEF DeleteCollection, Steps
<1>8. CASE CreateCollection(i)
    BY <1>3, <1>4, <1>8 DEF CreateCollection, Steps
<1> QED
    BY <1>5, <1>6, <1>7, <1>8

\* What is read is a sequence of points of this tenant and this run.
LEMMA PreparedPoints ==
    ASSUME NEW t \in Tenants, NEW r \in 1..MaxRuns, NEW d \in Documents
    PROVE  /\ Prepared(t, r, d) \in Seq(Points)
           /\ Len(Prepared(t, r, d)) = Len(d)
           /\ \A k \in 1..Len(Prepared(t, r, d)) :
                 Prepared(t, r, d)[k].tenant = t /\ Prepared(t, r, d)[k].run = r
<1>1. d \in Seq(Texts) /\ Len(d) \in Nat
    BY KnowledgeAssumption
<1>2. \A k \in 1..Len(d) :
          [tenant |-> t, run |-> r, place |-> k, text |-> d[k]] \in Points
    BY <1>1 DEF Points
<1> QED
    BY <1>1, <1>2 DEF Prepared

\* The points are prepared over an empty collection.
LEMMA ReadKeeps ==
    ASSUME IInv, NEW i \in Ingestors, Read(i)
    PROVE  IInv'
<1>1. Alive(i) /\ ~Writing(i) /\ pc[i] = "read" /\ UNCHANGED <<collection, startVars, callVars>>
    BY DEF Read, Alive, Steps, Writing
<1>2. CASE TenantFails(i) \/ Abort(i)
    BY <1>1, <1>2, EndsKeep
<1>3. ASSUME NEW d \in Documents, points' = [points EXCEPT ![i] = Prepared(Tenant(i), run[i], d)],
             Goto(i, "upsert"), UNCHANGED <<at, sent, attempt, ingested>>
      PROVE  IInv'
    <2> DEFINE s == Prepared(Tenant(i), run[i], d)
    <2>1. run[i] \in 1..MaxRuns /\ Tenant(i) \in Tenants /\ points[i] = <<>>
        BY <1>1, Here DEF IInv, PreparedAreOwn
    <2>2. /\ s \in Seq(Points)
          /\ \A k \in 1..Len(s) : s[k].tenant = Tenant(i) /\ s[k].run = run[i]
        BY <2>1, PreparedPoints
    <2>3. sent[i] = 0
        BY <2>1 DEF IInv, TypeOK
    <2>4. points'[i] = s /\ points' \in [Ingestors -> Seq(Points)]
        BY <1>3, <2>2 DEF IInv, TypeOK
    <2> HIDE DEF s
    <2>5. /\ pc' \in [Ingestors -> Steps \cup {"idle", "done"}] /\ pc'[i] = "upsert"
          /\ \A j \in Ingestors \ {i} : pc'[j] = pc[j] /\ points'[j] = points[j]
        BY <1>3 DEF IInv, TypeOK, Goto, Steps
    <2>6. UNCHANGED <<Tenant(i), Target(i)>>
        BY <1>3 DEF Tenant, Target, collection_name
    <2>7. sent'[i] = 0 /\ First(i, sent[i])' = {}
        BY <1>3, <2>3 DEF First
    <2>8. fresh[i] => collection'[Target(i)'] = {}
        BY <1>1, <2>6 DEF IInv, InProgress
    <2>9. RunKeeps(i)
        <3>1. sent'[i] <= Len(points'[i])
            BY <2>2, <2>4, <2>7
        <3>2. ASSUME fresh[i], NEW t \in Tenants, ingested'[i][t] # NoResult
              PROVE  collection'[t] = ingested'[i][t]
            BY <1>1, <1>3, <3>2 DEF IInv, IngestedOnce
        <3>3. \A k \in 1..Len(TENANTS) : at'[i] <= k => ingested'[i][TENANTS[k]] = NoResult
            BY <1>1, <1>3 DEF IInv, StillToCome
        <3> QED
            BY <1>3, <2>2, <2>4, <2>5, <2>6, <2>7, <2>8, <3>1, <3>2, <3>3
            DEF IInv, TypeOK, RunKeeps, Writing
    <2>10. TouchesOwn(i)
        BY <1>1 DEF IInv, TypeOK, TouchesOwn
    <2> QED
        BY <1>1, <2>9, <2>10, RunStepKeeps
<1> QED
    BY <1>2, <1>3 DEF Read

\* What is confirmed is there, and nothing but what is prepared.
LEMMA UpsertKeeps ==
    ASSUME IInv, NEW i \in Ingestors, Upsert(i)
    PROVE  IInv'
<1>1. Alive(i) /\ Writing(i) /\ UNCHANGED <<startVars, callVars>>
    BY DEF Upsert, Alive, Steps, Writing
<1>2. Target(i) \in Tenants
    BY Here DEF IInv
<1>3. /\ points[i] \in Seq(Points) /\ Len(points[i]) \in Nat /\ sent[i] \in Nat
      /\ sent[i] < Len(points[i])
    BY DEF IInv, TypeOK, Upsert
<1>4. /\ BatchEnd(i) \in Nat /\ BatchEnd(i) <= Len(points[i])
      /\ First(i, BatchEnd(i)) = First(i, sent[i]) \cup Batch(i)
    <2>1. UPSERT_BATCH_SIZE \in Nat \ {0}
        BY KnowledgeAssumption
    <2>2. /\ BatchEnd(i) \in Nat /\ BatchEnd(i) <= Len(points[i])
          /\ \A k \in 1..Len(points[i]) :
                k <= BatchEnd(i) <=>
                    k <= sent[i] \/ (sent[i] < k /\ k <= sent[i] + UPSERT_BATCH_SIZE)
        BY <1>3, <2>1 DEF BatchEnd
    <2>3. \A k \in 1..BatchEnd(i) : k \in 1..Len(points[i])
        BY <1>3, <2>2
    <2>4. \A k \in 1..sent[i] : k \in 1..Len(points[i])
        BY <1>3
    <2>5. \A k \in 1..Len(points[i]) :
              k \in 1..BatchEnd(i) <=> \/ k \in 1..sent[i]
                                       \/ sent[i] < k /\ k <= sent[i] + UPSERT_BATCH_SIZE
        BY <1>3, <2>2
    <2> QED
        BY <2>2, <2>3, <2>4, <2>5 DEF First, Batch
<1>5. CASE (TenantFails(i) \/ Abort(i)) /\ (Stored(i) \/ UNCHANGED collection)
    BY <1>1, <1>5, EndsKeep
<1>6. ASSUME UNCHANGED <<pc, at, points, ingested>>, Stored(i) \/ UNCHANGED collection,
             \/ UNCHANGED sent /\ attempt[i] + 1 < UPSERT_MAX_RETRIES
                /\ attempt' = [attempt EXCEPT ![i] = @ + 1]
             \/ Stored(i) /\ sent' = [sent EXCEPT ![i] = BatchEnd(i)]
                /\ attempt' = [attempt EXCEPT ![i] = 0]
      PROVE  IInv'
    <2>1. TouchesOwn(i)
        BY <1>2, <1>6 DEF IInv, TypeOK, TouchesOwn, Stored
    <2>2. \/ collection'[Target(i)] = collection[Target(i)]
          \/ /\ collection[Target(i)] # Missing
             /\ collection'[Target(i)] = collection[Target(i)] \cup Batch(i)
        BY <1>2, <1>6 DEF IInv, TypeOK, Stored
    <2>3. sent'[i] = sent[i] \/ (sent'[i] = BatchEnd(i)
              /\ collection'[Target(i)] = collection[Target(i)] \cup Batch(i))
        BY <1>2, <1>6 DEF IInv, TypeOK, Stored
    <2>4. /\ sent' \in [Ingestors -> Nat] /\ \A j \in Ingestors \ {i} : sent'[j] = sent[j]
          /\ sent'[i] <= Len(points'[i])
        BY <1>3, <1>4, <1>6 DEF IInv, TypeOK
    <2>5. attempt' \in [Ingestors -> 0..(UPSERT_MAX_RETRIES - 1)]
        <3>1. attempt[i] \in 0..(UPSERT_MAX_RETRIES - 1) /\ UPSERT_MAX_RETRIES \in Nat \ {0}
            BY KnowledgeAssumption DEF IInv, TypeOK
        <3>2. /\ 0 \in 0..(UPSERT_MAX_RETRIES - 1)
              /\ attempt[i] + 1 < UPSERT_MAX_RETRIES =>
                     attempt[i] + 1 \in 0..(UPSERT_MAX_RETRIES - 1)
            BY <3>1
        <3> QED
            BY <1>6, <3>2 DEF IInv, TypeOK
    <2>6. UNCHANGED <<Tenant(i), Target(i), AllOf(i), Writing(i), Alive(i)>>
        BY <1>6 DEF Tenant, Target, collection_name, AllOf, First, Writing, Alive
    <2>7. ASSUME fresh[i]
          PROVE  /\ First(i, sent[i])' \subseteq collection'[Target(i)]
                 /\ collection'[Target(i)] \subseteq AllOf(i)
        <3>1. First(i, sent[i]) \subseteq collection[Target(i)]
              /\ collection[Target(i)] \subseteq AllOf(i)
            BY <1>1, <2>7 DEF IInv, InProgress
        <3>2. Batch(i) \subseteq AllOf(i)
            BY BatchIsPrepared DEF IInv
        <3>3. First(i, sent[i])' = First(i, sent'[i])
            BY <1>6 DEF First
        <3> QED
            BY <1>4, <2>2, <2>3, <3>1, <3>2, <3>3
    <2>8. ASSUME fresh[i], NEW t \in Tenants, ingested'[i][t] # NoResult
          PROVE  collection'[t] = ingested'[i][t]
        <3>1. ingested[i][Tenant(i)] = NoResult
            BY <1>1, Here DEF IInv, StillToCome, Tenant
        <3>2. collection'[t] = collection[t]
            BY <1>6, <2>1, <2>8, <3>1, Here DEF IInv, TouchesOwn
        <3> QED
            BY <1>6, <2>8, <3>2 DEF IInv, IngestedOnce
    <2>9. RunKeeps(i)
        <3>1. \A k \in 1..Len(TENANTS) : at'[i] <= k => ingested'[i][TENANTS[k]] = NoResult
            BY <1>1, <1>6 DEF IInv, StillToCome
        <3>2. \A k \in 1..Len(points'[i]) :
                  points'[i][k].tenant = Tenant(i)' /\ points'[i][k].run = run[i]
            BY <1>6, <2>6 DEF IInv, PreparedAreOwn
        <3>3. pc'[i] = "upsert"
            BY <1>1, <1>6 DEF Writing
        <3> QED
            BY <1>1, <1>6, <2>4, <2>5, <2>6, <2>7, <2>8, <3>1, <3>2, <3>3
            DEF IInv, TypeOK, RunKeeps
    <2> QED
        BY <1>1, <2>1, <2>2, <2>9, RunStepKeeps
<1>7. CASE UpsertFails(i) /\ UNCHANGED sent /\ (Stored(i) \/ UNCHANGED collection)
    BY <1>5, <1>6, <1>7 DEF UpsertFails
<1> QED
    BY <1>5, <1>6 DEF Upsert, UpsertFails, TenantFails, NextTenant, NothingPrepared

\* What is reported is what the collection holds.
LEMMA IngestedKeeps ==
    ASSUME IInv, NEW i \in Ingestors, Ingested(i)
    PROVE  IInv'
<1>1. /\ Alive(i) /\ Writing(i) /\ sent[i] = Len(points[i])
      /\ UNCHANGED <<collection, startVars, callVars>> /\ NextTenant(i)
    BY DEF Ingested, Alive, Steps, Writing
<1>2. at[i] \in 1..Len(TENANTS) /\ Len(TENANTS) \in Nat /\ Tenant(i) \in Tenants
      /\ Target(i) = Tenant(i)
    BY Here DEF IInv
<1>3. TouchesOwn(i)
    BY <1>1 DEF IInv, TypeOK, TouchesOwn
<1>4. fresh[i] => collection[Tenant(i)] = AllOf(i)
    <2>1. First(i, sent[i]) = AllOf(i)
        BY <1>1 DEF AllOf
    <2> QED
        BY <1>1, <1>2, <2>1 DEF IInv, InProgress
<1>5. /\ DOMAIN ingested' = Ingestors /\ DOMAIN ingested'[i] = Tenants
      /\ \A j \in Ingestors \ {i} : ingested'[j] = ingested[j]
      /\ ingested'[i][Tenant(i)] = AllOf(i)
      /\ \A t \in Tenants \ {Tenant(i)} : ingested'[i][t] = ingested[i][t]
    BY <1>2 DEF IInv, TypeOK, Ingested, AllOf, First
<1>6. \A t \in Tenants :
          \/ t # Tenant(i) /\ ingested'[i][t] = ingested[i][t]
          \/ t = Tenant(i) /\ (fresh[i] => collection'[t] = ingested'[i][t])
    BY <1>1, <1>4, <1>5
<1>7. NothingPrepared(i)
    BY <1>1 DEF NextTenant
<1>8. RunKeeps(i)
    <2>1. CASE at[i] < Len(TENANTS)
        <3>1. at[i] + 1 \in 1..Len(TENANTS)
            BY <1>2, <2>1
        <3>2. pc' = [pc EXCEPT ![i] = "files"] /\ at' = [at EXCEPT ![i] = at[i] + 1]
            BY <1>1, <1>2, <2>1 DEF NextTenant, Goto
        <3> QED
            BY <1>1, <1>3, <1>5, <1>6, <1>7, <3>1, <3>2, NothingPreparedKeeps
    <2>2. CASE at[i] = Len(TENANTS)
        <3>1. 1 \in 1..Len(TENANTS)
            BY <1>2
        <3>2. pc' = [pc EXCEPT ![i] = "done"] /\ at' = [at EXCEPT ![i] = 1]
            BY <1>1, <1>2, <2>2 DEF NextTenant, Goto
        <3> QED
            BY <1>1, <1>3, <1>5, <1>6, <1>7, <3>1, <3>2, NothingPreparedKeeps
    <2> QED
        BY <1>2, <2>1, <2>2
<1> QED
    BY <1>1, <1>3, <1>8, RunStepKeeps

\* A search finds what a collection holds at one moment.
LEMMA RetrieveKeeps ==
    ASSUME IInv, NEW c \in Callers, Retrieve(c)
    PROVE  IInv'
<1>1. UNCHANGED <<collection, pc, at, points, sent, attempt, ingested, runs, run, fresh, overlap>>
    BY DEF Retrieve, runVars, tenantVars, startVars
<1>2. /\ asked' \in [Callers -> Tenants \cup {NoTenant}]
      /\ waiting' \in [Callers -> BOOLEAN]
      /\ tries' \in [Callers -> 0..(QDRANT_QUERY_MAX_RETRIES - 1)]
    <2>1. \A e \in Callers : tries[e] \in 0..(QDRANT_QUERY_MAX_RETRIES - 1)
        BY DEF IInv, TypeOK
    <2>2. 0 \in 0..(QDRANT_QUERY_MAX_RETRIES - 1) /\ QDRANT_QUERY_MAX_RETRIES \in Nat
        BY KnowledgeAssumption
    <2>3. tries[c] + 1 < QDRANT_QUERY_MAX_RETRIES =>
              tries[c] + 1 \in 0..(QDRANT_QUERY_MAX_RETRIES - 1)
        BY <2>1, <2>2
    <2>4. CASE \E t \in Tenants : Ask(c, t)
        BY <2>4 DEF IInv, TypeOK, Ask
    <2>5. CASE \E chunks \in SUBSET Points : Answered(c, chunks)
        BY <2>2, <2>5 DEF IInv, TypeOK, Answered
    <2>6. CASE /\ tries[c] + 1 < QDRANT_QUERY_MAX_RETRIES
               /\ tries' = [tries EXCEPT ![c] = @ + 1]
               /\ UNCHANGED <<asked, waiting, found>>
        BY <2>3, <2>6 DEF IInv, TypeOK
    <2>7. CASE \E chunks : Answered(c, chunks)
        BY <2>2, <2>7 DEF IInv, TypeOK, Answered
    <2> QED
        BY <2>4, <2>6, <2>7 DEF Retrieve, SearchAnswers, SearchFails, SearchRefused
<1>3. \A e \in Callers \ {c} : found'[e] = found[e] /\ asked'[e] = asked[e]
    BY DEF IInv, TypeOK, Retrieve, Ask, SearchAnswers, SearchFails, SearchRefused, Answered
<1>4. \/ found'[c] = {}
      \/ found'[c] = found[c] /\ asked'[c] = asked[c]
      \/ /\ collection[asked[c]] # Missing /\ asked'[c] = asked[c]
         /\ found'[c] \subseteq collection[asked[c]] /\ waiting[c]
    BY DEF IInv, TypeOK, Retrieve, Ask, SearchAnswers, SearchFails, SearchRefused, Answered
<1>5. waiting[c] => asked[c] \in Tenants
    BY DEF IInv, WaitingForTenant
<1>6. found' \in [Callers -> SUBSET Points]
    <2>1. \A t \in Tenants : collection[t] # Missing => collection[t] \subseteq Points
        BY DEF IInv, TypeOK
    <2>2. found'[c] \subseteq Points
        BY <1>4, <1>5, <2>1 DEF IInv, TypeOK
    <2>3. \E s : found' = [found EXCEPT ![c] = s]
        BY DEF IInv, TypeOK, Retrieve, Ask, SearchAnswers, SearchFails, SearchRefused, Answered
    <2> QED
        BY <2>2, <2>3 DEF IInv, TypeOK
<1>7. TypeOK'
    BY <1>1, <1>2, <1>6 DEF IInv, TypeOK
<1>8. WaitingForTenant'
    BY DEF IInv, TypeOK, WaitingForTenant, Retrieve, Ask, SearchAnswers, SearchFails,
           SearchRefused, Answered
<1>9. AloneOrOverlap' /\ PreparedAreOwn'
    BY <1>1 DEF IInv, AloneOrOverlap, PreparedAreOwn, Alive, Writing, Tenant
<1>10. StoredAreOwn' /\ StillToCome' /\ IngestedOnce'
    BY <1>1 DEF IInv, StoredAreOwn, StillToCome, IngestedOnce, Alive
<1>11. InProgress'
    <2>1. \A i \in Ingestors :
              /\ First(i, sent[i])' = First(i, sent[i]) /\ AllOf(i)' = AllOf(i)
              /\ Target(i)' = Target(i) /\ Writing(i)' = Writing(i)
        BY <1>1 DEF First, AllOf, Tenant, Target, collection_name, Writing
    <2> QED
        BY <1>1, <2>1 DEF IInv, InProgress
<1>12. FoundIsOwn'
    <2> SUFFICES ASSUME NEW e \in Callers, NEW p \in found'[e]
                 PROVE  /\ p.tenant = asked'[e]
                        /\ ~overlap' => \A q \in found'[e] : q.run = p.run
        BY DEF FoundIsOwn
    <2>1. CASE found'[e] = found[e] /\ asked'[e] = asked[e]
        BY <1>1, <2>1 DEF IInv, FoundIsOwn
    <2>2. CASE /\ e = c /\ collection[asked[c]] # Missing /\ asked'[c] = asked[c]
               /\ found'[c] \subseteq collection[asked[c]] /\ waiting[c]
        BY <1>1, <1>5, <2>2 DEF IInv, StoredAreOwn
    <2> QED
        BY <1>3, <1>4, <2>1, <2>2
<1> QED
    BY <1>7, <1>8, <1>9, <1>10, <1>11, <1>12 DEF IInv

\* A step of a script or of a call, or none, keeps the invariant.
LEMMA StepKeeps ==
    ASSUME IInv, [Next]_vars
    PROVE  IInv'
<1>1. CASE UNCHANGED vars
    <2>1. UNCHANGED <<collection, pc, at, points, sent, attempt, ingested, runs, run,
                      fresh, overlap, asked, waiting, tries, found>>
        BY <1>1 DEF vars, runVars, tenantVars, startVars, callVars
    <2>2. TypeOK' /\ WaitingForTenant' /\ FoundIsOwn'
        BY <2>1 DEF IInv, TypeOK, WaitingForTenant, FoundIsOwn
    <2>3. AloneOrOverlap' /\ PreparedAreOwn'
        BY <2>1 DEF IInv, AloneOrOverlap, PreparedAreOwn, Alive, Writing, Tenant
    <2>4. StoredAreOwn' /\ StillToCome' /\ IngestedOnce'
        BY <2>1 DEF IInv, StoredAreOwn, StillToCome, IngestedOnce, Alive
    <2>5. InProgress'
        BY <2>1 DEF IInv, InProgress, Writing, First, AllOf, Tenant, Target, collection_name
    <2> QED
        BY <2>2, <2>3, <2>4, <2>5 DEF IInv
<1>2. ASSUME NEW i \in Ingestors, Killed(i)
      PROVE  IInv'
    BY <1>2, EndsKeep DEF Killed
<1>3. CASE Next
    BY <1>2, <1>3, StartKeeps, PreparingKeeps, ReadKeeps, UpsertKeeps, IngestedKeeps,
       RetrieveKeeps DEF Next, IngestTenant
<1> QED
    BY <1>1, <1>3

\* The invariant of the argument above.
THEOREM InductiveInvariant == Spec => []IInv
    BY InitIInv, StepKeeps, PTL DEF Spec

\* The variables keep their types.
THEOREM TypeCorrectness == Spec => []TypeOK
<1>1. IInv => TypeOK
    BY DEF IInv
<1> QED
    BY <1>1, InductiveInvariant, PTL

\* What a run reports is what is there, each point once (ingest_tenant).
THEOREM ReportedIsThere == Spec => []IngestedOnce
<1>1. IInv => IngestedOnce
    BY DEF IInv
<1> QED
    BY <1>1, InductiveInvariant, PTL

\* A call finds its own tenant's documents, of one edition (retrieve).
THEOREM FindsOwn == Spec => []FoundIsOwn
<1>1. IInv => FoundIsOwn
    BY DEF IInv
<1> QED
    BY <1>1, InductiveInvariant, PTL
==============================================================================

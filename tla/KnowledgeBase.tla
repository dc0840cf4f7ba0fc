----------------------------- MODULE KnowledgeBase -----------------------------
(***************************************************************************)
(* The collections of Qdrant, filled by runs of scripts/ingest_all.py      *)
(* (backend/rag/ingestor.py) while calls search them                       *)
(* (MultilingualRetriever.retrieve, backend/rag/retriever.py).             *)
(*                                                                         *)
(* One action per request to Qdrant.  A request may fail, be carried out   *)
(* with its answer lost, or never arrive; a run may be killed between two  *)
(* requests, and runs may overlap.  A document is the sequence of chunks   *)
(* BilingualChunker makes of a tenant's files, one file after the other;   *)
(* blank files yield none.                                                 *)
(*                                                                         *)
(* Left out: vectors, scores and languages, so a search finds any few      *)
(* points of its collection; the order of what it found; pauses between    *)
(* attempts; and the summary that is printed.  The files may be edited at  *)
(* any time, so each look at them sees any documents.  A request takes no  *)
(* effect after its sender has given it up.                                *)
(***************************************************************************)
EXTENDS Naturals, Sequences, FiniteSets

CONSTANTS TENANTS,      \* the tenants, in the order they are ingested
          Texts,        \* chunks of documents
          Documents,    \* what a tenant's directory may hold: sequences of Texts
          Ingestors,    \* processes of the script
          Callers,      \* calls that search
          UPSERT_BATCH_SIZE,
          UPSERT_MAX_RETRIES,
          QDRANT_QUERY_MAX_RETRIES,
          RERANK_TOP_K,
          MaxRuns,      \* bound: runs started
          Missing, NoTenant, NoResult

Tenants == {TENANTS[k] : k \in 1..Len(TENANTS)}

ASSUME KnowledgeAssumption ==
    /\ TENANTS \in Seq(Tenants) \ {<<>>}
    /\ \A j, k \in 1..Len(TENANTS) : TENANTS[j] = TENANTS[k] => j = k
    /\ \A d \in Documents : d \in Seq(Texts)
    /\ UPSERT_BATCH_SIZE \in Nat \ {0}
    /\ UPSERT_MAX_RETRIES \in Nat \ {0}
    /\ QDRANT_QUERY_MAX_RETRIES \in Nat \ {0}
    /\ RERANK_TOP_K \in Nat
    /\ MaxRuns \in Nat

\* Every tenant's points go into one collection.
SharedCollection(t) == TENANTS[1]

\* A collection of its own for every tenant; retrieve forms the same name.
collection_name(t) == t

VARIABLES
    collection,  \* [Tenants -> Missing, or a set of points]
    runs,        \* how many runs were started
    pc,          \* [Ingestors -> the step a run is about to make]
    run,         \* [Ingestors -> which run it is]
    at,          \* [Ingestors -> the entry of TENANTS it is about]
    points,      \* [Ingestors -> all_points]
    sent,        \* [Ingestors -> how many of them are confirmed]
    attempt,     \* [Ingestors -> attempts at the next batch that have failed]
    ingested,    \* [Ingestors -> results: for each tenant, the points reported]
    asked,       \* [Callers -> the tenant it searched for last]
    waiting,     \* [Callers -> the search is not over]
    tries,       \* [Callers -> attempts at the search that have failed]
    found,       \* [Callers -> the points its last search returned]
    fresh,       \* history: [Ingestors -> no other run was alive since it started]
    overlap      \* history: two runs were alive at once

tenantVars == <<at, points, sent, attempt>>
runVars == <<pc, tenantVars, ingested>>
startVars == <<runs, run, fresh, overlap>>
callVars == <<asked, waiting, tries, found>>
vars == <<collection, runVars, startVars, callVars>>

Points == [tenant : Tenants, run : 1..MaxRuns, place : Nat \ {0}, text : Texts]

Steps == {"files", "exists", "delete", "create", "read", "upsert"}

TypeOK ==
    /\ DOMAIN collection = Tenants
    /\ \A t \in Tenants : collection[t] # Missing => collection[t] \subseteq Points
    /\ runs \in 0..MaxRuns
    /\ pc \in [Ingestors -> Steps \cup {"idle", "done"}]
    /\ run \in [Ingestors -> 0..MaxRuns]
    /\ at \in [Ingestors -> 1..Len(TENANTS)]
    /\ points \in [Ingestors -> Seq(Points)]
    /\ sent \in [Ingestors -> Nat]
    /\ \A i \in Ingestors : sent[i] <= Len(points[i])
    /\ attempt \in [Ingestors -> 0..(UPSERT_MAX_RETRIES - 1)]
    /\ DOMAIN ingested = Ingestors
    /\ \A i \in Ingestors : DOMAIN ingested[i] = Tenants
    /\ asked \in [Callers -> Tenants \cup {NoTenant}]
    /\ waiting \in [Callers -> BOOLEAN]
    /\ tries \in [Callers -> 0..(QDRANT_QUERY_MAX_RETRIES - 1)]
    /\ found \in [Callers -> SUBSET Points]
    /\ fresh \in [Ingestors -> BOOLEAN]
    /\ overlap \in BOOLEAN

NoResults == [t \in Tenants |-> NoResult]

Init ==
    /\ collection = [t \in Tenants |-> Missing]
    /\ runs = 0
    /\ pc = [i \in Ingestors |-> "idle"]
    /\ run = [i \in Ingestors |-> 0]
    /\ at = [i \in Ingestors |-> 1]
    /\ points = [i \in Ingestors |-> <<>>]
    /\ sent = [i \in Ingestors |-> 0]
    /\ attempt = [i \in Ingestors |-> 0]
    /\ ingested = [i \in Ingestors |-> NoResults]
    /\ asked = [c \in Callers |-> NoTenant]
    /\ waiting = [c \in Callers |-> FALSE]
    /\ tries = [c \in Callers |-> 0]
    /\ found = [c \in Callers |-> {}]
    /\ fresh = [i \in Ingestors |-> FALSE]
    /\ overlap = FALSE

Alive(i) == pc[i] \in Steps
OthersAlive(i) == \E j \in Ingestors \ {i} : Alive(j)
Tenant(i) == TENANTS[at[i]]
Target(i) == collection_name(Tenant(i))

-----------------------------------------------------------------------------
(* The course of a run *)

Start(i) ==
    /\ ~Alive(i)
    /\ runs < MaxRuns
    /\ runs' = runs + 1
    /\ run' = [run EXCEPT ![i] = runs + 1]
    /\ pc' = [pc EXCEPT ![i] = "files"]
    /\ ingested' = [ingested EXCEPT ![i] = NoResults]
    /\ fresh' = [j \in Ingestors |-> j = i /\ ~OthersAlive(i)]
    /\ overlap' = (overlap \/ OthersAlive(i))
    /\ UNCHANGED <<collection, tenantVars, callVars>>

Goto(i, step) == pc' = [pc EXCEPT ![i] = step]

NothingPrepared(i) ==
    /\ points' = [points EXCEPT ![i] = <<>>]
    /\ sent' = [sent EXCEPT ![i] = 0]
    /\ attempt' = [attempt EXCEPT ![i] = 0]

\* The loop goes on with the next tenant, whatever became of this one.
NextTenant(i) ==
    /\ NothingPrepared(i)
    /\ \/ /\ at[i] < Len(TENANTS)
          /\ at' = [at EXCEPT ![i] = @ + 1]
          /\ Goto(i, "files")
       \/ /\ at[i] = Len(TENANTS)
          /\ at' = [at EXCEPT ![i] = 1]
          /\ Goto(i, "done")

\* FileNotFoundError or RuntimeError.
TenantFails(i) == NextTenant(i) /\ UNCHANGED ingested

\* Any other exception is not caught, and what was ingested is not reported.
Abort(i) ==
    /\ NothingPrepared(i)
    /\ at' = [at EXCEPT ![i] = 1]
    /\ Goto(i, "idle")
    /\ ingested' = [ingested EXCEPT ![i] = NoResults]

Killed(i) ==
    /\ Alive(i)
    /\ Abort(i)
    /\ UNCHANGED <<collection, startVars, callVars>>

-----------------------------------------------------------------------------
(* ingest_tenant *)

\* No directory of the tenant, or no guidelines_*.txt in it.
FindFiles(i) ==
    /\ pc[i] = "files"
    /\ \/ Goto(i, "exists") /\ UNCHANGED <<tenantVars, ingested>>
       \/ TenantFails(i)
    /\ UNCHANGED <<collection, startVars, callVars>>

\* What is there already is kept.
ExistsIsEnough(i) ==
    /\ pc[i] = "exists"
    /\ \/ /\ Goto(i, IF collection[Target(i)] = Missing THEN "create" ELSE "read")
          /\ UNCHANGED <<tenantVars, ingested>>
       \/ Abort(i)
    /\ UNCHANGED <<collection, startVars, callVars>>

\* _recreate_collection: collection_exists, delete_collection, create_collection.
CollectionExists(i) ==
    /\ pc[i] = "exists"
    /\ \/ /\ Goto(i, IF collection[Target(i)] = Missing THEN "create" ELSE "delete")
          /\ UNCHANGED <<tenantVars, ingested>>
       \/ Abort(i)
    /\ UNCHANGED <<collection, startVars, callVars>>

DeleteCollection(i) ==
    /\ pc[i] = "delete"
    /\ \/ /\ collection' = [collection EXCEPT ![Target(i)] = Missing]
          /\ \/ Goto(i, "create") /\ UNCHANGED <<tenantVars, ingested>>
             \/ Abort(i)
       \/ Abort(i) /\ UNCHANGED collection
    /\ UNCHANGED <<startVars, callVars>>

\* One that exists is not created again.
CreateCollection(i) ==
    /\ pc[i] = "create"
    /\ \/ /\ collection[Target(i)] = Missing
          /\ collection' = [collection EXCEPT ![Target(i)] = {}]
          /\ \/ Goto(i, "read") /\ UNCHANGED <<tenantVars, ingested>>
             \/ Abort(i)
       \/ Abort(i) /\ UNCHANGED collection
    /\ UNCHANGED <<startVars, callVars>>

Prepared(t, r, d) ==
    [k \in 1..Len(d) |-> [tenant |-> t, run |-> r, place |-> k, text |-> d[k]]]

\* The files are read, cut and embedded; uuid4 names the points.
Read(i) ==
    /\ pc[i] = "read"
    /\ \/ /\ \E d \in Documents : points' = [points EXCEPT ![i] = Prepared(Tenant(i), run[i], d)]
          /\ Goto(i, "upsert")
          /\ UNCHANGED <<at, sent, attempt, ingested>>
       \/ TenantFails(i)
       \/ Abort(i)
    /\ UNCHANGED <<collection, startVars, callVars>>

Batch(i) ==
    {points[i][k] : k \in {n \in 1..Len(points[i]) :
                              sent[i] < n /\ n <= sent[i] + UPSERT_BATCH_SIZE}}

BatchEnd(i) ==
    IF sent[i] + UPSERT_BATCH_SIZE < Len(points[i])
    THEN sent[i] + UPSERT_BATCH_SIZE ELSE Len(points[i])

\* The upsert takes effect, also when the answer is lost.
Stored(i) ==
    /\ collection[Target(i)] # Missing
    /\ collection' = [collection EXCEPT ![Target(i)] = @ \cup Batch(i)]

\* One attempt too many.
UpsertFailsLate(i) ==
    \/ /\ attempt[i] < UPSERT_MAX_RETRIES
       /\ attempt' = [attempt EXCEPT ![i] = @ + 1]
       /\ UNCHANGED <<pc, at, points, sent, ingested>>
    \/ /\ attempt[i] = UPSERT_MAX_RETRIES
       /\ TenantFails(i)

\* The same batch again, or a RuntimeError.
UpsertFails(i) ==
    \/ /\ attempt[i] + 1 < UPSERT_MAX_RETRIES
       /\ attempt' = [attempt EXCEPT ![i] = @ + 1]
       /\ UNCHANGED <<pc, at, points, sent, ingested>>
    \/ /\ attempt[i] + 1 = UPSERT_MAX_RETRIES
       /\ TenantFails(i)

Upsert(i) ==
    /\ pc[i] = "upsert"
    /\ sent[i] < Len(points[i])
    /\ \/ /\ Stored(i)
          /\ sent' = [sent EXCEPT ![i] = BatchEnd(i)]
          /\ attempt' = [attempt EXCEPT ![i] = 0]
          /\ UNCHANGED <<pc, at, points, ingested>>
       \/ Stored(i) /\ UpsertFails(i)
       \/ UpsertFails(i) /\ UNCHANGED collection
    /\ UNCHANGED <<startVars, callVars>>

Ingested(i) ==
    /\ pc[i] = "upsert"
    /\ sent[i] = Len(points[i])
    /\ ingested' = [ingested EXCEPT ![i][Tenant(i)] = {points[i][k] : k \in 1..Len(points[i])}]
    /\ NextTenant(i)
    /\ UNCHANGED <<collection, startVars, callVars>>

IngestTenant(i) ==
    \/ FindFiles(i)
    \/ CollectionExists(i)
    \/ DeleteCollection(i)
    \/ CreateCollection(i)
    \/ Read(i)
    \/ Upsert(i)
    \/ Ingested(i)

-----------------------------------------------------------------------------
(* retrieve *)

Ask(c, t) ==
    /\ ~waiting[c]
    /\ asked' = [asked EXCEPT ![c] = t]
    /\ waiting' = [waiting EXCEPT ![c] = TRUE]
    /\ found' = [found EXCEPT ![c] = {}]
    /\ UNCHANGED tries

Answered(c, chunks) ==
    /\ waiting' = [waiting EXCEPT ![c] = FALSE]
    /\ tries' = [tries EXCEPT ![c] = 0]
    /\ found' = [found EXCEPT ![c] = chunks]
    /\ UNCHANGED asked

\* query_points answers, with nothing or with the best few.
SearchAnswers(c) ==
    /\ waiting[c]
    /\ collection[asked[c]] # Missing
    /\ \E chunks \in SUBSET collection[asked[c]] :
          Cardinality(chunks) <= RERANK_TOP_K /\ Answered(c, chunks)

\* Qdrant is not reached: again, or a RuntimeError.
SearchFails(c) ==
    /\ waiting[c]
    /\ \/ /\ tries[c] + 1 < QDRANT_QUERY_MAX_RETRIES
          /\ tries' = [tries EXCEPT ![c] = @ + 1]
          /\ UNCHANGED <<asked, waiting, found>>
       \/ /\ tries[c] + 1 = QDRANT_QUERY_MAX_RETRIES
          /\ Answered(c, {})

\* The collection is not there: an error that is not retried.
SearchRefused(c) ==
    /\ waiting[c]
    /\ collection[asked[c]] = Missing
    /\ Answered(c, {})

Retrieve(c) ==
    /\ \/ \E t \in Tenants : Ask(c, t)
       \/ SearchAnswers(c)
       \/ SearchFails(c)
       \/ SearchRefused(c)
    /\ UNCHANGED <<collection, runVars, startVars>>

-----------------------------------------------------------------------------

Next ==
    \/ \E i \in Ingestors : Start(i) \/ Killed(i) \/ IngestTenant(i)
    \/ \E c \in Callers : Retrieve(c)

Spec == Init /\ [][Next]_vars

-----------------------------------------------------------------------------
(* Properties *)

\* A run that reports a tenant's points has put them into its collection, each
\* once, and nothing else is there until another run starts: whatever earlier
\* runs left behind, and however often a batch was sent.
IngestedOnce ==
    \A i \in Ingestors, t \in Tenants :
        fresh[i] /\ ingested[i][t] # NoResult => collection[t] = ingested[i][t]

\* A caller hears of its own tenant only, and of one edition of its documents: a
\* search never mixes what two runs stored, unless they were alive at once.
FoundIsOwn ==
    \A c \in Callers : \A p \in found[c] :
        /\ p.tenant = asked[c]
        /\ ~overlap => \A q \in found[c] : q.run = p.run
=============================================================================

SPECIFICATION Spec
CONSTANTS
    Hdfc = hdfc
    Swiggy = swiggy
    Fees = fees
    Loans = loans
    TENANTS <- MCTenants
    Texts = {fees, loans}
    Documents <- MCDocuments
    Ingestors = {i1, i2}
    Callers = {c1}
    UPSERT_BATCH_SIZE = 1
    UPSERT_MAX_RETRIES = 2
    QDRANT_QUERY_MAX_RETRIES = 2
    RERANK_TOP_K = 2
    MaxRuns = 2
    Missing = Missing
    NoTenant = NoTenant
    NoResult = NoResult
SYMMETRY MCSymmetry
INVARIANTS
    TypeOK
    IngestedOnce
    FoundIsOwn
CHECK_DEADLOCK FALSE

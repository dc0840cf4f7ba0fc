SPECIFICATION Spec
CONSTANTS
    Hdfc = hdfc
    Swiggy = swiggy
    TENANT_SIP_CONFIG <- MCTenants
    Provisioners = {p1, p2}
    MaxRuns = 3
    MaxId = 6
SYMMETRY MCSymmetry
INVARIANTS
    TypeOK
    NeverDuplicated
    ReportIsTrue
CHECK_DEADLOCK FALSE

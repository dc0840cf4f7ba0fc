SPECIFICATION Spec
CONSTANTS
    GuardrailsEnabled = TRUE
    ModeratorAnswers = {TRUE, FALSE}
    Tenant = hdfc
    NoTenant = NoTenant
    OtherTenant = swiggy
    Chunks <- MCChunks
    SarvamEnabled = TRUE
    MaxRetries = 2
    MaxStrikes = 3
INVARIANTS
    TypeOK
    NoPiiSpoken
    PromptsPassRails
    EmergencyReachesHuman
PROPERTIES
    TurnIsAnswered
    TurnEnds
CHECK_DEADLOCK FALSE

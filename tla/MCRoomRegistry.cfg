SPECIFICATION Spec
CONSTANTS
    Inbound = {in1}
    Outbound = {out1}
    Rooms = {r1, r2}
    MaxConcurrent = 1
    NoRoom = NoRoom
    NoName = NoName
INVARIANTS
    TypeOK
    RegistryIsCurrent
    LeftMeansGone
PROPERTIES
    InboundUndisturbed
    CampaignReturns
CHECK_DEADLOCK FALSE

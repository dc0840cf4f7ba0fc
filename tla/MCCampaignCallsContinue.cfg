SPECIFICATION Safety
CONSTANTS
    Inbound = {in1}
    Outbound = {out1}
    Rooms = {r1, r2}
    MaxConcurrent = 1
    NoRoom = NoRoom
    NoName = NoName
INVARIANT
    CampaignCallsContinue
CHECK_DEADLOCK FALSE

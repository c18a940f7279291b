SPECIFICATION NavSpec
CONSTANTS
    nav = nav
    combat = combat
    safety = safety
    corpse = corpse
    NoOwner = NoOwner
    NoTarget = NoTarget
    Owners = {nav, combat, safety}
    NavLeaseOwner = nav
    Combat = combat
    Targets = {corpse}
    Channels = {"MOVEMENT"}
    Movement = "MOVEMENT"
    Requests <- SafetyRequests
    CooldownTicks = 1
    MaxGeneration = 3
    MaxTick = 3
    Keys = {}
    KeyFaults = {}
    DirectKeys = {}
    NavFaults = FALSE
INVARIANTS ClientUnderLease
PROPERTIES RevocationIsNoticed

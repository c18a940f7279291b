SPECIFICATION StackSpec
CONSTANTS
    grind = grind
    recover = recover
    combat = combat
    NoOwner = NoOwner
    Owners = {grind, recover, combat}
    Channels = {"MOVEMENT", "CASTING"}
    Movement = "MOVEMENT"
    Requests <- StackRequests
    CooldownTicks = 1
    MaxGeneration = 3
    MaxTick = 2
    Keys = {}
    KeyFaults = {}
    DirectKeys = {}
    NavFaults = FALSE
    Activities <- GrindAndRecover
    Services = {combat}
    MaxDepth = 2
INVARIANTS HoldingsAgree LentWhileOnStack
PROPERTIES GenerationsNeverReturn NoDirectHandover 

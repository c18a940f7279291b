SPECIFICATION TickSpec
CONSTANTS
    grind = grind
    rotation = rotation
    frostbolt = frostbolt
    NoOwner = NoOwner
    Owners = {grind, rotation}
    Channels = {"MOVEMENT", "CASTING"}
    Movement = "MOVEMENT"
    Requests <- TickRequests
    CooldownTicks = 1
    MaxGeneration = 2
    MaxTick = 2
    Keys = {"move_forward", "strafe_left"}
    KeyFaults = {}
    DirectKeys = {"move_forward"}
    NavFaults = FALSE
    Actions <- TwoActions
    OnGcd <- OneCast
    Executable <- TwoActions
    Moves <- TwoMoves
    MaxSubmissions = 2
INVARIANTS KeysFollowTheDesire
PROPERTIES OnlyLiveLeasesAct
CHECK_DEADLOCK FALSE

SPECIFICATION Spec
CONSTANTS
    grind = grind
    rotation = rotation
    safety = safety
    NoOwner = NoOwner
    Owners = {grind, safety}
    Channels = {"MOVEMENT", "CASTING"}
    Movement = "MOVEMENT"
    Requests <- BodyRequests
    CooldownTicks = 1
    MaxGeneration = 2
    MaxTick = 3
    Keys = {"move_forward", "strafe_left"}
    KeyFaults = {"strafe_left"}
    DirectKeys = {"move_forward"}
    NavFaults = FALSE
INVARIANTS TypeOK PressedAreDown
PROPERTIES BodyStopsWithTheLease KeepsHandoverPromise

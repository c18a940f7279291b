SPECIFICATION RaceSpec
CONSTANTS
    grind = grind
    quest = quest
    safety = safety
    NoOwner = NoOwner
    Channels = {"MOVEMENT", "CASTING", "FACING", "TARGETING"}
    Wanted = {"MOVEMENT"}
    Owners = {grind, safety}
    Contender = safety
    High = 90
    Low = 30
    Ranks = {30, 90}
    Cooldown = 3
PROPERTIES ContenderWins

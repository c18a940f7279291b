SPECIFICATION Spec
CONSTANTS
    rotation = rotation
    survival = survival
    frostbolt = frostbolt
    fireball = fireball
    iceblock = iceblock
    dance = dance
    Actions = {frostbolt, fireball, iceblock, dance}
    OnGcd = {frostbolt, fireball}
    Executable = {frostbolt, fireball, iceblock}
    Stamps <- TwoStamps
    MaxSubmissions = 3
INVARIANTS EveryIntentLeavesOnce  MostAuthorityWins

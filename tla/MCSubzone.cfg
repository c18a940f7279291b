SPECIFICATION ToolsSpec
CONSTANTS
    MaxRate = 10000
    Unreadable = Unreadable
    MaxDepth = 2
    MaxTokens = 24
    MaxByte = 255
    MaxWord = 65535
    Need <- ObjectiveNeed
    GoalBandEnd = 35
    MaxReward = 255
    NoPosition = NoPosition
    NoTarget = NoTarget
    ObjectiveItem <- ItemOf
    NoNpc = NoNpc
    Origin = Origin
    StepMenu <- Steps
    WordMenu <- Words
    TermMenu <- Arms
    LineMenu <- Lines
    Opening <- FirstLines
    MaxSteps = 0
    MaxWords = 0
    MaxTerms = 0
    MaxPieces = 2
    MaxFiles = 2
    Outages <- Failures
    DbNpcs <- Npcs
    DbQuests <- Quests
    DbItems <- Items
    DbSearch <- Search
    Zones <- ZoneTable
    Archetypes <- Characters
    ProjectOf <- ProjectAround
    Worlds <- Moments
    NotRead = NotRead
INVARIANTS WaitsHold
CHECK_DEADLOCK FALSE

SPECIFICATION ToolsSpec
CONSTANTS
    MaxRate = 10000
    Unreadable = Unreadable
    MaxDepth = 2
    MaxTokens = 24
    MaxByte = 255
    MaxWord = 65535
    Need <- ObjectiveNeed
    GoalBandEnd = 35
    MaxReward = 255
    NoPosition = NoPosition
    NoTarget = NoTarget
    ObjectiveItem <- ItemOf
    NoNpc = NoNpc
    Origin = Origin
    StepMenu <- Steps
    WordMenu <- Words
    TermMenu <- Arms
    LineMenu <- Lines
    Opening <- FirstLines
    MaxSteps = 4
    MaxWords = 5
    MaxTerms = 3
    MaxPieces = 4
    MaxFiles = 2
    Outages <- Failures
    DbNpcs <- Npcs
    DbQuests <- Quests
    DbItems <- Items
    DbSearch <- Search
    Zones <- ZoneTable
    Archetypes <- Characters
    ProjectOf <- ProjectAround
    Worlds <- Moments
    NotRead = NotRead
INVARIANTS
    ForksSplitTheAudience ConditionsReadAsWritten SameAsTailored EdgesLeadWhereWritten
    FarmsEndAtTheHandIn WalksAsWritten
    LostActionsAreReported
    LinesLeadToTheSource LibrariesAreSound 
 
CHECK_DEADLOCK FALSE

SPECIFICATION EditorSpec
CONSTANTS
    c1 = c1
    c2 = c2
    elwynn = elwynn
    P1 = P1
    P2 = P2
    Clients = {c1, c2}
    NoClient = NoClient
    Names = {elwynn}
    Slug <- OwnFiles
    Quests = {1}
    NoFile = NoFile
    Torn = Torn
    NoSession = NoSession
    NoCampaign = NoCampaign
    CampaignHistoryLimit = 2
    MaxIds = 2
    MaxCrashes = 1
    Editors = {c1, c2}
    Projects = {P1, P2}
    Actions = {"kill", "loot"}
    EarlierActions <- KillThenLoot
    Absent = Absent
    Partial = Partial
    NoProjectSession = NoProjectSession
    NoProject = NoProject
    ProjectHistoryLimit = 2
    MaxOperations = 2
    MaxActions = 2
    MaxRequests = 2
    MaxEdits = 2
    MaxStops = 1
INVARIANTS  FilesAreWhole SessionsAgreeWithFiles ProjectHistoryRewinds
PROPERTIES RenameKeepsOperations
SYMMETRY EditorSymmetry
CHECK_DEADLOCK FALSE

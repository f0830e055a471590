SPECIFICATION FairSpec
CONSTANTS
    Parts = {"requests", "queries", "recorder", "entry"}
    Calls = {1, 2}
    Mutating = {1}
    Statuses = {403, 418}
    MaxTokens = 2
    Screens <- PollingScreens
    ApiIds <- AllIds
    RecordingWorkspaces = {1}
    Slots = {c1, c2}
    MaxRequests = 1
    MaxSegments = 1
    MaxRecordingFaults = 1
    Overlaps <- Impatience
    BodylessEnds = {"refused", "served"}
    Workspaces = {1, 2}
    Credentials = {}
    Of <- NoCodes
    Visits <- AddressVisits
    MaxEntries = 2
    MaxEntryFaults = 1
    Results <- AllResults
    Made <- SomeOrNone
    MaxGenerations = 2
    MaxOrganizingFaults = 1
    Documents <- TwoDocuments
    MaxViewerMoves = 1
    MaxViewerFaults = 1
    Tabs = {a}
    MaxSeen = 1
    Storages = {"works", "blocked"}
    MaxVisits = 1
    MaxDrafts = 1
    MaxDockHistory = 3
    MaxPanelHistory = 2
    Sessions = {s}
    Messages <- ExampleMessages
    AddressIds <- EvidenceAddresses
    Folders <- NoFolders
    Parent <- NoParents
    MaxImports = 2
    MaxImportFailures = 1
CHECK_DEADLOCK FALSE
PROPERTIES
    JourneysEnd

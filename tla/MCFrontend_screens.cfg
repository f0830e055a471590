SPECIFICATION Spec
CONSTANTS
    Parts = {"organizing", "viewer", "hint", "dock", "panels", "sync"}
    Calls = {1, 2}
    Mutating = {1, 2}
    Statuses = {403, 418}
    MaxTokens = 3
    Screens <- AllScreens
    ApiIds <- AllIds
    RecordingWorkspaces = {1}
    Slots = {c1, c2}
    MaxRequests = 2
    MaxSegments = 2
    MaxRecordingFaults = 2
    Overlaps <- Patience
    BodylessEnds = {"refused", "served"}
    Workspaces = {1, 2, 3}
    Credentials = {"a", "b"}
    Of <- CodesOf
    Visits <- AllVisits
    MaxEntries = 2
    MaxEntryFaults = 1
    Results <- AllResults
    Made <- SomeOrNone
    MaxGenerations = 2
    MaxOrganizingFaults = 2
    Documents <- TwoDocuments
    MaxViewerMoves = 3
    MaxViewerFaults = 1
    Tabs = {a, b}
    MaxSeen = 3
    Storages = {"works", "full", "blocked"}
    MaxVisits = 4
    MaxDrafts = 2
    MaxDockHistory = 3
    MaxPanelHistory = 2
    Sessions = {s}
    Messages <- ExampleMessages
    AddressIds <- Addresses
    Folders <- NestedFolders
    Parent <- Nested
    MaxImports = 2
    MaxImportFailures = 2
CHECK_DEADLOCK FALSE
INVARIANTS
    DockIsSafe
    SyncIsSafe
PROPERTIES
    OrganizingIsSafe
    ViewerIsSafe
    HintIsSafe
    PanelsAreSafe

SPECIFICATION Spec
CONSTANTS
    Paths = {"a", "b"}
    Contents = {"1", "2"}
    Starts <- AllTrees
    Branches <- AllBranches
    Messages = {TRUE, FALSE}
    MaxRounds = 2
    MaxLines = 3
    MaxEdits = 1
    Runs = {"r1", "r2", "r3"}
    Script <- OneScriptEach
    Overlap = TRUE
    Days = {"d1", "d2"}
    Commits <- AllCommits
    Repos <- AllRepos
    Files <- AllFiles
    Endings <- SomeEndings
    Situations <- AllSituations
CHECK_DEADLOCK FALSE
INVARIANTS
    ScriptsAreSound
PROPERTIES
    TouchesOnlyApproved

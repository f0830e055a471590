SPECIFICATION Spec
CONSTANTS
    r1 = r1  r2 = r2  t1 = t1  t2 = t2  owner = owner  guest = guest  w1 = w1  w2 = w2
    Recordings = {r1}
    Topics = {t1}
    Classification = classification
    Members = {owner, guest}
    Owner <- RecordingOwner
    Workers = {w1, w2}
    Recoverers = {v1, v2}
    Cleaners = {c1, c2}
    MaxUserRetries = 1
    MaxAutomaticRetries = 1
    None = None
SYMMETRY WorkerSymmetry
CHECK_DEADLOCK FALSE
INVARIANTS
    SingleExecution
    InputHeldWhileNeeded
    RetryBudget
PROPERTIES
    SettledStays
    DeletedWorkspaceIsQuiet
    ImplementsProduction

SPECIFICATION FairSpec
CONSTANTS
    r1 = r1  r2 = r2  t1 = t1  t2 = t2  owner = owner  guest = guest  w1 = w1  w2 = w2
    Recordings = {r1}
    Topics = {t1}
    Classification = classification
    Members = {owner}
    Owner <- RecordingOwner
    Workers = {w1}
    Recoverers = {v1}
    Cleaners = {c1}
    MaxUserRetries = 1
    MaxAutomaticRetries = 1
    None = None
CHECK_DEADLOCK FALSE
PROPERTIES
    BatchFinishes
    LeftoversGo
    ImplementsFairProduction

SPECIFICATION FairSpec
CONSTANTS
    Uploads = {u1}
    Legacy = {u1}
    Clients = {c1, c2}
    Workers = {w1, w2}
    UrlTtl = 2
    InFlight = 1
    AudioRetention = 3
    UploadQuiescence = 3
    LegacyUrlValidity = 2
    ExecutionLease = 2
    MinBackoff = 1
    MaxBackoff = 2
    MaxAttempts = 3
    None = None
INVARIANTS
    TypeOK
    GoneForGood
    OneCurrentAttempt
    RewritesAreErasedAgain
PROPERTIES
    ImplementsLifecycle
    ConfirmedUploadIsDeleted

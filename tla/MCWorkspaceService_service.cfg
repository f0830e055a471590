SPECIFICATION Spec
CONSTANTS
    m1 = m1  m2 = m2  m3 = m3  w1 = w1  w2 = w2  v1 = v1  v2 = v2
    q1 = q1  q2 = q2  p1 = p1  p2 = p2  d1 = d1  d2 = d2
    Workspaces = {w1}
    Members = {m1, m2, m3}
    Viewers = {}
    RequestIds = {q1}
    Proofs = {p1}
    Documents = {d1}
    MaxTime = 5
    TicksPerMilli = 2
    None = None
SYMMETRY Symmetry
CONSTRAINT DocumentsOrClocks
CHECK_DEADLOCK FALSE
INVARIANTS
    DraftAwaitsSomebody
    DiscardNeverRefused
    RowsAreSound
PROPERTIES
    WhatIsOverStays
    ImplementsPromise

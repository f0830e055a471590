SPECIFICATION Spec
CONSTANTS
    m1 = m1  m2 = m2  m3 = m3  w1 = w1  w2 = w2  v1 = v1  v2 = v2
    q1 = q1  q2 = q2  p1 = p1  p2 = p2  d1 = d1  d2 = d2
    Workspaces = {w1, w2}
    Members = {m1, m2}
    Viewers = {v1, v2}
    RequestIds = {q1, q2}
    Proofs = {p1}
    Documents = {}
    MaxTime = 0
    TicksPerMilli = 1
    None = None
SYMMETRY Symmetry
CONSTRAINT RecordingsOrViews
CHECK_DEADLOCK FALSE
INVARIANTS
    OneOfEach

\* Two rows of one turn: a replayed dispatch.
SPECIFICATION Spec
CONSTANTS
    r1 = r1
    r2 = r2
    b1 = b1
    b2 = b2
    s1 = s1
    t1 = t1
    NoBrain = NoBrain
    Rows = {r1, r2}
    Brains = {b1}
    SessionOf <- OneSession
    MessageOf <- OneTurn
    POISON = 2
    MaxClaims = 1
    MaxNet = 2
    MaxRetries = 0
CHECK_DEADLOCK FALSE
SYMMETRY RowSymmetry
INVARIANTS
    OneActiveRowPerTurn
PROPERTIES
    ImplementsLifecycle

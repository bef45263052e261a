\* One row, two brains, two claims: a slow holder against its successor.
SPECIFICATION Spec
CONSTANTS
    r1 = r1
    r2 = r2
    b1 = b1
    b2 = b2
    s1 = s1
    t1 = t1
    NoBrain = NoBrain
    Rows = {r1}
    Brains = {b1, b2}
    SessionOf <- OneSession
    MessageOf <- OneTurn
    POISON = 3
    MaxClaims = 2
    MaxNet = 2
    MaxRetries = 0
CHECK_DEADLOCK FALSE
SYMMETRY BrainSymmetry
INVARIANTS
    TypeOK
    HolderColumnsAgree
    OneBrainPerGeneration
PROPERTIES
    LiveHolderKeepsItsRun

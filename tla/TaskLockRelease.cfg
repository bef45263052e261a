\* A forced release and an answer that is lost on its own.
SPECIFICATION Spec
CONSTANTS
    a1 = a1
    a2 = a2
    a3 = a3
    p1 = p1
    p2 = p2
    p3 = p3
    t1 = t1
    t2 = t2
    d1 = d1
    d2 = d2
    NoAttempt = NoAttempt
    NoProc = NoProc
    Attempts = {a1, a2}
    Procs = {p1, p2}
    TaskOf <- AllDifferent
    PodOf <- RestartedPod
    TTL = 4
    DEAD = 3
    REFRESH = 1
    READBACK = 0
    TIMEOUT = 1
    Skew = 0
    MaxGone = 0
    MaxForced = 1
    MaxLost = 1
SYMMETRY BrainSymmetry
PROPERTIES
    ForeignLockIsLeftAlone
    StandsDownOnlyWhenLost

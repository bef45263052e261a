\* Two deliveries of one task, two brains, one restarted in its pod; a write may be
\* stored late, and a taker's clock may be ahead by less than REFRESH.
SPECIFICATION Spec
CONSTANTS
    a1 = a1
    a2 = a2
    a3 = a3
    p1 = p1
    p2 = p2
    p3 = p3
    t1 = t1
    t2 = t2
    d1 = d1
    d2 = d2
    NoAttempt = NoAttempt
    NoProc = NoProc
    Attempts = {a1, a2}
    Procs = {p1, p2, p3}
    TaskOf <- Redelivered
    PodOf <- RestartedPod
    TTL = 5
    DEAD = 4
    REFRESH = 2
    READBACK = 1
    TIMEOUT = 1
    Skew = 1
    MaxGone = 1
    MaxForced = 0
    MaxLost = 0
SYMMETRY AttemptSymmetry
INVARIANTS
    TypeOK
    MutualExclusion
    WorkingRunIsProven

\* The shipped timings in units of 5 s (a lock TTL of 60 is the default 300 s), with a
\* shorter and a longer lock TTL and a small redelivery budget.
SPECIFICATION FairSpec
CONSTANTS
    ACK_WAIT = 24
    NAK_CEILING = 60
    LEASE_TTL = 9
    MAX_LEASE_TTL = 60
    HEARTBEAT = 3
    TICK = 12
    REFRESH = 2
    PROGRESS = 2
    LockTtls = {36, 60, 90}
    MaxDelivers = {8, 23}
CHECK_DEADLOCK FALSE
INVARIANTS
    TypeOK
    TakeoverIsNeverPreempted
PROPERTIES
    DeadRunIsSettled

SPECIFICATION FairSpec
CONSTANTS
    Jobs = {j1, j2}
    Workers = {w1}
    QueueSize = 1
    MaxRestarts = 0
    MaxFaults = 1
    Idle = Idle
    Dead = Dead
PROPERTY
    QueueServed
CHECK_DEADLOCK FALSE

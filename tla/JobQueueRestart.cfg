SPECIFICATION FairSpec
CONSTANTS
    Jobs = {j1, j2}
    Workers = {w1}
    QueueSize = 1
    MaxRestarts = 1
    MaxFaults = 0
    Idle = Idle
    Dead = Dead
PROPERTY
    JobsSettle
CHECK_DEADLOCK FALSE

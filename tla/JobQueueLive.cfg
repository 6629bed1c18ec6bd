SPECIFICATION FairSpec
CONSTANTS
    Jobs = {j1, j2, j3}
    Workers = {w1, w2}
    QueueSize = 1
    MaxRestarts = 0
    MaxFaults = 1
    Idle = Idle
    Dead = Dead
PROPERTIES
    CallsAnswered
    JobsSettleUndisturbed
CHECK_DEADLOCK FALSE

SPECIFICATION Spec
CONSTANTS
    Jobs = {j1, j2, j3}
    Workers = {w1, w2}
    QueueSize = 1
    MaxRestarts = 1
    MaxFaults = 1
    Idle = Idle
    Dead = Dead
SYMMETRY Symmetry
INVARIANTS
    TypeOK
    OnePlace
    RunsAtMostOnce
    RowFollowsJob
    AnswerAgreesWithRow
    NoForgottenJob
    NoLostWakeup
PROPERTIES
    OutcomeIsFinal
    KeepsContract
CHECK_DEADLOCK FALSE

SPECIFICATION Spec
CONSTANTS
    NOPTS = NOPTS
    Tolerance = 2
    QueueSize = 1
    MaxTasks = 2
    Graphs <- MCGraphs
INVARIANTS TypeOK Whole Orderly TrailingFed Paced RefusesCycles
ACTION_CONSTRAINT LocalFirst

SPECIFICATION Spec
CONSTANTS
    NOPTS = NOPTS
    Tolerance = 2
    QueueSize = 1
    MaxTasks = 2
    Graphs <- DryGraphs
INVARIANT OutputsInitialized
ACTION_CONSTRAINT LocalFirst

SPECIFICATION Spec
CONSTANTS
    NOPTS = NOPTS
    Tolerance = 2
    QueueSize = 1
    MaxTasks = 2
    Graphs <- StopGraphs
PROPERTY Stops
ACTION_CONSTRAINT LocalFirst

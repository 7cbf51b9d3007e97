SPECIFICATION Spec
CONSTANTS
    Humidity = {0, 1}
    Default = 0
    DebounceTicks = 2
    HeartbeatTicks = 3
    MaxBatch = 1
    MaxChanges = 2
    MaxBeats = 2
INVARIANT LastValueIsSent
CHECK_DEADLOCK FALSE

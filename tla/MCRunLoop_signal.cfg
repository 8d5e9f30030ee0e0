CONSTANTS
    Stopper = "signal"
    MaxStops = 1
SPECIFICATION StopSpec
PROPERTIES StopEndsLoop
CHECK_DEADLOCK FALSE

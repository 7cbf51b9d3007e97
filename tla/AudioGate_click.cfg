SPECIFICATION Spec
CONSTANTS
    Pointers = {"mouse", "touch"}
    MaxClicks = 3
INVARIANT FirstClickPlays
CHECK_DEADLOCK FALSE

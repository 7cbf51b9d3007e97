SPECIFICATION PageFairSpec
CONSTANTS
    Pointers = {"mouse", "touch"}
    MaxClicks = 2
    Size = {small, large}
    Handle = {1, 2}
    Nothing = Nothing
INVARIANTS TypeOK PageOK LabelMatchesSound ClickFlips ExactlyOneLoop LeavingReleasesEverything
PROPERTIES StartIsNotLost ScreenCatchesUp

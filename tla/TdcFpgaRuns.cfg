SPECIFICATION FairSpec
CONSTANTS
    Gtcs <- MCGtcs
    MaxRuns = 2
    MaxFrames = 4
INVARIANTS Conserved Uniform Grouped Numbered Announced OnlyLastHeld
PROPERTY FollowedIsPublished
CHECK_DEADLOCK FALSE

\* Frames on every socket, cut anywhere, and a peer that may close.
CONSTANTS
    Slc = "slc"
    Tdc1 = "tdc1"
    Tdc2 = "tdc2"
    Lines = {1}
    Garbage = {0, 2}
    MaxFrames <- MCFrames
    MaxCloses = 1
SPECIFICATION FairSpec
INVARIANTS InOrder WholeIsIntact NoCrash NeverStalls
PROPERTIES SentIsHanded
CHECK_DEADLOCK FALSE

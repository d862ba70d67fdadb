SPECIFICATION FairSpec
CONSTANTS
    MaxFrames <- ThreeFrames
    LooksClosed = {1}
    Timeouts = {"first_event"}
INVARIANTS
    NothingRepeatedOrLost
    CallsArriveWholeOrReported
    CutAnswersSaySo
PROPERTIES
    EndsAndLeavesNobodyBehind
CHECK_DEADLOCK FALSE

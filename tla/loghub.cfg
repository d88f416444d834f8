CONSTANTS
    Browsers = {b1, b2}
    LastRun = 2
    LastEntry = 2
    Long = {2}
    QueueMax = 1
    LastBreak = 1
SPECIFICATION FairSpec
INVARIANTS
    OrderOnce
    Complete
PROPERTIES
    DropsOldest
    EventuallyShown

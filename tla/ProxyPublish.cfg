SPECIFICATION FairSpec
CONSTANTS
    FrameQueue = 1
    OnTheLink = 2
    NoFrame = NoFrame
    Chunks = 2
    HelloRetries = 4
    MaxCalls = 2
    MaxConnects = 2
    MaxRestarts = 1
INVARIANTS
    HoldsNothingAfterReturn
PROPERTIES
    ImplementsRemotePublish
    CallsReturn
CHECK_DEADLOCK FALSE

SPECIFICATION SubSpec
CONSTANTS
    FrameQueue = 1
    OnTheLink = 1
    NoFrame = NoFrame
    Topics = {t1, t2}
    NoTopic = NoTopic
    SlotCount = 2
    Chunks = 1
    EventQueue = 1
    EventLimit = 1
    HelloRetries = 1
    MaxMessages = 2
    MaxConnects = 2
    MaxSubscribes = 2
    MaxUnsubscribes = 1
    MaxRestarts = 1
SYMMETRY AnyTopicFirst
INVARIANTS
    OwnMessagesInOrder
    SubscriptionsAreKnown
CHECK_DEADLOCK FALSE

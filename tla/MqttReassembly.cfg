SPECIFICATION FairSpec
CONSTANTS
    Msg <- McMsg
    Topic <- McTopic
    TopicOf <- McTopicOf
    Total <- McTotal
    MsgId <- QosZeroIds
    LongTopic <- McLongTopic
    Cap = 3
    Chunk = 1
    Depth = 2
    MaxEvents = 4
INVARIANTS
    NoStaleBytes
    SplicedOnlyAfterLoss
    FragmentsAccounted
    NothingSwallowed
    SessionNotForgotten
PROPERTIES
    EventuallySubscribed
    ImplementsChannel
CHECK_DEADLOCK FALSE

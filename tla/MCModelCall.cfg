SPECIFICATION FairSpec
CONSTANTS
    Configs <- MCConfigs
    Headers <- MCHeaders
    Replies <- MCReplies
    Symbols = {"tick", "j", "s", "D", "O", "N", "E", "newline", "return", "space", "w"}
    HoldBack = 7
    Cap = 8
INVARIANTS
    ChunksAreReply
    ShownIsReply
PROPERTIES
    BackoffBounded
    CallReturns
CHECK_DEADLOCK FALSE

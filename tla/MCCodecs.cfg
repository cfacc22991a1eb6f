SPECIFICATION MCSpec
CONSTANTS
    maxKeyLen = 2
    maxValLen = 2
    maxBatchBodyLen = 10
    maxBatchEntries = 2
    Symbols = {0, 1, 2, 3, 4, 11}
    Logs <- MCLogs
    MaxFramePayload = 14
    MaxKeyLen = 2
    MaxValLen = 2
    MaxBatchEntries = 2
    MaxErrMsgLen = 1
    RangeEndSentinel = 4
    Base = 8
    Conversations <- MCConversations
    Calls <- MCCalls
    Commands <- MCCommands
    ArgLists <- MCArgLists
CHECK_DEADLOCK FALSE
INVARIANTS
    WholeWritesRecovered
    RotRefused
    OffsetsPointAtValues
    ReadersAgree
    RequestsArriveAsSent
    CutsAreTold
    NilMeansAllOfIt
    AnswersAreUnderstood
    ChecksAreTheEncoders
    FlagsReadAsMeant

SPECIFICATION FairSpec
CONSTANTS
    Subs = {s1, s2}
    MaxMsg = 2
    MaxQueue = 3
INVARIANT TypeOK
INVARIANT NothingStranded
INVARIANT EndIsLast
INVARIANT CancelIsFinal
INVARIANT OnlyPublishDies
INVARIANT NoMessageLost
PROPERTY QueueIsFifo
PROPERTY DeliveredInOrder
PROPERTY LeftIsRun
CHECK_DEADLOCK FALSE

SPECIFICATION FairSpec
CONSTANTS
    Words = {w1, w2}
    MaxWords = 2
    NoWord = NoWord
    Files = {f1, f2}
    Supported = {f1}
    MaxAccepted = 2
INVARIANT TypeOK
INVARIANT WordsArrive
INVARIANT NeverRefused
PROPERTY ComesUp
CHECK_DEADLOCK FALSE

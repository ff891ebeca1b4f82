\* Every loss pattern over three commands, the first of which may fail without
\* ending the read; the system stops when the read ends.
SPECIFICATION Spec
CONSTANTS
    CmdBlocks <- LongTwice
    Answers <- SomeAnswers
    Tolerated <- FirstTolerated
    Retries = 2
    WtxMax = 2
    ChainMax = 3
    RxCap = 2
    ActivationMax = 2
CHECK_DEADLOCK FALSE
INVARIANTS
    AtMostOnce
    CommandWhole
    FitsBuffer
    RatsMeetsFreshCard
PROPERTIES
    ReadEnds
    ImplementsPort

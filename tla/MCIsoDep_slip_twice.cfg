\* A command executed twice after a tolerated failure.
SPECIFICATION Spec
CONSTANTS
    CmdBlocks <- LongLast
    Answers <- SomeAnswers
    Tolerated <- FirstTolerated
    Retries = 2
    WtxMax = 2
    ChainMax = 2
    RxCap = 2
    ActivationMax = 2
CHECK_DEADLOCK FALSE
INVARIANT AlwaysAtMostOnce

SPECIFICATION Spec
CONSTANTS
    Names <- ReadNames
    Plan <- ReadPlan
    Documents <- ReadDocuments
    Capacity <- ReadCapacity
    Minutes = {0}
    Chunk = 3
    HeaderLen = 2
    MagicLen = 2
    LookAhead = 4
    ShortMax = 3
    LongMax = 7
    FileMax = 8
    MaxReads = 1
INVARIANTS
    SinksAgree
    NothingLost
    ImageIsTheTail
    ExportedIsComplete
    OutOfReachOnlyIfRefused
PROPERTIES
    ReadEnds
\* The user need not read again.
CHECK_DEADLOCK FALSE

\* A queue that a short read cannot fill, and reads that may be refused for want of
\* memory; the system stops when the application is closed.
SPECIFICATION Spec
CONSTANTS
    QueueLen = 16
    ActivationMax = 2
    Export = {TRUE, FALSE}
    HeapAllows = {TRUE, FALSE}
    MaxFileReports = 1
    MaxReads = 2
    MaxKeys = 2
CHECK_DEADLOCK FALSE
INVARIANTS
    NothingOutlivesTheWorker
    RecordIsFinished
    ScreensTellTheTruth
PROPERTIES
    LeavingEnds
    ImplementsPlan

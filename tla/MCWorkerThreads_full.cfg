\* A queue the read can fill while the GUI thread is busy elsewhere.
SPECIFICATION Spec
CONSTANTS
    QueueLen = 3
    ActivationMax = 2
    Export = {FALSE}
    HeapAllows = {TRUE}
    MaxFileReports = 2
    MaxReads = 1
    MaxKeys = 2
CHECK_DEADLOCK FALSE
INVARIANT NeverWaitForEachOther

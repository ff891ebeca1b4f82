\* A read of five commands over an unreliable exchange; it stops when it is
\* closed or lost.
SPECIFICATION Spec
CONSTANTS
    NCommands = 5
    Copies = 2
CHECK_DEADLOCK FALSE
INVARIANTS
    LockStep
    CountsDiffer
PROPERTIES
    NeverBackToClear
    ImplementsPort

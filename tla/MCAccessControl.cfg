\* A command may reach the chip twice.  The walk ends, one way or the other.
SPECIFICATION Spec
CONSTANT Copies = 2
INVARIANTS
    Agreement
    BlamesTheWrongKey
    RightKeyOpens
    NothingOfAFailure
CHECK_DEADLOCK FALSE

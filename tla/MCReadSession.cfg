SPECIFICATION Spec
CONSTANTS
    Groups <- MCGroups
    Eac <- MCEac
    Selections <- MCSelections
    Pins <- MCPins
INVARIANTS
    DeathIsTheVerdict
    BlamedFileFailedForIt
    RecordIsComplete
PROPERTIES
    EachDriverOnceBestFirst
    ImplementsPlan
\* The read ends.
CHECK_DEADLOCK FALSE

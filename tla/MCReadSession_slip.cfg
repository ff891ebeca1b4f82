SPECIFICATION Spec
CONSTANTS
    Groups <- MCGroups
    Eac <- MCEac
    Selections <- MCSelections
    Pins <- MCPins
INVARIANT DeadSessionIsNotUsed
CHECK_DEADLOCK FALSE

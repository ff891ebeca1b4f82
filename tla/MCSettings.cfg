\* One value for each credential, two rows of options, one group.
SPECIFICATION Spec
CONSTANTS
    Values = {"typed"}
    Methods = {"Auto", "Bac"}
    Rows = {"Remember", "Method"}
    Switchable = {"Dg1"}
INVARIANTS
    ForgottenStaysGone
    NextRunStartsFromTheLastSave
    OffNamesNobody
    ReadHasAKey

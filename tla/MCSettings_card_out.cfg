\* The card may be out when the details are forgotten.
SPECIFICATION Spec
CONSTANTS
    Values = {"typed"}
    Methods = {"Auto", "Bac"}
    Rows = {"Remember"}
    Switchable = {"Dg1"}
INVARIANT ForgottenIsTrue

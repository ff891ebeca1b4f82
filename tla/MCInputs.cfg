SPECIFICATION Spec
CONSTANTS
    CurrentYear = 2026
    Stored <- MCStored
INVARIANTS
    TlvReadsWhatIsThere
    BestOfTheOffer
    HashVerdict
    KeyIsThePrintedOne
    AnswerFitsTheFrame
    HandsBackRealDates

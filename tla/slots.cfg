SPECIFICATION FairSpec
CONSTANTS
    Null = Null
    Inputs <- MCInputs
CHECK_DEADLOCK FALSE
INVARIANTS
    OffersAvailable
    SlotsServable
PROPERTY
    Terminates

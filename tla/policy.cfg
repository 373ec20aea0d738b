SPECIFICATION Spec
CONSTANTS
    None = None
    PolicyIds = {p1, p2}
    Names = {strict, lax}
    Hours = {24}
    Left = {1, 24}
    Charges = {20, 50}
    Prices = {200}
    Requests = {r1, r2}
    CanAbort = TRUE
SYMMETRY Symmetry
CHECK_DEADLOCK FALSE
INVARIANTS
    OneDefault

    

SPECIFICATION Spec
CONSTANTS
    f = f
    g = g
    Names = {f, g}
    Bad = Bad
    Throws = Throws
    None = None
    MaxLines = 2
    Sources <- MCSources
INVARIANTS
    AcceptedByUsers
CHECK_DEADLOCK FALSE

SPECIFICATION Spec
CONSTANTS
    f = f
    g = g
    Names = {f, g}
    Bad = Bad
    Throws = Throws
    None = None
    MaxLines = 3
    Sources <- MCSources
INVARIANTS
    TypeOK
    StringsOwned
    RegistersAlike
PROPERTIES
    NothingRegisteredLate
CHECK_DEADLOCK FALSE

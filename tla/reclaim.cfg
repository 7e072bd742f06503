SPECIFICATION FairSpec
CONSTANTS
    Users = {alice}
    LibNames = {A, B}
    Names = {f, g}
    Codes = {pair, clash, half, empty}
    Scripts = {s}
    A = A
    B = B
    f = f
    g = g
    pair = pair
    clash = clash
    half = half
    empty = empty
    None = None
    LibOf <- MCLibOf
    Declares <- MCDeclares
    Defines <- MCDefines
    Runs = {pair, clash, empty}
    Rebinds <- MCRebinds
    MaxFuncId = 4
    MaxLibId = 2
PROPERTIES
    OrphansReclaimed

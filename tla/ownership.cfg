SPECIFICATION FairSpec
CONSTANTS
    lua = lua
    luajit = luajit
    Users = {u1, u2}
    EngineNames = {lua, luajit}
    DefaultName = lua
    MaxNames = 2
    MaxOpen = 2
    Configs <- MCConfigs
INVARIANTS
    TypeOK
    OneOwner
    EntriesWhole
    ContextServed
PROPERTIES
    OthersKept
    DetachedClosed

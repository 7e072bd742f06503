SPECIFICATION Spec
CONSTANTS
    Limit = 9
    Replies <- MCReplies
    Depth <- MCDepth
    Values <- MCValues
    Exact = 4
    Units = {1, 2}
    Longest = 7
    Beyond <- MCBeyond
INVARIANTS
    TypeOK
    OneReply
    OneLiners
    StackKept
    HandsOn
CHECK_DEADLOCK FALSE

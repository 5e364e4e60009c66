SPECIFICATION MCSpec
CONSTANTS
    o1 = o1
    o2 = o2
    o3 = o3
    OutNames <- MCOutNames
    SortedNames <- MCSortedNames
    Garbage <- MCGarbage
    Unreadable <- MCUnreadable
    JoinMayFail <- JoinCalls
    JoinKillPoints <- JoinPoints
    MaxJoins = 2
INVARIANTS
    JoinTypeOK
    StackedInOrder
PROPERTIES
    DeletedOnlyWhenRead
    TruncatedOnlyForAll
    JoinEnds

\* Nine keys at order 3 make a tree of height four: splits of leaves and of
\* internal nodes, into a parent with room, a full one and none.
CONSTANTS
    ORDER = 3
    Keys = {1, 2, 3, 4, 5, 6, 7, 8, 9}
    Values = {"row1", "row2"}
    MaxFailures = 1
    FreeKeys = 3
SPECIFICATION MixedSpec
INVARIANTS TypeOK Ordered ParentLinks WellShaped NothingLost SearchAgrees
PROPERTIES ChainKeepsKeys ImplementsIdIndex ClimbEnds

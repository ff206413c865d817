CONSTANTS
    Types <- MCTypes
    Cells <- MCCells
    Numbers <- MCNumbers
    Rank <- MCRank
    Calls <- MCCalls
    MaxText = 4
    MaxPattern = 4
SPECIFICATION Spec
INVARIANTS ChainMeansReading SelectionIsMatching AllOrNothing SortKeepsRows SortedWhenComparable LimitKeepsFirst AggregatesOverMatching LikeIsCutting

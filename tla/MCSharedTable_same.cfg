CONSTANTS
    Inserts = {"i1", "i2", "i3"}
    Deletes = {"d1", "d2"}
    Selects = {"q1"}
    Mixes <- JustInserts
    Slow = {}
    Stored <- TwoStored
    Matching <- MCMatching
    NoFile = "none"
SPECIFICATION Spec
INVARIANT SimultaneousRequestsSucceed
CHECK_DEADLOCK FALSE

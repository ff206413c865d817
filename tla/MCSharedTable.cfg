\* Every request is over, killed or not asked for in the end: a deadlock.
CONSTANTS
    Inserts = {"i1", "i2", "i3"}
    Deletes = {"d1", "d2"}
    Selects = {"q1"}
    Mixes <- MCMixes
    Slow = {"i1", "d1"}
    Stored <- TwoStored
    Matching <- MCMatching
    NoFile = "none"
SPECIFICATION Spec
INVARIANTS TypeOK LostOnlyByOverlap DeletedStaysDeleted SelectSeesAnswered SameIdOnlyByOverlap
CHECK_DEADLOCK FALSE

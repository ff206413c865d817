\* Ids above INT_MAX (here 2), and every fault after which the process still
\* keeps its promises.
CONSTANTS
    Ids = {1, 2, 3}
    Vals = {x, y}
    MaxInt = 2
    Torn = Torn
    NoFile = NoFile
    MaxRows = 2
    Faults = {"open", "write", "remove", "kill"}
SPECIFICATION Spec
INVARIANTS TypeOK CacheRowsAreContents NextIdIsFresh BulkContextIsLive NoOrphanedAppend RewriteSeesAllRows
PROPERTIES ImplementsTableSpec

\* Every pair of rows, the first or the second of which may be cut.
\* The bound on the lines stops the writer.
CONSTANTS
    Values <- MCValues
    Width = 2
    MaxLines = 2
SPECIFICATION Spec
INVARIANTS WhatIsWrittenIsRead CutIsConfined
CHECK_DEADLOCK FALSE

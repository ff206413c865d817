\* Every fault there is, failed renames and kills between remove and rename
\* included.
CONSTANTS
    Ids = {1, 2, 3}
    Vals = {x}
    MaxInt = 2
    Torn = Torn
    NoFile = NoFile
    MaxRows = 3
    Faults = {"open", "write", "flush", "cut", "remove", "rename", "kill", "kill_gap"}
SPECIFICATION Spec
INVARIANTS IndexFindsEveryRow
PROPERTIES WholeLinesStay

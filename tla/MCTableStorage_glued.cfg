CONSTANTS
    Ids = {1, 2}
    Vals = {x}
    MaxInt = 2
    Torn = Torn
    NoFile = NoFile
    MaxRows = 2
    Faults = {"write"}
SPECIFICATION Spec
PROPERTIES AppendAddsARow

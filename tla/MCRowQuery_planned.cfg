\* One call that the plan and the code answer differently.
CONSTANTS
    Types <- MCTypes
    Cells <- MCCells
    Numbers <- MCNumbers
    Rank <- MCRank
    Calls <- PlannedCalls
    MaxText = 4
    MaxPattern = 4
SPECIFICATION Spec
INVARIANTS AnswersAsPlanned

CONSTANTS
    Statements <- CutShort
    Atoi <- MCAtoi
    Spelling <- MCSpelling
    Words <- MCWords
SPECIFICATION RTSpec
INVARIANTS NoConditionsMeansNoWhere

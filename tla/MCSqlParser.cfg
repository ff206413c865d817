\* Complete and incomplete statements of all kinds, parsed, printed and parsed
\* again.
CONSTANTS
    Statements <- MCStatements
    Atoi <- MCAtoi
    Spelling <- MCSpelling
    Words <- MCWords
SPECIFICATION RTFairSpec
INVARIANTS LinksFit ConditionsAreTokens FormatParsesBack
PROPERTIES ParseEnds

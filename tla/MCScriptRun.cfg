CONSTANTS
    Sources <- MCSources
    Words <- NoWords
    Files <- NoFiles
    Verbs <- MCVerbs
    Results <- MCResults
SPECIFICATION ScriptSpec
INVARIANTS SplitsBetweenTokens CardsAreStatements
PROPERTIES EveryRequestIsAnswered

SPECIFICATION FrontendSpec
INVARIANT ArgsKeepEveryWord
CONSTANTS
    TailLen = 4
    TextLen = 3
    Lines = 2
    MaxTokens = 16
    MaxTime = 1
    MaxSize = 0
    Iterations = {0, 2}
    Texts <- MCTexts
    Keyword <- MCKeyword
    Upper <- MCUpper
    Digits <- MCDigits
    WalkOrder <- MCWalkOrder
    Contexts <- MCContexts
    IgnoreFiles <- MCIgnoreFiles
CHECK_DEADLOCK FALSE

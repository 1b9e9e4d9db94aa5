\* Names with capitals.
SPECIFICATION FairSpec
CONSTANTS
    Inputs <- MCUpperCase
    MaxTokens = 24
PROPERTY Finishes

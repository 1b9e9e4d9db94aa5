SPECIFICATION FairSpec
CONSTANTS
    Byte = 8
    Programs <- MCPrograms
    Undetermined = Undetermined
    IllFormed = IllFormed
    Fill = {0, 5}
    StackSize = 512
    Fuel = 14
INVARIANTS
    ResultCorrect
    IllFormedRefused
    Tidy
    NothingLeft
    StackAligned
    AccessesOneElement
    PushesSpareLocals
PROPERTY
    Terminates

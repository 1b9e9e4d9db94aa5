SPECIFICATION FairSpec
CONSTANTS
    Byte = 4
    Programs <- MCPrograms
    Fill = {0, 3}
    StackSize = 192
    Fuel = 12
INVARIANTS
    ProcessorTypeOK
    ResultCorrect
    ReturnsToCaller
    NothingLeftButArrays
    Disciplined
    BranchesOnCondition
    PushesSpareLocals
    StoresHitOneVariable
PROPERTY
    Terminates

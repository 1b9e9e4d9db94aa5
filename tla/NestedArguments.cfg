SPECIFICATION Spec
CONSTANTS
    Byte = 4
    Programs <- MCNestedArguments
    Fill = {0, 3}
    StackSize = 192
    Fuel = 12
INVARIANT ResultCorrect

\* char parameters.
SPECIFICATION PSpec
CONSTANTS
    Names = {x, y, z}
    ParamTypes <- ScalarTypes
    LocalTypes <- IntOnly
    GlobalTypes = {}
    NoType = NoType
    MapLimit = 3
    MaxOccurrences = 3
    MaxFunctions = 1
    ArgRegisters = 2
SYMMETRY NameSymmetry
INVARIANT ParamsArrive

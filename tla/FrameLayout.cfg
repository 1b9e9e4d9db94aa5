\* Two functions with scalar parameters, locals of every type and a global,
\* and their prologues.
SPECIFICATION PSpec
CONSTANTS
    Names = {w, x, y, z}
    NoType = NoType
    ParamTypes <- WordTypes
    LocalTypes <- AllTypes
    GlobalTypes <- IntOnly
    MapLimit = 3
    MaxOccurrences = 4
    MaxFunctions = 2
    ArgRegisters = 2
SYMMETRY NameSymmetry
INVARIANTS TypeOK WithinFrame LocalsDisjoint OccurrencesAgree ParamsArrive StoresInFrame

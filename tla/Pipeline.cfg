SPECIFICATION Spec
CONSTANTS
    Rank <- MCRank
    Civil <- MCCivil
    LowerOf <- MCLower
    UpperOf <- MCUpper
    Blank = {" "}
    Band = 4096
    MaxScale = 2
    HostMath <- MCHostMath
    Atoms <- MCAtoms
    DimensionOf <- MCDimension
    ScaleOf <- MCScale
    MaxPower = 4
    Tables <- MCTables
    Inputs <- MCInputs
    Steps <- MCSteps
    Env <- MCEnv
    ListEnv <- MCListEnv
    OtherAtom <- MCOther
    MaxSteps = 2
INVARIANTS
    CellsFitTheirColumns
    SchemaIgnoresRows
    UnitsAreSound
    SubstitutionIsEvaluation
    ColumnsAreOrdered
    VerbsAgree
CHECK_DEADLOCK FALSE

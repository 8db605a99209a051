\* build_identity over every MTRR layout with aligned high boundaries.
CONSTANTS
    N = 4
    MemoryTypes = {"UC", "WB"}
    Layouts <- MCAlignedLayouts
SPECIFICATION Spec
CHECK_DEADLOCK FALSE
INVARIANTS
    TypeOK
    IdentityWithMtrrTypes
PROPERTIES
    BuildCompletes

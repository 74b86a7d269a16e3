CONSTANTS
    NoNeighbour = NoNeighbour
    NoVal = NoVal
    v1 = v1
    f1 = f1
    f2 = f2
    f3 = f3
SYMMETRY FiberSymmetry
SPECIFICATION Spec
INVARIANTS
    TypeOK
    TreeShape
    SpaceLayout
    ScanOrder
    HintsCurrent
    LowerBoundCorrect
PROPERTIES
    MapRefinement

CONSTANTS
    v1 = v1
    v2 = v2
    k4 = k4
    k5 = k5
    k8 = k8
    PTNoKey = PTNoKey
    PTNoVal = PTNoVal
    CHNil = CHNil
    CHNoKey = CHNoKey
    CHNoVal = CHNoVal
    CTNone = CTNone
SPECIFICATION Spec
INVARIANTS
    TypeOK
    RobinHoodLayout
    HeapWellFormed
PROPERTIES
    MapRefinement
    MapSemantics
    AbortOnlyWhenFull
    ContainerRefinement

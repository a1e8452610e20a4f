SPECIFICATION Spec
CONSTANT Jobs = {j1, j2, j3}
SYMMETRY JobSymmetry
INVARIANTS
    NoOrphanInProgress
PROPERTIES
    ImplementsLifecycle

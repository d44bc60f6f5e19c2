SPECIFICATION Spec
CONSTANT Workers = {w1, w2, w3}
SYMMETRY Symmetry
INVARIANT OnlyHalfBuiltCrash
INVARIANT RuntimeOutlivesSandboxes
CHECK_DEADLOCK FALSE

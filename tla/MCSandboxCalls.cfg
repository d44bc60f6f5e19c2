SPECIFICATION Spec
CONSTANT Workers = {w1}
INVARIANT CallsRunTheirFunction
CHECK_DEADLOCK FALSE

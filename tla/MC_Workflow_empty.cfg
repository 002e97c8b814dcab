CONSTANTS
    e1 = e1
    e2 = e2
    Events <- MCEvents
    On <- MCOn
    Conds <- MCConds
    MinSteps = 0
    MaxSteps = 1
    Behaviours <- MCContract

SPECIFICATION Spec
CHECK_DEADLOCK FALSE

INVARIANT NoExceptionEscapes

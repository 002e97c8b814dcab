CONSTANTS
    e1 = e1
    e2 = e2
    Events <- MCEvents
    On <- MCOn
    Conds <- MCConds
    MinSteps = 1
    MaxSteps = 3
    Behaviours <- MCContract

SPECIFICATION Spec
\* A run of a single workflow ends: every final state is a real end.
CHECK_DEADLOCK FALSE

INVARIANT TypeOK
INVARIANT StepsInOrder
INVARIANT NoExceptionEscapes
PROPERTY AllStepsComplete
PROPERTY WorkflowRefinesSpec

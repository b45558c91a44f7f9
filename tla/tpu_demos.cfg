SPECIFICATION Spec
CONSTANTS
    Batches = 4
    MaxFault = 1
CHECK_DEADLOCK FALSE
VIEW
    demoView
INVARIANTS
    Answers
    Coherent

\* All four programs.  Circular waits hang, and masters may stop asking.
SPECIFICATION FairSpec
CONSTANTS
    Limit = 5
    Data = {0, 1}
INVARIANTS TypeOK CoresTakeTurns
PROPERTIES ImplementsTargets AccessEnds
CHECK_DEADLOCK FALSE

\* Both programs; the accesses of MCDmi lie around every boundary of the
\* target.  Renode may stop asking.
SPECIFICATION FairSpec
CONSTANTS
    MemorySize = 2
    DoneSize = 2
    Accesses <- MCAccesses
INVARIANTS TypeOK DoneIsEarned CodeIsFresh
PROPERTY TestReports

\* The intervals of top.cpp.
SPECIFICATION FairSpec
CONSTANT Interval <- TopIntervals
INVARIANT LineSettles
PROPERTIES NotDroppedUnserved FirstKeepsInterrupting

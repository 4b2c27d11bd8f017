\* timer5 with --sync and without, to a limit of 6.
SPECIFICATION FairSpec
CONSTANT kCount = 6
INVARIANTS StrandExact FinalCount
PROPERTY CountEnds
\* both timers end
CHECK_DEADLOCK FALSE

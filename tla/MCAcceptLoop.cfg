\* Two clients and the object to accept next.
SPECIFICATION FairSpec
CONSTANT Session = {s1, s2, s3}
INVARIANTS OnlyFaultsEnd CatchNotReached
PROPERTY Served
\* the process ends
CHECK_DEADLOCK FALSE

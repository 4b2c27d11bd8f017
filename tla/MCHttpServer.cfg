\* Four connection objects: three clients served or pending at once and one
\* connection waiting to be accepted.
SPECIFICATION FairSpec
CONSTANT Conn = {c1, c2, c3, c4}
INVARIANTS OneOperation WriterRegistered OpenSocketOwned StopLeavesNothingWaiting Inv
PROPERTIES AnswerOnce ReleasedOnlyOnErrorOrStop ShutdownCompletes
\* the process ends
CHECK_DEADLOCK FALSE

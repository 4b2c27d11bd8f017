\* Two rounds with a request of 6 + 2 bytes read by 4.
SPECIFICATION FairSpec
CONSTANTS
  Head = 2
  Length = 4
  Extra = 2
  Buffer = 4
  StatusLine = 2
  Headers = 3
  Reply = 4
  Rounds = 2
INVARIANTS OkMeansExact WholeIsRefused EndsOnlyIfCut Inv
PROPERTY RoundEnds
\* the client ends, or has had its rounds
CHECK_DEADLOCK FALSE

\* Three clients, two faults.
SPECIFICATION FairSpec
CONSTANTS
  Client = {c1, c2, c3}
  Faults = 2
INVARIANTS OnceEach ErrorToKnown ServesOne
PROPERTY Answered
\* the clients have asked, or wait for ever
CHECK_DEADLOCK FALSE

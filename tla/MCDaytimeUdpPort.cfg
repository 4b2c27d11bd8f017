\* One client and no faults: what 103 says of its port.
SPECIFICATION FairSpec
CONSTANTS
  Client = {c1}
  Faults = 0
PROPERTY Listens
\* the client waits for ever
CHECK_DEADLOCK FALSE

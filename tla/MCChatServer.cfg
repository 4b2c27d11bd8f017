\* Two clients and the session to accept next; s1's client reads what it is
\* sent, the others may never do.
SPECIFICATION FairSpec
CONSTANTS
  Session = {s1, s2, s3}
  Prompt = {s1}
INVARIANTS NoLostWakeup EverythingDue Inv
PROPERTIES FrontStays DeadQueueOnlyGrows RoomSpec PromptIsServed
CHECK_DEADLOCK FALSE

\* Every way to cut the requests of MCStreams into reads.
SPECIFICATION Spec
CONSTANTS
  Fragment <- MCFragment
  Streams <- MCStreams
INVARIANTS Inv SplitsDoNotShow PlainRequestAsSent AnswerExact LastMethodAnswers ReplyStandsAlone
\* the client stops sending, the connection answers once
CHECK_DEADLOCK FALSE

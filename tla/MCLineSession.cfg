\* Six bytes, any of them a newline.
SPECIFICATION FairSpec
CONSTANT Total = 6
INVARIANTS PatientIsEchoed Inv
PROPERTIES EchoSpec Released
\* the session ends
CHECK_DEADLOCK FALSE

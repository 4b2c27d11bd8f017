\* The comment at server.cpp:48-49 against the code.
SPECIFICATION Spec
CONSTANT Conn = {c1, c2}
INVARIANT StopNotCalled
CHECK_DEADLOCK FALSE

\* Three invoke ids come round once; an answer may be two calls late.
CONSTANTS
    InvokeIds = 3
    retries = 1
    MaxAge = 2
    MaxCalls = 5
SPECIFICATION FairClientSpec
INVARIANTS AnswerIsMine
PROPERTIES CallEnds
CHECK_DEADLOCK FALSE

\* Integers of 20 bits stand for 64; a message, an answer or an error is the end.
SPECIFICATION Spec
CONSTANTS
    LargestBits = 20
    Doubles <- MCDoubles
    FieldNames = {"data", "rest", "unknown"}
    MaxItems = 2
    MaxDepth = 3
    Requests <- MCRequests
    MessageTypes <- MCMessageTypes
    Received <- MCReceived
INVARIANTS
    OutOfRangeIsRefused
CHECK_DEADLOCK FALSE

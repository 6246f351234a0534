CONSTANTS
    Values = {"x", "y"}
    Thrown = "thrown"
    Undefined = "undefined"
    MaxElements = 3
    MaxReports = 4
    MaxRequests = 5
    MaxAwaits = 5
SPECIFICATION Spec
CHECK_DEADLOCK FALSE
INVARIANT GenTypeOK
INVARIANT OneContinuation
PROPERTY ImplementsAggregate
PROPERTY ImplementsRequests
PROPERTY RequestsSettle

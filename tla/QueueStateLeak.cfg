SPECIFICATION Spec
CONSTANTS
    Requests = {"r1", "r2"}
    Streams = {"s1"}
    Profile <- MCProfile
    Concurrent = 1
    Capacity = 1
    Minute = 2
    MaxSize = 1
    Timeout = 1
    Policy <- MCPolicy
    Failures <- MCFailures
    Remainings = {0}
    Patience = 1
    HooksRaise = FALSE
    Cancels = {"granted"}
INVARIANT PermitsAccounted

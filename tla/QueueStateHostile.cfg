SPECIFICATION Spec
CONSTANTS
    Requests = {"r1", "r2"}
    Streams = {"s1"}
    Profile <- MCProfile
    Concurrent = 2
    Capacity = 1
    Minute = 2
    MaxSize = 2
    Timeout = 1
    Policy <- MCPolicy
    Failures <- MCFailures
    Remainings = {0}
    Patience = 1
    HooksRaise = TRUE
    Cancels = {"future", "turn", "granted"}
INVARIANT NeverOversubscribed

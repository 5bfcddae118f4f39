SPECIFICATION Spec
CONSTANTS
    Rpm = 2
    Rpd = 3
    Tpm = 3
    Minute = 2
    Day = 3
    Estimates = {0, 2}
    Limits = {1}
    Remainings = {0, 2}
    Pauses = {2, 3}
    MaxTime = 4
INVARIANTS TypeOK RateBound HeldIsEmpty WaitIsExact

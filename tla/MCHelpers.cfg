SPECIFICATION HelpersSpec
CONSTANTS
    Processes = {1}
    Names = {"report", "sweep"}
    Serves <- MCServes
    Delays <- MCDelays
    Intervals = {0, 1}
    MaxTasks = 2
    MaxTime = 3
    MaxCrashes = 1
    Runners = {"a", "b"}
    Backends = {"x", "y"}
    Debaters = 3
    MaxDebate = 3
    MaxEvents = 4
INVARIANTS HelpersTypeOK OnceRuns HelpersTrue
PROPERTIES PeriodicSpaced DueRuns
CHECK_DEADLOCK FALSE

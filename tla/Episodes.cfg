SPECIFICATION Spec
CONSTANTS
    Scheduled = "scheduled"
    Requests = {}
    Sizes = {1, 2}
    MaxPosition = 2
    MaxTrades = 3
    MaxPartials = 1
    MaxRepeats = 1
    MaxRestarts = 1
    MaxFailures = 1
INVARIANTS ClosedRowsCredited PlainPositionsRecorded TrackerFollowsPosition BookedOnceUnlessRaced
ACTION_CONSTRAINTS BeginsLong OneFaultInThree
CHECK_DEADLOCK FALSE

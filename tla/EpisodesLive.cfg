SPECIFICATION FairSpec
CONSTANTS
    Scheduled = "scheduled"
    Requests = {"request"}
    Sizes = {1}
    MaxPosition = 1
    MaxTrades = 2
    MaxPartials = 1
    MaxRepeats = 0
    MaxRestarts = 1
    MaxFailures = 1
PROPERTIES StoredFillsEndProcessed
ACTION_CONSTRAINT BeginsLong
CHECK_DEADLOCK FALSE

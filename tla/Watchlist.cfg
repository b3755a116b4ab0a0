SPECIFICATION FairSpec
CONSTANTS
  Addr = {a1}
  Source = {"pinned", "legacy", "alpha-pool"}
  MaxSlots = 1
  ApiSource = {"alpha-pool"}
  Refresh = {r1, r2}
  MaxChanges = 2
  MaxFailures = 2
  MaxCalls = 2
PROPERTIES OthersUntouched FollowsScout

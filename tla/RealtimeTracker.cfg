SPECIFICATION Spec
CONSTANTS
  Addr = {a1, a2}
  Watched = {a1}
  Observed = {a1}
  MAX_USERS_PER_WS = 1
  Refresh = {r1, r2}
  MaxChanges = 1
  MaxMoves = 2
  MaxFaults = 3
CHECK_DEADLOCK FALSE
ACTION_CONSTRAINT FewEvents
INVARIANT UsersAreConnected
PROPERTIES WatchlistFollowed PositionsNeverRegress PositionsFollowVenue

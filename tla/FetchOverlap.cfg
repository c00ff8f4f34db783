\* One binding, a second request while the first is in flight.
CONSTANTS
  posts = posts
  user = user
  Names = {user}
  Eager = {user}
  Keep = {user}
  Dedupe = {user}
  Timed = {user}
  Forced = {user}
  RouteLoads = {user}
  ByRoute = {user}
  Params = {p1, p2}
  Home = p1
  Retries = 1
  Events = {e1}
  Invalidates <- UserFirst
  NoData = NoData
  Free = Free
  NoWait = NoWait
  MaxFlight = 2
  MaxVersion = 1
SPECIFICATION FairSpec
INVARIANTS IInv FreshDataIsCurrent LatestSuccessKept
PROPERTIES LoadingEnds InvalidationsEnd

\* Two bindings, invalidated in order by two events; no overlap.
CONSTANTS
  posts = posts
  user = user
  Names = {posts, user}
  Eager = {posts}
  Keep = {user}
  Dedupe = {posts, user}
  Timed = {posts, user}
  Forced = {user}
  RouteLoads = {user}
  ByRoute = {user}
  Params = {p1, p2}
  Home = p1
  Retries = 0
  Events = {e1, e2}
  Invalidates <- BothInOrder
  NoData = NoData
  Free = Free
  NoWait = NoWait
  MaxFlight = 1
  MaxVersion = 2
SPECIFICATION Spec
INVARIANTS InvalidationRefreshes ReadsItsWrites

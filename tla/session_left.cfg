CONSTANTS
  Parts = {"socket"}
  None = None
  byTitle = byTitle
  unwatched = unwatched
  Selections = {byTitle, unwatched}
  Filtered = {unwatched}
  ChunksOf <- MCChunksOf
  LOAD_ALL_CONCURRENCY = 2
  BatchesFail = TRUE
  MaxGen = 2
  Home = home
  Invited = invited
  MaxBackoff = 1
  Slots = {1, 2}
  MaxFaults = 2
  MaxMoves = 3
  Viewers = {ann, bob}
  MaxLocal = 5
  Downloaded = {e1, e2, e3}
  Servers = {home}
  MaxRestarts = 2
  Attempts = 3
  MaxClicks = 4
  MaxLost = 2
  Early = FALSE
SPECIFICATION Spec
CHECK_DEADLOCK FALSE
INVARIANT LeftOnUnmount

CONSTANTS
  Parts = {"queue"}
  None = None
  show = show
  season = season
  Titles = {movie, film, show, season}
  Shelved = {movie, film, show}
  Collected = {movie}
  OnlySeason <- MCOnlySeason
  MaxEdits = 1
  MaxOffset = 1
  MaxSweeps = 1
  Items = {e1, e2}
  MaxInits = 4
  MaxCalls = 1
  MaxToggles = 1
  e1 = e1
  e2 = e2
  e3 = e3
  movie = movie
  Seasons <- MCSeasons
  Movies = {movie}
  PlayLists <- MCPlayLists
  MaxActs = 3
  s1 = s1
  Sizes = {s1, s2}
  MaxResizes = 3
  Owner = host
  Watchers = {host, g1, g2}
  Capacity = 2
  RosterWorkers = 2
  MaxVisits = 2
SPECIFICATION Spec
INVARIANT PlayAllGoesOn
CHECK_DEADLOCK FALSE

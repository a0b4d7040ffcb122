CONSTANTS
  Slots = {s1, s2}
  MaxRequests = 3
  MaxFaults = 1
  Ids = {"series", "episode", "film", "new1", "new2", "new3"}
  Providers = {"feed", "other", "late"}
  Titles = {"t1", "t2"}
  Profiles = {v1}
  Feeds <- MCFeeds
  InitialMovies <- MCInitialMovies
  InitialProviders <- MCInitialProviders
  None = None
  Gone = Gone
CHECK_DEADLOCK FALSE
SPECIFICATION Spec
INVARIANT EpisodesFollowSeries
PROPERTIES ImportComplete ListedIsFound

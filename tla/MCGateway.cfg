SPECIFICATION FairSpec
CONSTANTS
  Boards <- MCBoards
  Home <- MCHome
  Swappable <- MCSwappable
  Jobs = {1, 2}
  Wishes <- MCWishes
  Nobody = 9
  MaxDeaths = 1
INVARIANTS
  SettingsKeptOrReported
  CacheIsTrue
PROPERTIES
  PromiseKept
  JobsGiveBack
CHECK_DEADLOCK FALSE

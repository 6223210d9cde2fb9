SPECIFICATION LoaderFairSpec
CONSTANTS
  MaxRequests = 3
  Parts = 2
  Overlap = TRUE
INVARIANTS LoaderTypeOK NoMixedPages OnlyLateRepliesHarm WatchedRequest LoaderIInv
PROPERTIES TimerReports
CHECK_DEADLOCK FALSE

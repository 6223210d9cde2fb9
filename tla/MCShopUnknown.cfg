SPECIFICATION Spec
CONSTANTS
  MaxRequests = 3
  Parts = 1
  Overlap = FALSE
  MayStop = FALSE
  k1 = k1
  k2 = k2
  Components = {k1, k2}
  NoPrice = NoPrice
  NoUrl = NoUrl
  Words <- McWords
  UrlRank <- McUrlRank
  PageKinds <- AllKinds
  ResetsParser = TRUE
  HasNextPages = TRUE
INVARIANTS AlwaysWatched
CHECK_DEADLOCK FALSE

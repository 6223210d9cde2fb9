SPECIFICATION Spec
CONSTANTS
  MaxRequests = 3
  Parts = 1
  Overlap = TRUE
  MayStop = TRUE
  k1 = k1
  k2 = k2
  Components = {k1, k2}
  NoPrice = NoPrice
  NoUrl = NoUrl
  Words <- McWords
  UrlRank <- McUrlRank
  PageKinds <- AllKinds
  ResetsParser = TRUE
  HasNextPages = TRUE
INVARIANTS TypeOK PriceOfComponent UrlOfComponent SearchWatched FailureHasNoPrice ShopIInv DataIsOwn
CHECK_DEADLOCK FALSE

SPECIFICATION HeaderSpec
CONSTANTS
  Plugins = {arest, proline}
  NoName = NoName
  Blank = Blank
  Prices = {0, 1, 2}
  ciBestPriceDefault = 3
  MaxShops = 3
  MaxComps = 2
  MaxCells = 2
INVARIANTS HeaderTypeOK MatrixCoversTable NoShopTwice BestIsLeast WidgetsShowHeaders OffersAreFree

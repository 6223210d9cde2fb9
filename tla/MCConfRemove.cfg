SPECIFICATION TableSpec
CONSTANTS
  Plugins = {arest}
  NoName = NoName
  Blank = Blank
  Prices = {0, 1}
  ciBestPriceDefault = 2
  MaxShops = 2
  MaxComps = 2
  MaxCells = 4
PROPERTIES PricesFollowHeaders

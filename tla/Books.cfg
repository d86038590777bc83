\* Documents of a few days change while a client reads a summary.
CONSTANTS
  wood = wood  table = table
  None = None
  About <- MCAbout
  Products = {wood, table}
  Openings = {0, 3}
  LastDay = 2
  Ranges <- MCRanges
  Asked <- FirstDay
  Configs <- MCConfigs
  Sizes = {1, 2}
  Limit = 1
  Delay = 1
  MaxClock = 3
  Threshold = 1
SPECIFICATION BooksSpec
INVARIANTS
  CodeVouches
  BalancesCarryOver
  PagesCarryOver
  RangeTaxesAddUp
CHECK_DEADLOCK FALSE

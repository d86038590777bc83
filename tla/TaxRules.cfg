\* Two requests on the tax configuration over a year, and what is then owed.
CONSTANTS
  r1 = r1  r2 = r2
  trade = trade  retail = retail  kiosk = kiosk  crafts = crafts
  popular = popular
  None = None
  Requests = {r1, r2}
  Categories = {trade, retail, kiosk, crafts}
  Tags = {popular}
  VatOf <- MCVat
  PitOf <- MCPit
  ParentOf <- MCParent
  TagOf <- MCTag
  MonthLengths <- MC2026
  FirstWeekday = 4
  Days <- MCDays
  Cooldown = 90
  MaxConfigs = 3
  Threshold = 5
  Sums <- MCSums
SPECIFICATION OnboardingSpec
SYMMETRY MCSlots
INVARIANTS
  ConfigsChain
  SpacedByCooldown
  CalendarFits
  TaxIsMonotone
  NoCliff
\* The clock ends with Days.
CHECK_DEADLOCK FALSE

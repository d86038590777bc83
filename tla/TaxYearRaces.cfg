\* Two people who sell and keep the books at once, over the turn of a year.
CONSTANTS
  a = a  b = b  s1 = s1  s2 = s2  e1 = e1
  None = None
  Requests = {a, b}
  NumQuarters = 2
  YearOf <- TwoYears
  Configs <- MCConfigs
  ConfigOf <- MCConfigOf
  Sales = {s1}
  Outlays = {}
  Amount <- MCAmount
  Dates <- SomeLate
  Permits <- RacingPermits
  Claims = {}
  Picks = {"PROFIT_20"}
  Prompt = TRUE
  Threshold = 1
SPECIFICATION TaxYearSpec
INVARIANTS
  DeclaredAsClosed
  PaidIsFiled
  YearToDate
PROPERTIES
  DeclarationFinal

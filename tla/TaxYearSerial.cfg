\* One request at a time, in two quarters of one year.
CONSTANTS
  a = a  b = b  s1 = s1  s2 = s2  e1 = e1
  None = None
  Requests = {a}
  NumQuarters = 2
  YearOf <- OneYear
  Configs <- MCConfigs
  ConfigOf <- MCConfigOf
  Sales = {s1, s2}
  Outlays = {e1}
  Amount <- MCAmount
  Dates <- TwoDates
  Permits <- AnyOfOne
  Claims = {}
  Picks = {"PERCENTAGE", "PROFIT_20"}
  Prompt = TRUE
  Threshold = 1
SPECIFICATION TaxYearSpec
SYMMETRY MCSales
INVARIANTS
  TaxYearTypeOK
  ClosedIsPrefix
  NothingPending
  YearToDate
  YearTaxAddsUp
PROPERTIES
  NoLateRevenue
  SubmittedIsTrue

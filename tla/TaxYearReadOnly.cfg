\* What a closed period sums, when its documents are canceled later on.
CONSTANTS
  a = a  b = b  s1 = s1  s2 = s2  e1 = e1
  None = None
  Requests = {a}
  NumQuarters = 2
  YearOf <- OneYear
  Configs <- MCConfigs
  ConfigOf <- MCConfigOf
  Sales = {s1, s2}
  Outlays = {e1}
  Amount <- MCAmount
  Dates <- TwoDates
  Permits <- SellsAndCloses
  Claims = {}
  Picks = {"PERCENTAGE"}
  Prompt = TRUE
  Threshold = 1
SPECIFICATION TaxYearSpec
PROPERTY
  ClosedIsReadOnly

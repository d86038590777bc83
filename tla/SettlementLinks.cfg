SPECIFICATION SettlementSpec
CONSTANTS
  a = a
  b = b
  i1 = i1
  i2 = i2
  v1 = v1
  v2 = v2
  pen = pen
  None = None
  Requests = {a, b}
  Invoices = {i1}
  Bills = {}
  Vouchers = {v1, v2}
  Orders = {}
  Products = {pen}
  Goods = {pen}
  Baskets <- OnePen
  Worth <- PenWorth
  Deliveries = {}
  Cost <- NoCosts
  Opening <- PlentyPens
  Amounts = {1, 2}
  Permits <- LinkPermits
  MaxRequests = 5
  MayFail = TRUE
INVARIANTS
  NotOverCollected
  FlagIsRight

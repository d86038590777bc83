SPECIFICATION Spec
CONSTANTS
  a = a
  b = b
  c = c
  i1 = i1
  i2 = i2
  pen = pen
  ink = ink
  repair = repair
  None = None
  Requests = {a, b, c}
  Invoices = {i1, i2}
  Bills = {}
  Vouchers = {}
  Orders = {}
  Products <- AllProducts
  Goods <- TwoGoods
  Baskets <- TwoBaskets
  Worth <- LineTotals
  Deliveries = {}
  Cost <- NoCosts
  Opening <- OpeningStock
  Amounts = {}
  Permits <- SerialPermits
  MaxRequests = 10
  MayFail = TRUE
INVARIANTS
  IInv
  StockConservation
  RevenueIsIssuedTotal
PROPERTIES
  ContentLocked
  StatusLocked
  ImplementsLedger

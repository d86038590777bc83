SPECIFICATION Spec
CONSTANTS
  a = a
  b = b
  c = c
  i1 = i1
  i2 = i2
  pen = pen
  ink = ink
  repair = repair
  None = None
  Requests = {a, b, c}
  Invoices = {i1}
  Bills = {}
  Vouchers = {}
  Orders = {}
  Products <- AllProducts
  Goods <- TwoGoods
  Baskets <- TwoBaskets
  Worth <- LineTotals
  Deliveries = {}
  Cost <- NoCosts
  Opening <- SomeStock
  Amounts = {}
  Permits <- PublishRacePermits
  MaxRequests = 9
  MayFail = TRUE
INVARIANTS
  StockNonNegative
  GoodsNotInvented
  RevenueNotUnderstated

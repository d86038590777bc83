SPECIFICATION InventorySpec
CONSTANTS
  a = a
  b = b
  c = c
  i1 = i1
  b1 = b1
  b2 = b2
  v1 = v1
  o1 = o1
  pen = pen
  ink = ink
  repair = repair
  None = None
  Requests = {a, b}
  Invoices = {i1}
  Bills = {b1}
  Vouchers = {}
  Orders = {o1}
  Products = {pen, ink, repair}
  Goods = {pen, ink}
  Baskets <- OneOrTwoPens
  Worth <- PenWorth
  Deliveries <- PenDeliveries
  Cost <- DeliveryCost
  Recipes <- PenRecipes
  Opening <- OnePenLeft
  Amounts = {}
  Permits <- KeepersPermits
  MaxRequests = 6
  MayFail = TRUE
INVARIANTS
  InventoryTypeOK
  StockNonNegative
PROPERTIES
  CanceledOrderFinal

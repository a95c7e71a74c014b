SPECIFICATION Spec
CONSTANTS
  None = None
  Cents <- TwoPrices
  Grace = 1
  BanDelay = 1
  Warranty = 2
  Starts <- TwoDays
  Intervals <- Daily
  Rentals = {"team", "plus"}
  MaxDay = 2
  Horizon = 2
  CaseIds = {1, 2}
  Browsers = {}
INVARIANTS
  RefundWithinPayment
PROPERTIES
  NoReceiptDuringAfterSales

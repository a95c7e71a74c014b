SPECIFICATION Spec
CONSTANTS
  None = None
  Cents <- TwoPrices
  Grace = 1
  BanDelay = 1
  Warranty = 2
  Starts <- TwoDays
  Intervals <- TwoIntervals
  Rentals = {"team"}
  MaxDay = 1
  Horizon = 2
  CaseIds = {1}
  Browsers = {1}
INVARIANTS
  ScheduledPriceIsAhead
  ReferencedBillIsImmutable
PROPERTIES
  NoLostUpdate
  PaymentAgreesWithPrice

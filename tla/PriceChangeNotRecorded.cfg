SPECIFICATION Spec
CONSTANTS
  None = None
  Cents <- TwoPrices
  Grace = 1
  BanDelay = 1
  Warranty = 2
  Starts <- OneDay
  Intervals <- TwoIntervals
  Rentals = {"team"}
  MaxDay = 2
  Horizon = 2
  CaseIds = {}
  Browsers = {}
PROPERTIES
  PriceChangeIsRecorded

SPECIFICATION FairSpec
CONSTANTS
  None = None
  good = good
  bad = bad
  Subs = {good, bad}
  Undeliverable = {bad}
  Facts = {1, 2}
  Limit = 1
  MaxShift = 1
  Retention = 1
  BackOff <- Doubling
  MaxMails = 2
  MaxBills = 2
  MaxCrashes = 1
INVARIANTS
  ConfirmationIsTrue
PROPERTIES
  TwiceOnlyAfterFailure
  ImplementsMailDelivery
  EveryMailSettles

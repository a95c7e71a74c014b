SPECIFICATION Spec
CONSTANTS
  a1 = a1
  a2 = a2
  t1 = t1
  t2 = t2
  t3 = t3
  h1 = h1
  h2 = h2
  Accounts = {a1, a2}
  Seats = {t1, t2}
  AccountOf <- TwoAccounts
  Owner <- SeparateOwners
  Subs <- TwoSubs
  Plus <- NoPlus
  Handlers = {h1, h2}
  NoSeat = NoSeat
  NoAccount = NoAccount
  NoCase = NoCase
  Allowance = 1
  Window = 2
  FreezeDays = 2
  Grace = 1
  Period = 2
  MaxTime = 3
  MaxBills = 1
  BanDelay = 0
  MaxBatch = 1
INVARIANTS
  CasesMatchSubscriptions
PROPERTIES
  PaidTimeIsRefunded
  PausedAccountGetsNobody
  DeferralIsRespected
SYMMETRY SwapAccounts
CHECK_DEADLOCK FALSE

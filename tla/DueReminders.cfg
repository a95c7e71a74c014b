SPECIFICATION FairSpec
CONSTANTS
  None = None
  dense = dense
  rented = rented
  Subs = {dense, rented}
  Plus = {rented}
  Billed = {dense}
  Touched = {dense}
  FirstDues <- Dues
  Slots = 3
  Trigger = 1
  Start = 4
  End = 9
  Ahead = 1
  Notice = 2
  Late = 1
  BackOff <- Doubling
  MaxShift = 1
  MaxEvents = 2
  MaxLag = 1
INVARIANTS
  ReadyIsOwed
PROPERTIES
  OwedIsTried
  PendingSettles

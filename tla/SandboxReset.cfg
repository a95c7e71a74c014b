SPECIFICATION Spec
CONSTANTS
    t1 = t1
    t2 = t2
    Tabs <- MCTabs
    MaxRequests = 2
    MaxSessions = 2
    MaxResets = 2
INVARIANT NoOldDataInANewWorld
SYMMETRY MCSymmetry
CHECK_DEADLOCK FALSE

SPECIFICATION Spec
CONSTANTS
    c1 = c1
    s1 = s1
    t1 = t1
    t2 = t2
    k1 = k1
    Nothing = nothing
    Codes <- MCCodes
    Seats <- MCSeats
    Tabs <- MCTabs
    StorageKeys <- MCKeys
    StorageKeyOf <- MCKeyOf
    MaxApps = 2
INVARIANTS
    OneApplicationPerCode
PROPERTIES
    DecisionReachesCustomer

SPECIFICATION Spec
CONSTANTS
    s1 = s1
    s2 = s2
    a1 = a1
    c1 = c1
    c2 = c2
    seat = seat
    t1 = t1
    t2 = t2
    Nobody = nobody
    Opaque = opaque
    DueField = "due"
    Fields = {"due", "price"}
    Scenarios = {"extension", "discount"}
    Contacts = {a1}
    CardPrices = {1, 2}
    Period = 1
    MaxDays = 1
    Openings = {1}
    Month = 2
    Notice = 1
    MaxSeats = 1
    MaxFreeze = 1
    MaxCalls = 2
    FewCalls = 1
    MaxChanges = 1
    MaxKeys = 3
    MaxSteps = 3
    MaxPeriods = 2
    MaxVersion = 3
    MaxApps = 2
    MaxRequests = 2
    MaxSessions = 2
    MaxResets = 1
    MaxDepartures = 1
    CareDays = 3
    AccountDays = 2
    CardDays = 2
    MaxPrice = 3
    LowPrice = 2
    TypedPrices = {2, 3}
    FewPrices = {3}
    MaxGoals = 2
    MaxChecks = 1
    Paid = 1
    Subscriptions <- MCSubscriptions
    Accounts <- MCAccounts
    Codes <- MCCodes
    Seats <- MCSeats
    Tabs <- MCTabs
    Itself <- MCItself
    Pages = {"repricing", "repricing calls", "goals", "cards", "after-sales", "accounts"}
INVARIANTS
    DeferredAtFirstUnpaid
PROPERTIES
    SafeguardsHoldWhenWritten
    CompletedGoalsStay
    RefreshShowsWhatItFetched
    RefundsStandAsPaid
SYMMETRY MCSymmetry
CHECK_DEADLOCK FALSE

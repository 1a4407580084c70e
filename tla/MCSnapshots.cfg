SPECIFICATION TimedApartSpec
CONSTANTS
    k1 = k1
    r1 = r1
    r2 = r2
    Keys = {k1}
    Requests = {r1}
    NoRequest = NoRequest
    KeyOf <- OneKey
    DaysOf <- AllOne
    Balances = {2}
    Outages = {1}
    MaxCharges = 2
    Callers = {c1}
    Readers = {d1}
    MaxVersion = 2
    Workers = {w1}
    AttemptsCap = 4
    Reconcilers = {x1}
    NoKey = NoKey
    Batches = {b1,b2}
    Senders = {s1}
    MaxDays = 2
    MaxTicks = 3
    Overlap = TRUE
    Crashes = TRUE
SYMMETRY Actors
INVARIANT BalanceOfItsTime
PROPERTIES
    SnapshotTimesGrow
    OnlyConfirmationsAreUndone
CHECK_DEADLOCK FALSE

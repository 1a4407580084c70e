SPECIFICATION TimedSpec
CONSTANTS
    k1 = k1
    r1 = r1
    r2 = r2
    Keys = {k1}
    Requests = {r1}
    NoRequest = NoRequest
    KeyOf <- OneKey
    DaysOf <- AllOne
    Balances = {2}
    Outages = {1}
    MaxCharges = 2
    Callers = {c1}
    Readers = {d1}
    MaxVersion = 3
    Workers = {w1}
    AttemptsCap = 4
    Reconcilers = {}
    NoKey = NoKey
    Batches = {b1}
    Senders = {s1}
    MaxDays = 2
    MaxTicks = 2
    Overlap = FALSE
    Crashes = FALSE
SYMMETRY Actors
PROPERTY OlderBalanceNeverWins
CHECK_DEADLOCK FALSE

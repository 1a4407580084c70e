SPECIFICATION Spec
CONSTANTS
    k1 = k1
    r1 = r1
    r2 = r2
    Keys = {k1}
    Requests = {r1, r2}
    NoRequest = NoRequest
    KeyOf <- OneKey
    DaysOf <- AllOne
    Balances = {2}
    Outages = {}
    MaxCharges = 2
    Callers = {c1, c2}
    Readers = {d1}
    MaxVersion = 1
    Workers = {w1}
    AttemptsCap = 4
    Reconcilers = {}
    NoKey = NoKey
    Batches = {}
    Senders = {}
    MaxDays = 0
    Overlap = TRUE
    Crashes = FALSE
SYMMETRY Actors
INVARIANT ReservedMatchesOpen

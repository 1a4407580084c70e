SPECIFICATION Spec
CONSTANTS
    k1 = k1
    r1 = r1
    r2 = r2
    Keys = {k1}
    Requests = {r1}
    NoRequest = NoRequest
    KeyOf <- OneKey
    DaysOf <- AllOne
    Balances = {1}
    Outages = {1}
    MaxCharges = 2
    Callers = {c1}
    Readers = {d1}
    MaxVersion = 1
    Workers = {}
    AttemptsCap = 4
    Reconcilers = {}
    NoKey = NoKey
    Batches = {b1}
    Senders = {s1,s2}
    MaxDays = 1
    Overlap = FALSE
    Crashes = FALSE
SYMMETRY Actors
PROPERTY EndedDeliveryIsIngested

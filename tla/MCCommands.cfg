SPECIFICATION Spec
CONSTANTS
    k1 = k1
    r1 = r1
    r2 = r2
    Keys = {k1}
    Requests = {r1, r2}
    NoRequest = NoRequest
    KeyOf <- OneKey
    DaysOf <- AllOne
    Balances = {2}
    Outages = {}
    MaxCharges = 2
    Callers = {c1, c2}
    Readers = {}
    MaxVersion = 1
    Workers = {w1}
    AttemptsCap = 4
    Reconcilers = {}
    NoKey = NoKey
    Batches = {b1}
    Senders = {s1, s2}
    MaxDays = 1
    Overlap = TRUE
    Crashes = FALSE
SYMMETRY ActorsAndRequests
INVARIANTS
    TypeOK
    LedgerExplainsReserved
    CancelledEventNotPending
PROPERTIES
    NoOverbooking
    ApprovalIsExclusive
    BatchChangeIsBooked

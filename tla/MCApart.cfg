SPECIFICATION ApartSpec
CONSTANTS
    k1 = k1
    r1 = r1
    r2 = r2
    Keys = {k1}
    Requests = {r1, r2}
    NoRequest = NoRequest
    KeyOf <- OneKey
    DaysOf <- AllOne
    Balances = {2}
    Outages = {}
    MaxCharges = 2
    Callers = {c1,c2}
    Readers = {}
    MaxVersion = 2
    Workers = {w1}
    AttemptsCap = 4
    Reconcilers = {x1}
    NoKey = NoKey
    Batches = {}
    Senders = {}
    MaxDays = 0
    Overlap = TRUE
    Crashes = TRUE
SYMMETRY ActorsAndRequests
INVARIANTS
    ReservedMatchesOpen
    ChargedOnce
    ChargesMatchOutcomes
    LedgerTellsFate
PROPERTIES
    KeepsTheBook
    SubmittedNotWithdrawn
    ClosedStaysClosed

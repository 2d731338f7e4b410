SPECIFICATION FairSpec
CONSTANTS
    c1 = c1
    c2 = c2
    Clients = {c1, c2}
    MaxCalls = 3
INVARIANT OutcomesCoverGets
PROPERTY SummaryStops
CHECK_DEADLOCK FALSE

CONSTANTS
    Senders = {p1, p2}
    None = None
    Window = 2
    Freshness = 2
    MaxSenders = 1
    Backstep = 1
    MaxSeq = 3
    MaxTime = 4
    MaxRuns = 2
    MaxSent = 5
SPECIFICATION FilterSpec
INVARIANTS
    RestartIsAdmitted
    
PROPERTY
    FreshStateIsKept

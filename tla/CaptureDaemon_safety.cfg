SPECIFICATION FairSpec
CONSTANTS
    a1 = a1  a2 = a2  blank = blank  t1 = t1  t2 = t2  c1 = c1  c2 = c2
    None = None
    Blank = blank
    Texts <- MCTexts
    Apps <- MCApps
    Clean <- MCClean
    Frames <- MCThreeFrames
    Policies <- MCPolicies
    Gap = 1
    Batch = 2
    Capacity = 1
    MaxRows = 3
    MaxFaults = 1
    MaxRewinds = 1
    MaxCrashes = 1
    MaxPauses = 1
INVARIANTS
    NoLoss
    ReceiptBehindEveryObservation
    StoredStreamKeepsItsRules
    ExtractionCatchesUp
    StatsAccount
    PauseBound
PROPERTIES
    ReplayOnlyUnconfirmed
    ImplementsDurableIngest
    CatchesUp
\* The drain task may have returned for good while the bounds are used up.
CHECK_DEADLOCK FALSE

SPECIFICATION FairDrainSpec
CONSTANTS
    a1 = a1  a2 = a2  blank = blank  t1 = t1  t2 = t2  c1 = c1  c2 = c2
    None = None
    Blank = blank
    Texts <- MCTexts
    Apps <- MCApps
    Clean <- MCClean
    Frames <- MCFrames
    Policies <- MCPolicies
    Gap = 1
    Batch = 2
    Capacity = 1
    MaxRows = 3
    MaxFaults = 1
    MaxRewinds = 0
INVARIANTS
    LeavesOnlyBehindBlankBatch
PROPERTIES
    DrainTerminates

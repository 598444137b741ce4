SPECIFICATION Spec
CONSTANTS
    p1 = p1  p2 = p2  p3 = p3
    None = None
    Conns <- MCConns
    LastVersion = 3
    Receipts = {"decision", "deletion"}
    Decisions <- MCDecisions
    Times = {0, 1}
    Answers = {"allow", "deny"}
    ExplainLimit = 2
    Filters <- MCFilters
    Limits = {0, 2}
    MaxCommits = 3
    MaxCrashes = 1
INVARIANTS
    ChainVerifies
    AckedReceiptsKept
    SchemaComplete
    ReadsAreRight
SYMMETRY ConnSymmetry
CHECK_DEADLOCK FALSE

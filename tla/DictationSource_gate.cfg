SPECIFICATION Spec
CONSTANTS
    None = None
    Broken = Broken
    Kinds <- MCKinds
    AlwaysOn <- MCAlwaysOn
    DetectorAt <- MCDetectorAt
    PlaceholderLen <- MCPlaceholderLen
    Card = "card"
    Sensitive <- MCSensitive
    Lines <- MCLines
    Others <- MCOthers
    Scripts <- MCScripts
    Permissive <- MCPermissive
    Patterns <- MCPatterns
    MaxBuffered = 2
    MaxPushes = 3
    MaxOthers = 1
    MaxRestarts = 1
    MaxEdits = 1
INVARIANTS
    NoLineIsLost
    RedactionIsExact
    PolicyIsApplied
CHECK_DEADLOCK FALSE

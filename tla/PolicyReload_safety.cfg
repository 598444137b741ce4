SPECIFICATION ReloadFairSpec
CONSTANTS
    read = read  push = push
    NoFile = NoFile
    Malformed = Malformed
    Calls <- MCCalls
    Versions <- MCVersions
    MaxEdits = 3
INVARIANTS
    CurrentWhenQuiet
    TraceExplainsEval
    DenyIsSticky
PROPERTIES
    EditsTakeEffect
CHECK_DEADLOCK FALSE

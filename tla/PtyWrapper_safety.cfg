SPECIFICATION PtySpec
CONSTANTS
    h1 = h1  h2 = h2  push = push  edit = edit
    None = None
    Hooks <- MCHooks
    Calls <- MCCalls
    CallOf <- MCCallOf
    Wide = {edit}
    Rulesets <- MCBothRulesets
    MaxFaults = 1
    MaxCrashes = 0
    MaxTime = 2
    Wrapped <- MCHooks
    Lookback = 1
INVARIANTS
    DenyEnforcedInTime
CHECK_DEADLOCK FALSE

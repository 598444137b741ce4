SPECIFICATION AttendedSpec
CONSTANTS
    h1 = h1  h2 = h2  push = push  edit = edit
    None = None
    Hooks <- MCHooks
    Calls <- MCCalls
    CallOf <- MCCallOf
    Wide = {}
    Rulesets <- MCRulesets
    MaxFaults = 1
    MaxCrashes = 1
INVARIANTS
    EveryVerdictAudited
    NoSilentAllow
    AnswersStayHome
    OneRowPerRequest
PROPERTIES
    HookReturns
CHECK_DEADLOCK FALSE

SPECIFICATION Spec
CONSTANTS
    p1 = p1  p2 = p2  slack = slack  slackConnect = slackConnect  r1 = r1  t1 = t1  t2 = t2
    None = None  Absent = Absent  Blank = Blank
    Calls <- MCCalls
    Flags = {}
    Threshold = 2
    Recorders <- MCRecorders
    Times = {1, 2}
    MaxObservations = 3
    Quotes <- MCQuotes
    Cli <- MCCli
    UserRules = {r1}
    Targets <- MCTargets
    StartsWith <- MCStartsWith
    UserEntries <- MCUserEntries
    Commands <- MCCommands
    MaxCommands = 2
    MaxFaults = 1
    MaxEdits = 1
INVARIANTS
    LearnedRulesAreEarned
    FilesKeepTheirLines
PROPERTIES
    BackedUp
CONSTRAINT MCTogether
SYMMETRY CliSymmetry
CHECK_DEADLOCK FALSE

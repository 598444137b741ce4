SPECIFICATION Spec
CONSTANTS
    None = None
    Inputs <- MCInputs
    Shapes <- MCShapes
    Newline = "/"
    Blank = " "
    Characters <- MCCharacters
    AllKinds <- MCKinds
    RequiredPerKind = 2
    QuestionSets <- MCQuestionSets
    PerMinute = 2
    Shift = 2
    EpisodeRef <- MCEpisodeRef
    MaxRows = 2
    MaxNow = 2
    MaxIngests = 2
    MaxK = 2
    MaxScored = 2
INVARIANTS
    EpisodesCoverTheCapture
    GateIsSound
CHECK_DEADLOCK FALSE

SPECIFICATION Spec
CONSTANTS
    Sarah = Sarah
    Quote = Quote
    Pricing = Pricing
    None = None
    Feed <- MCFeed
    Texts <- MCTexts
    Scopes <- MCScopes
    Cues <- MCCues
    Names <- MCNames
    Cutoffs <- MCCutoffs
    Like <- MCLike
    PerMilli = 3
    Ks <- MCKs
    BatchSize = 2
    CueLimit = 1
    MaxNow = 3
    MaxTroubles = 2
    MaxForgets = 1
    MaxPerWindow = 1
    Window = 2
    MaxCalls = 3
CONSTRAINT MCApart
ACTION_CONSTRAINT MCCalm
INVARIANTS
    
    
    RollingQuota
    
CHECK_DEADLOCK FALSE

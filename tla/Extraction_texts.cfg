SPECIFICATION TextSpec
CONSTANTS
    Absent = Absent
    NL = "/"
    Names <- MCNames
    Tails <- MCTails
    Day <- MCDay
    TopicWords = 3
    DayLength = 4
    Moments <- MCMoments
    Zones <- MCZones
    Vocabularies <- MCVocabularies
    MaxLen <- MCMaxLen
    Open = "{"
    Shut = "}"
    Quote = "q"
    Escape = "e"
INVARIANTS
    ExtractionIsExact
CHECK_DEADLOCK FALSE

CONSTANTS
    s1 = s1  s2 = s2  s3 = s3
    Deciders = {1, 2}
    Suggested = {s1, s2, s3}
    Spanless = {s3}
    Touches <- MCTouches
    Attempts = {1, 2}
    MaxTexts = 2
    MaxJobs = 2
    MaxRows = 2
    MaxBreaks = 1
SPECIFICATION DeskSpec
INVARIANTS
    MarksMatchText
    SuggestionsOfThisText
    DecidesWhatIsShown
PROPERTIES
    ScreenCatchesUp
CHECK_DEADLOCK FALSE

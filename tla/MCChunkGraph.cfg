SPECIFICATION FairSpec
CONSTANTS
    Source = {prose1, prose2, verse}
    Passthrough = {verse}
    MaxRetries = 1
    NoText = NoText
    None = None
    GlossaryBound = 1
INVARIANTS
    TypeOK
PROPERTIES
    ImplementsContract
    PaidWorkNotRepeated
    PromptsHoldTheGlossary
    RunsEnd

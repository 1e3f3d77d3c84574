CONSTANTS
    Retries = 2
    MaxVersion = 2
    MaxTime = 2
SPECIFICATION FairSpec
INVARIANTS
    OneOfEach
    ExclusionUnlessReloading
    EndCause
PROPERTIES
    EventHandled
    UpdateTaken
CHECK_DEADLOCK FALSE

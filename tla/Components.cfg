\* The smaller components, one at a time.  Every one of them may stop.
SPECIFICATION ComponentsSpec
CONSTANTS
    m1 = m1
    m2 = m2
    m3 = m3
    idle = idle
    active = active
    ready = ready
    Message = {m1, m2, m3}
    Input = {"/start", "/finish"}
    State = {idle, active, ready}
    Initial = idle
    On <- MCOn
    Routes <- MCRoutes
    Refused = refused
    NoSnapshot = nosnapshot
    HistoryLimit = 3
    r1 = r1
    r2 = r2
    Request = {r1, r2}
    NoRequest = norequest
    MaxFaults = 1
    s1 = s1
    s2 = s2
    v1 = v1
    v2 = v2
    i1 = i1
    i2 = i2
    i3 = i3
    p1 = p1
    p2 = p2
    Session = {s1, s2}
    View = {v1, v2}
    SessionOf <- MCSessionOf
    Instance = {i1, i2, i3}
    Offers <- MCOffers
    NoView = noview
    MaxChoiceSessions = 1
    MaxSessionChoices = 2
    MaxTurns = 2
    MaxStates = 3
    Piece = {"{", "}", "{}"}
    LineEnd = "nl"
    Opening = {"{", "{}"}
    EventOf <- MCEventOf
    Final = {"done"}
    Failure = "failure"
    Done = "end"
    MaxBytes = 2
    MaxRecords = 2
    TextLimit = 6
    ChunkLimit = 3
    Text = {"cli", "CLI", "run", "build", "test", "essay"}
    Key <- MCKey
    TooLong = {"essay"}
    EntryId = {"e1", "e2", "e3"}
    Values <- MCValues
    Artifacts <- MCArtifacts
    MaxSuggestions = 2
    HasFallback = FALSE
    Category = {"sessions", "decisions", "memory", "cost"}
    MaxCalls = 2
    u1 = u1
    u2 = u2
    small = small
    large = large
    huge = huge
    Ref = {u1, u2}
    Foreign = {"link"}
    Content = {small, large, huge}
    Size <- MCSize
    NoContent = nocontent
    MaxUploadBytes = 2
    MaxTotalBytes = 3
    MaxInput = 2
    MaxParts = 3
INVARIANTS
    ComponentsTypeOK
    ReplayTellsOutcome HolderCurrent
    SavedSessionResumes
    ReservationsMatch
    CompleteShowsLast
    ChunksMakeNoDifference TextIsShown
    ErasedMeansGone
    CallWithinBudget
PROPERTIES
    DecidedOnce TranscriptKept
    RetryRepeats
    FailedChoiceIsOpen
    SnapshotsInOrder ResponseEnds
    ChosenIsAnswered
CHECK_DEADLOCK FALSE

\* A conversation whose client reloads before its last persist lands, and goes on.
SPECIFICATION ConversationSpec
CONSTANTS
    m1 = m1
    m2 = m2
    m3 = m3
    idle = idle
    active = active
    ready = ready
    Message = {m1, m2, m3}
    Input = {"/start", "/finish"}
    State = {idle, active, ready}
    Initial = idle
    On <- MCOn
    Routes <- MCRoutes
    Refused = refused
    NoSnapshot = nosnapshot
    HistoryLimit = 3
INVARIANT SnapshotResumes
CHECK_DEADLOCK FALSE

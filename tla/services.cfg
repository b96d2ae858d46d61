CONSTANTS
    None = None
    Ended = Ended
    c1 = c1
    c2 = c2
    p1 = p1
    p2 = p2
    q1 = q1
    q2 = q2
    m1 = m1
    m2 = m2
    Jobs = {1, 2}
    Dirs = {d1, d2}
    Names = {n1, n2}
    Objects = {1, 2}
    Calls = {c1, c2}
    Attempts = 2
    Threshold = 2
    Daemons = {1, 2}
    Models = {m1, m2}
    Clashes <- Clashing
    Participants = {p1, p2}
    MaxBlind = 1
    Pids = {q1, q2}
    Messages = {k1, k2}
    TooLong = {{k1, k2}}
    MaxSweeps = 1
    fa = fa
    fb = fb
    Files = {fa, fb}
    Absent = {fb}
    Editors = {e}
    Plans <- EditPlans
    MaxCrashes = 1
    MaxFaults = 1
SPECIFICATION Spec
INVARIANTS
    TypeOK RecordsAreTrue AnswersAreKept LeavesCleanly OneJobPerModel InboxIsKept
PROPERTIES
    FinalStays SessionsTakeTurns FilesAreKept EveryCallEnds
CHECK_DEADLOCK FALSE

CONSTANTS
    None = None
    Everybody = Everybody
    pa = pa
    pb = pb
    pc = pc
    f1 = f1
    f2 = f2
    Rooms = {r1}
    Challenged = r1_challenge
    Spare = {r2}
    Objects = {1, 2, 3}
    Calls = {c1, c2, c3}
    Fusions = {f1, f2}
    RoundsTotal = 2
    Agents = {"claude:opus", "opus"}
    Own = {"Critic"}
    MaxSteps = 3
    MaxMessages = 4
    MaxBreaks = 1
    Timeout = 4
    Idle = 2
    Progress = 3
    Window = 3
    Repeats = 2
    Actions = {act}
    MaxActions = 2
    Names = {pa, pb, pc}
    Speakers = {pa, pb}
    MaxRetries = 2
    Flags = {"blind"}
    Verbatim = 1
    MaxRounds = 3
    Claims = {claim}
    Voices = {v1, v2, v3}
    Parties = {{v1}, {v1, v2, v3}}
    Streak = 2
    MaxCall = 3
    MaxCrashes = 1
    MaxFaults = 1
SPECIFICATION Spec
INVARIANTS
    TypeOK RoomsAreKept ResultIsKept PipelineIsAcyclic TranscriptIsTrue
    VerdictIsDeserved RolesAreKept JudgementIsEarned
PROPERTIES
    EveryRunEnds
CHECK_DEADLOCK FALSE

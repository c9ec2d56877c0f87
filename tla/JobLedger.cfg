SPECIFICATION PairSpec
CONSTANTS
    coordinator = coordinator
    material = material
    personal = personal
    clustering = clustering
    w1 = w1
    w2 = w2
    Job = {coordinator, material, clustering, personal}
    Shared = {coordinator, material, clustering}
    Coordinator = {coordinator}
    Hq = {}
    Blocking = {coordinator}
    Material = {material}
    Clustering = {clustering}
    Worker = {w1, w2}
    Wired = {"heartbeat", "fail_expired_shared"}
    MaxAttempt = 2
    MaxVersion = 4
INVARIANTS
    ResultIffSucceeded
    OneRunPerAttempt
    EventShowsRow
PROPERTIES
    EventVersionsGrow
    ImplementsAttemptOutcome
    RequesterRunsEnd
CHECK_DEADLOCK FALSE

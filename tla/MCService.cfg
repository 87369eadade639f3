SPECIFICATION Spec
CONSTANTS
    q1 = q1
    q2 = q2
    a1 = a1
    a2 = a2
    d1 = d1
    A = A
    B = B
    x = x
    y = y
    q = q
    s1 = s1
    r1 = r1
    e1 = e1
    e2 = e2
    Asked = {q1, q2}
    MaxPending = 1
    Polls = 1
    Admins = {a1, a2}
    Databases = {d1}
    Names = {A, B}
    Hosts = {x, y}
    Queries = {q}
    NoRow = NoRow
    Screens = {s1}
    Addresses = {x, y}
    None = None
    Completions = {r1}
    Optional = {"reasoning_effort"}
    Retries = 1
    RetryTimeouts = TRUE
    Texts = 1
    MaxBytes = 5
    MaxSize = 3
    Requests = {r1}
    NoRequest = NoRequest
    OtherRequest = OtherRequest
    Attempts = 2
    MaxDeaths = 1
    Alike = 2
    Endpoints = {e1, e2}
    Questions = {r1}
    NoEndpoint = NoEndpoint
    MaxVersion = 2
    MaxListings = 2
    Asks = {q1, q2, r1}
    Domains = {x, y}
    DnsWorkers = 2
    NoFlight = NoFlight
    PoolRuns = {q1, q2}
    TargetRows = {x, y}
    MaxPools = 2
    NoPool = NoPool
INVARIANTS
    AnsweredIsLogged
    TargetsAreRegistered
    SecretsStayHome
    ShownIsTheAnswer
    LinesAreWhole
    AnswersFindTheirRequest
    NoProcessIsLost
    LookupsAreShared
    RunsComeToAPool
PROPERTIES
    ServerWindsDown
    ListedAgainStays
CHECK_DEADLOCK FALSE

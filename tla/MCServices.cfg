CONSTANTS
    Skills = {"x", "b"}
    BuiltinSkills = {"b"}
    Clerks = {"c1", "c2"}
    OwnTools = {"w"}
    LentTools = {"m"}
    Ghost = "ghost"
    AllowLists = {{"m"}, {"ghost"}}
    BlockLists = {{}}
    MaxVersion = 1
    MaxRequests = 3
    MaxProbes = 1
    EvictAfter = 1
    Tasks = {"t1"}
    Elsewhere = "t2"
    Users = {"u", "v"}
    Callers = {"c1", "c2"}
    CallSizes = {1, 2}
    MaxRows = 2
    MaxBytes = 3
    ScanLimit = 1
    HitLimit = 1
    MaxCallsMade = 3
    Written = {"chat"}
    MaxMemories = 1
    MaxSearched = 1
    MaxRuns = 1
    Visitors = {"v1", "v2"}
    UserKeys = {"u"}
    AddressKeys = {"a"}
    UserLimit = 2
    AddressLimit = 0
    Window = 2
    WithRedis = TRUE
    MaxHits = 5
    MaxNow = 4
    Errands = {"e1", "e2", "e3", "e4"}
    Processes = {"p1", "p2"}
    MaxDaily = 3
    MaxAtOnce = 2
    LastDay = 1
    MaxFaults = 1
    Schedules = {"s1", "s2"}
    BadCron = {"s2"}
    Hands = {"h1", "h2"}
    MaxTickets = 2
    MaxAgain = 1
    MaxStops = 1
    Askers = {"a1", "a2"}
    Engines = {"m1", "m2", "off"}
    Local = "off"
    Attempts = 2
    MaxSwaps = 2
    MaxAsks = 2
    MsgSizes = {1, 2}
    MaxMessages = 4
    MaxChars = 6
    MaxTurns = 3
SPECIFICATION Spec
INVARIANTS PublishedWasValidated RecordsSound WindowBounded  AnswersFollowConfig
PROPERTIES DispatchSound HistorySound
CHECK_DEADLOCK FALSE

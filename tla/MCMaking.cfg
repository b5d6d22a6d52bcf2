CONSTANTS
    Words = 4
    MaxSegments = 1
    MaxPerTurn = 1
    MaxAutoTurns = 1
    MaxWrite = 5
    MaxFile = 10
    ChunkSize = 2
    Targets = {0, 2}
    Operators = {"append", "rewrite", "kickoff_body", "talk"}
    NMessages = 3
    Paths = {a, b}
    ToolNodes = {1, 2, 3}
    Plans <- SomePlans
    MaxReads = 1
    MaxWorkers = 2
    MaxText = 2
    MaxRounds = 1
    MaxForeign = 1
    MaxTokens = 1
    Makers = {"e1"}
    MaxSteps = 10
    MaxRepairs = 2
    MaxAttempts = 2
    VerifySlots = 2
    Intents = {"interactive_app", "small_project", "code", "general"}
    Subtasks = {"s1", "s2"}
    MaxThreads = 2
    Retries = 1
    Ttl = 1
    MaxTicks = 2
    MaxRetries = 1
    MaxArgs = 5
    MaxShown = 3
    MaxChunk = 3
SPECIFICATION Spec
INVARIANTS  SupervisorSound 
PROPERTIES WritingSound FilesSound DependenciesFirst
SYMMETRY PathSymmetry
CHECK_DEADLOCK FALSE

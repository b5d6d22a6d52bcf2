CONSTANTS
    Parts = {"reducer", "budget", "knowledge", "evidence"}
    NDeliveries = 2
    MessageIds = {1, 2}
    Kinds = {"plain", "correction", "halt", "rewrite"}
    MaxUnderway = 2
    NStreams = 2
    NReports = 1
    Reports = {"thinking", "answer", "rewrite", "tools"}
    MaxTwins = 2
    MaxPolls = 1
    Facts = {"f1", "f2"}
    Sizes = {2, 5}
    Cap = 6
    Budget = 12
    HistoryTokens = 7
    MinTokens = 3
    MaxRegistry = 1
    MaxTranscript = 2
    MaxAssemblies = 1
    TokenLimit = 10
    PromptTokens = {2, 3}
    AnswerTokens = {1, 4}
    MaxCalls = 5
    Docs = {"d1"}
    Builtin = "d1"
    Owners = {"a"}
    Shared = "shared"
    Threads = {"t1", "t2"}
    MaxChunks = 2
    MaxWrites = 2
    MaxSearches = 1
    TopK = 3
    PerDoc = 2
    MaxRank = 2
    Sources = {"a"}
    Claims = {1, 2}
    Reasons = {"", "below_threshold"}
    SnippetSizes = {1}
    MaxHits = 2
    PerSource = 2
    EvidenceBudget = 1
    GateModes = {"soft", "hard"}
    MaxTurn = 2
    MaxUploads = 1
SPECIFICATION Spec
INVARIANTS  BudgetSpansNodes KnowledgeSound EvidenceSound
CHECK_DEADLOCK FALSE

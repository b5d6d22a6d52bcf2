SPECIFICATION FairReducerSpec
CONSTANTS
    Facts = {f1, f2}
    Sizes = {2, 5}
    Cap = 6
    Budget = 12
    HistoryTokens = 7
    MinTokens = 3
    MaxRegistry = 1
    MaxTranscript = 0
    MaxAssemblies = 1
PROPERTY ReductionEnds

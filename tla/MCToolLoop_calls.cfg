SPECIFICATION FairSpec
CONSTANTS
    b1 = b1
    c1 = c1
    c2 = c2
    Brains <- MCBrains
    Chats <- MCChats
    MaxIter = 2
    ChatMaxIter = 2
    MaxContinuations = 2
    MaxLLMRetries = 2
    HistoryLimit = 4
    MaxCalls = 2
    MaxTurns = 2
    MaxTroubles = 1
CHECK_DEADLOCK FALSE
INVARIANTS LoopInv AskedWellFormed SessionKept
PROPERTY LoopsEnd

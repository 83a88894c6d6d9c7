SPECIFICATION ListSpec
CONSTANTS
    NumProducts = 5
    Keys = {1, 2}
    NumCPU = 2
    MaxPage = 3
    MaxPageSize = 2
    Histories <- MCHistories
INVARIANTS
    AnswerIsThePage

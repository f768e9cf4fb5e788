SPECIFICATION ProgressSpec
CONSTANTS
    None = None
    Accounts = {a1, a2}
    Workers = {w1}
    MaxMedia = 2
    Published = 1
    Text = 1
    Texts = {1}
    Taken = {}
    Deletable = {}
    PageSize = 1
    PagesPerRun = 1
    CallBudget = 4
    AccountsPerTick = 1
    MaxRuns = 2
    MaxGenerations = 1
    MaxEdits = 1
    MaxFaults = 1
CHECK_DEADLOCK FALSE
PROPERTY EveryOperationReported
 
 
 

SPECIFICATION DashboardSpec
CONSTANTS
    Stamps = {0}
    MaxPerDomain = 1
    BatchSize = 2
    MaxDecisions = 0
    MaxWrites = 1
    Threads = {t1, t2}
    Offers = {"actions"}
    LimitOfFailures = 1
    FailureWindow = 1
    MaxWrong = 0
    MaxRestarts = 0
INVARIANT
    ReadOnlyEndsWithItsBlock

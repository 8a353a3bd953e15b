SPECIFICATION DashboardSpec
CONSTANTS
    Stamps = {0, 1}
    MaxPerDomain = 1
    BatchSize = 2
    MaxDecisions = 4
    MaxWrites = 1
    Threads = {t1}
    Offers = {"explain", "feedback", "decision", "compare"}
    LimitOfFailures = 1
    FailureWindow = 0
    MaxWrong = 0
    MaxRestarts = 0
INVARIANTS
    HistoryIsChained
    ExplanationIsSound
PROPERTIES
    HistoryIsWhole

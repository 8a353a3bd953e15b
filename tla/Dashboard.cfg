SPECIFICATION FairDashboardSpec
CONSTANTS
    Stamps = {0}
    MaxPerDomain = 1
    BatchSize = 2
    MaxDecisions = 0
    MaxWrites = 1
    Threads = {t1, t2}
    Offers = {"actions", "rules", "rule", "feedback"}
    LimitOfFailures = 2
    FailureWindow = 1
    MaxWrong = 2
    MaxRestarts = 1
PROPERTIES
    PanelCatchesUp
    LoginSucceeds

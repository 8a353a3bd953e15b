SPECIFICATION FairSpec
CONSTANTS
    HighRiskThreshold = 70
    RowHasGet = FALSE
    Engine = engine
    Others = {benchmark}
    Profiles <- MCProfiles
    Answers <- MCAnswers
    FirstReputation <- MCFirstReputation
    AIEnabled = TRUE
    MaxCalls = 1
    Window = 1
    Cooldown = 1
    MaxRounds = 1
    MaxLag = 0
    MaxMishaps = 1
INVARIANTS
    RuleDecides
    UnaskedAIChangesNothing
    CooldownIsKept
    CallsAreBounded
PROPERTIES
    AIIsAskedAgain

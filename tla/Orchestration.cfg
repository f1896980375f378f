SPECIFICATION FairAnswersSpec
CONSTANTS
    k1 = k1
    Claim = {k1}
    WorkPlan <- MCPlans
    Blocking <- MCBlocking
    Bound <- MCBound
    Answers <- MCAnswers
    MaxConcurrency = 1
    MaxBlocking = 1
    MaxFaults = 1
    Parts = {"orchestration", "policies", "status", "answer"}
    Unit = {1, 2}
    Token = {"amount", "date"}
    Origin = {1, 2, 3}
    MaxDay = 1
    MaxVersion = 2
    MaxEdges = 1
    MaxDrift = 1
    MaxWeaker = 1
INVARIANTS
    OrderlyRunsDrain
    MachineIsSound
    RetryIsPlannable
    PublishedIsGrounded
PROPERTIES
    SiblingsKeepTheirResults
    StepsPersist
    EveryPhaseEnds
    AnswersAreStable
CHECK_DEADLOCK FALSE

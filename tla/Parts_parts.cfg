SPECIFICATION Spec
INVARIANTS
    LogIsComplete
    TargetIsKept
    MissingIsRecent
    AnswerIsOfOneVersion
    CacheIsPlain
    HandlerRunsAlone
    FoldersAreKept
    FramesSurviveCuts
    FirstInConfigurationDecides
    ChecksAreEnough
    ServiceIsFound
    QuestionsAreAnswered
    MetricsAreTrue
    AnswerIsOfOnePiece
PROPERTIES CertificatesAreRenewed
CHECK_DEADLOCK FALSE

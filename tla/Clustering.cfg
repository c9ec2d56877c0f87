SPECIFICATION FairSpec
CONSTANTS
    MaxQuestion = 4
    MaxAttempt = 3
INVARIANTS
    NothingForgotten
    OneOwner
    ClusteredOnce
    FinalIsTheClass
PROPERTY
    EveryQuestionIsClustered

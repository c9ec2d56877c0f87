SPECIFICATION FairSpec
CONSTANTS
    Inputs = {"recording", "answer", "question"}
    Retried = {"RECORDING_TRANSCRIPTION", "SESSION_POSTPROCESSING", "FINAL_SUMMARY"}
    MaxAttempt = 2
INVARIANTS
    VersionFollowsJob
    SourcesKept
PROPERTIES
    ProcessingEnds
    RecoveryRebuilds
    OrganizedAtCompletion
CHECK_DEADLOCK FALSE

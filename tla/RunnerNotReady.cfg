CONSTANTS
    Conversations <- MCRunnerOnly
    kRetryAttempts = 4
SPECIFICATION Spec
PROPERTY PredictOnlyWhenReady

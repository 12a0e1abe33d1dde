CONSTANTS
    Conversations <- MCConversations
    kRetryAttempts = 4
SPECIFICATION FairSpec
INVARIANTS TypeOK RunsOnlyWhatWasSent OkWasRunByTheAlgorithm GivesUpAfterAllAttempts
PROPERTIES NoQuestionAfterAnAnswer ConversationEnds

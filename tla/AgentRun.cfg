\* Three responses, two tools, one parallel and one sequential.
SPECIFICATION FairSpec
CONSTANTS
    Tools <- MCTools
    Batches <- MCBatches
    Waits <- MCWaits
    Attempts = 2
    MaxResponses = 3
    Kinds = {"return", "retry_prompt", "tool_failed", "deferred", "sleep"}
INVARIANTS
    TypeOK
    ResultsMatchNode
    NodeInHistory
    NodeBudget
    RetryBudget
    AnswersReachModel
PROPERTIES
    IsPlainAgent
    RunSettles

\* Every follow-up of up to three calls under lost and never-started actions.
SPECIFICATION FairSpec
CONSTANTS
    Tools <- MCTools
    Batches <- MCBatches
    Waits <- MCWaits
    Attempts = 2
    Kinds = {"return", "retry_prompt", "model_retry", "tool_failed", "deferred", "sleep", "delegate", "detach", "wait_messages"}
INVARIANTS
    TypeOK
    BarrierOrder
    LossBudget
    AtMostOneInstance
    WaitBounded
PROPERTIES
    ResultIsFinal
    IsPlainBatch
    BatchSettles

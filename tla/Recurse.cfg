CONSTANTS
    q1 = q1  q2 = q2
    Calls = {q1, q2}
    MaxDepth = 2
    Retries = 1
    MaxRuns = 4

SPECIFICATION FairSpec
INVARIANTS TypeOK DepthBounded AnswerComplete
PROPERTY FailureClimbs

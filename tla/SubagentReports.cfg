CONSTANTS
    i1 = i1  i2 = i2  c1 = c1  c2 = c2
    Instances = {i1}
    SubagentId = SubagentId
    NoKey = NoKey
    Claims = {c1}
    Nobody = Nobody
    BatchSize = 1
    Attempts = 2
    Orphans = {}

SPECIFICATION Spec
INVARIANT FinishIsSent

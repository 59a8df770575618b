CONSTANTS
    i1 = i1  i2 = i2  c1 = c1  c2 = c2
    Instances = {i1, i2}
    SubagentId = SubagentId
    NoKey = NoKey
    Claims = {c1, c2}
    Nobody = Nobody
    BatchSize = 1
    Attempts = 1
    Orphans = {"checked", "locked"}

SPECIFICATION FairSpec
INVARIANTS TypeOK HeardOnce ReportTrue
 

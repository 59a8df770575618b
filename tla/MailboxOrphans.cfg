CONSTANTS
    s1 = s1  s2 = s2  s3 = s3
    c1 = c1  c2 = c2  k1 = k1
    Senders = {s1, s3}
    Keys = {k1}
    NoKey = NoKey
    DedupeKey <- OneKeyed
    Claims = {c1, c2}
    Nobody = Nobody
    BatchSize = 1
    Attempts = 2
    MaxSends = 1
    Orphans = {"checked", "locked"}
SYMMETRY ClaimSymmetry
SPECIFICATION Spec
INVARIANTS TypeOK ClaimExclusive

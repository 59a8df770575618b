CONSTANTS
    s1 = s1  s2 = s2  s3 = s3
    c1 = c1  c2 = c2  k1 = k1
    Senders = {s1, s2, s3}
    Keys = {k1}
    NoKey = NoKey
    DedupeKey <- SharedKey
    Claims = {c1, c2}
    Nobody = Nobody
    BatchSize = 1
    Attempts = 2
    MaxSends = 1
    Orphans = {}

SPECIFICATION FairSpec
INVARIANTS NoDrop StoredOnce
PROPERTIES IsPlainMailbox Claimed

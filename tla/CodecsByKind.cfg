CONSTANTS
    a1 = a1  a2 = a2
    Agents = {a1}
    Registered = {"by_kind"}
    MaxDepth = 1
    MaxResults = 1
    MaxTurns = 1

SPECIFICATION Spec
INVARIANT KindsRoundTrip

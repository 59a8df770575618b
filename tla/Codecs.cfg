CONSTANTS
    a1 = a1  a2 = a2
    Agents = {a1, a2}
    Registered = {"none", "blind", "knowing", "by_kind"}
    MaxDepth = 3
    MaxResults = 2
    MaxTurns = 1

SPECIFICATION Spec
INVARIANTS ModelSeesPlain StoredSealed OwnAccepted
SYMMETRY Symmetry

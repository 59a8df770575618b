CONSTANTS
    m1 = m1  m2 = m2  n1 = n1  n2 = n2  a1 = a1  a2 = a2
    p1 = p1  p2 = p2
    Modules = {m1, m2}
    Names = {n1, n2}
    Agents = {a1, a2}
    Kinds = {"codecs"}
    Processes = {p1}
    Nothing = Nothing
    Layouts <- AlignedPrograms
    MaxRequests = 2

SPECIFICATION Spec
INVARIANTS TypeOK RestoresAgent HooksAgree
PROPERTY ShortNameSteady

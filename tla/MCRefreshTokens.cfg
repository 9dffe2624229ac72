SPECIFICATION Spec
CONSTANTS
    f1 = f1
    f2 = f2
    r1 = r1
    r2 = r2
    r3 = r3
    Families = {f1}
    Requests = {r1, r2, r3}
    MaxTokens = 3
SYMMETRY RequestSymmetry
INVARIANTS TypeOK SingleUse OneUsablePerFamily RevocationEndsFamily
PROPERTIES DeadStaysDead

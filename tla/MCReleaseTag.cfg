SPECIFICATION Spec
CONSTANTS
    Releasers = {r1, r2}
    c1 = c1
    c2 = c2
    c3 = c3
    Commits = {c1, c2, c3}
    Ancestors <- MCAncestors
    Root = c1
    Green = {c1, c2}
    Versioned = {c1, c3}
    None = None
SYMMETRY Symmetry
INVARIANTS
    ReleaseIsVerified
CHECK_DEADLOCK FALSE

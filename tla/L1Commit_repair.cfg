SPECIFICATION Spec
CONSTANTS
    Proc = {p1, p2}
    Draft = {d1, d2}
    Stamp = {s1, s2}
    None = None
    Torn = Torn
SYMMETRY Symmetry
INVARIANT RepairedPairMatches

SPECIFICATION FairSpec
CONSTANTS
    Proc = {p1, p2}
    Draft = {d1}
    Stamp = {s1}
    None = None
    Torn = Torn
PROPERTIES TransitionEnds

SPECIFICATION Spec
CONSTANTS
    Proc = {p1, p2}
    Draft = {d1}
    Stamp = {s1, s2}
    None = None
    Torn = Torn
SYMMETRY Symmetry
INVARIANTS TransitionsExclusive PairOrJournal RepairMatches
PROPERTIES DomainMovesOnlyUnderJournal

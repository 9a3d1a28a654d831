SPECIFICATION FairSpec
CONSTANTS
    u1 = u1
    u2 = u2
    u3 = u3
    u4 = u4
    Proc = {p1}
    Root = {u1, u2}
    Unit = {u1, u2, u3, u4}
    Children <- MCChildren
    RootOf <- MCRootOf
    Result = {x, y}
    Unreadable = {u2, u4}
    MayOverlap = FALSE
    None = None
    Torn = Torn
INVARIANTS EntryMatchesArtifact ReturnedIsRecorded
PROPERTIES LeafImmutable CallOnlyUnrecorded RunEnds

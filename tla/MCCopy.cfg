SPECIFICATION Spec
CONSTANTS
    Copier = {c1, c2}
    Dirs <- MCDirs
    Files <- MCFiles
    Size <- MCSize
    Roots <- MCRoots
    Given = {"no", "yes"}
INVARIANTS
    Inv
    CopyComplete
PROPERTY CopyEnds
CHECK_DEADLOCK FALSE
